---------------------------- MODULE FoldTheorems ----------------------------
(***************************************************************************)
(* Folds over finite sets and over sequences, and sums.  An induction is a *)
(* choice of a smallest set for which what is claimed fails.               *)
(***************************************************************************)
EXTENDS Integers, Sequences, FiniteSets, SequencesExt, FiniteSetTheorems, TLAPS

\* Among subsets of a finite set there is one that contains no other.
LEMMA MinimalSet ==
    ASSUME NEW C, IsFiniteSet(C), NEW B \in SUBSET (SUBSET C), B # {}
    PROVE  \E s \in B : \A t \in B : ~(t \subseteq s /\ t # s)
<1>1. FiniteSubsetsOf(C) = SUBSET C
  BY FS_FiniteSubsetsOfFinite
<1>2. IsWellFoundedOn(StrictSubsetOrdering(C), SUBSET C)
  BY <1>1, FS_StrictSubsetOrderingWellFounded
<1>3. PICK s \in B : \A t \in B : ~(<<t, s>> \in StrictSubsetOrdering(C))
  BY <1>2, WFMin
<1>4. QED
  BY <1>3 DEF StrictSubsetOrdering

\* Which is induction: what holds of a set when it holds of the sets below it holds of all.
LEMMA SubsetInduction ==
    ASSUME NEW C, IsFiniteSet(C), NEW G \in SUBSET (SUBSET C),
           \A s \in SUBSET C : (\A t \in SUBSET s : t # s => t \in G) => s \in G
    PROVE  G = SUBSET C
<1> DEFINE B == (SUBSET C) \ G
<1>1. SUFFICES ASSUME B # {} PROVE FALSE
  OBVIOUS
<1>2. B \in SUBSET (SUBSET C)
  OBVIOUS
<1> HIDE DEF B
<1>3. PICK s \in B : \A t \in B : ~(t \subseteq s /\ t # s)
  BY <1>1, <1>2, MinimalSet
<1>4. QED
  BY <1>3 DEF B

-----------------------------------------------------------------------------
(* A fold over a set: an element is picked, the rest is folded, and a step *)
(* puts the two together.                                                  *)

IsFold(step, pick, base, S, g) ==
    g = [s \in SUBSET S |-> IF s = {} THEN base
                            ELSE step[<<pick[s], g[s \ {pick[s]}]>>]]

Picks(pick, S) == \A s \in SUBSET S : s # {} => pick[s] \in s

\* There is at most one such function.
LEMMA FoldUnique ==
    ASSUME NEW S, IsFiniteSet(S), NEW step, NEW pick, NEW base, Picks(pick, S),
           NEW g, NEW h, IsFold(step, pick, base, S, g), IsFold(step, pick, base, S, h)
    PROVE  g = h
<1> DEFINE G == {s \in SUBSET S : g[s] = h[s]}
<1>1. ASSUME NEW s \in SUBSET S, \A t \in SUBSET s : t # s => t \in G
      PROVE  s \in G
  <2>1. CASE s = {}
    BY <2>1 DEF IsFold
  <2>2. CASE s # {}
    <3>1. pick[s] \in s
      BY <2>2 DEF Picks
    <3>2. s \ {pick[s]} \in G
      BY <1>1, <3>1
    <3>3. /\ g[s] = step[<<pick[s], g[s \ {pick[s]}]>>]
          /\ h[s] = step[<<pick[s], h[s \ {pick[s]}]>>]
      BY <2>2 DEF IsFold
    <3>4. QED
      BY <3>2, <3>3
  <2>3. QED
    BY <2>1, <2>2
<1>2. G = SUBSET S
  <2> HIDE DEF G
  <2>1. G \in SUBSET (SUBSET S)
    BY DEF G
  <2>2. QED
    BY <1>1, <2>1, SubsetInduction
<1>3. g = [s \in SUBSET S |-> g[s]] /\ h = [s \in SUBSET S |-> h[s]]
  BY DEF IsFold
<1>4. QED
  BY <1>2, <1>3

\* A fold over a set is one over its subsets.
LEMMA FoldRestricts ==
    ASSUME NEW S, NEW step, NEW pick, NEW base, Picks(pick, S),
           NEW g, IsFold(step, pick, base, S, g), NEW T \in SUBSET S,
           NEW h, h = [s \in SUBSET T |-> g[s]]
    PROVE  IsFold(step, pick, base, T, h)
<1>1. ASSUME NEW s \in SUBSET T
      PROVE  h[s] = IF s = {} THEN base ELSE step[<<pick[s], h[s \ {pick[s]}]>>]
  <2>1. s \in SUBSET S /\ s \ {pick[s]} \in SUBSET T
    OBVIOUS
  <2>2. g[s] = IF s = {} THEN base ELSE step[<<pick[s], g[s \ {pick[s]}]>>]
    BY <2>1 DEF IsFold
  <2>3. QED
    BY <2>1, <2>2
<1>2. QED
  BY <1>1 DEF IsFold

\* What a fold over a set makes of the set.
FoldOf(step, pick, base, S) == (CHOOSE g : IsFold(step, pick, base, S, g))[S]

\* If every proper subset has its fold, their values satisfy the equation.
LEMMA FoldOfBelow ==
    ASSUME NEW S, IsFiniteSet(S), NEW step, NEW pick, NEW base, Picks(pick, S), S # {},
           \E g : IsFold(step, pick, base, S, g),
           \E g : IsFold(step, pick, base, S \ {pick[S]}, g)
    PROVE  FoldOf(step, pick, base, S) =
               step[<<pick[S], FoldOf(step, pick, base, S \ {pick[S]})>>]
<1> DEFINE T == S \ {pick[S]}
           g == CHOOSE f : IsFold(step, pick, base, S, f)
           h == CHOOSE f : IsFold(step, pick, base, T, f)
           r == [s \in SUBSET T |-> g[s]]
<1>1. IsFold(step, pick, base, S, g) /\ IsFold(step, pick, base, T, h)
  OBVIOUS
<1>2. T \in SUBSET S /\ IsFiniteSet(T) /\ Picks(pick, T)
  BY FS_Subset DEF Picks
<1>3. IsFold(step, pick, base, T, r)
  <2> HIDE DEF g, h, T
  <2>1. IsFold(step, pick, base, S, g) /\ T \in SUBSET S
    BY <1>1, <1>2
  <2>2. r = [s \in SUBSET T |-> g[s]]
    OBVIOUS
  <2> HIDE DEF r
  <2>3. QED
    BY <2>1, <2>2, FoldRestricts
<1>4. r = h
  <2> HIDE DEF g, h, T, r
  <2>1. QED
    BY <1>1, <1>2, <1>3, FoldUnique
<1>5. g[T] = h[T]
  BY <1>4
<1>6. g[S] = step[<<pick[S], g[T]>>]
  <2> HIDE DEF g
  <2>1. QED
    BY <1>1 DEF IsFold
<1>7. QED
  BY <1>5, <1>6 DEF FoldOf

\* A finite set has a fold.
LEMMA FoldExists ==
    ASSUME NEW S, IsFiniteSet(S), NEW step, NEW pick, NEW base, Picks(pick, S)
    PROVE  \E g : IsFold(step, pick, base, S, g)
<1> DEFINE G == {s \in SUBSET S : \E g : IsFold(step, pick, base, s, g)}
           F(s) == FoldOf(step, pick, base, s)
<1>1. ASSUME NEW s \in SUBSET S, \A t \in SUBSET s : t # s => t \in G
      PROVE  s \in G
  <2> DEFINE h == [t \in SUBSET s |-> IF t = {} THEN base ELSE step[<<pick[t], F(t \ {pick[t]})>>]]
  <2>1. ASSUME NEW u \in SUBSET s, u # s PROVE h[u] = F(u)
    <3>1. u \in G /\ IsFiniteSet(u) /\ Picks(pick, u) /\ u \in SUBSET S
      BY <1>1, <2>1, FS_Subset DEF Picks
    <3>2. CASE u = {}
      <4>1. PICK g : g = CHOOSE f : IsFold(step, pick, base, u, f)
        OBVIOUS
      <4>2. IsFold(step, pick, base, u, g)
        BY <3>1, <4>1
      <4>3. g[u] = base
        BY <3>2, <4>2 DEF IsFold
      <4>4. QED
        BY <3>2, <4>1, <4>3 DEF FoldOf
    <3>3. CASE u # {}
      <4>1. pick[u] \in u
        BY <3>1, <3>3 DEF Picks
      <4>2. u \ {pick[u]} \in SUBSET s /\ u \ {pick[u]} # s
        BY <2>1, <4>1
      <4>3. u \ {pick[u]} \in G
        BY <1>1, <4>2
      <4>4. F(u) = step[<<pick[u], F(u \ {pick[u]})>>]
        BY <3>1, <3>3, <4>3, FoldOfBelow
      <4>5. QED
        BY <3>3, <4>4
    <3>4. QED
      BY <3>2, <3>3
  <2>2. ASSUME NEW t \in SUBSET s
        PROVE  h[t] = IF t = {} THEN base ELSE step[<<pick[t], h[t \ {pick[t]}]>>]
    <3>1. CASE t = {}
      BY <3>1
    <3>2. CASE t # {}
      <4>1. pick[t] \in t
        BY <3>2 DEF Picks
      <4>2. t \ {pick[t]} \in SUBSET s /\ t \ {pick[t]} # s
        BY <4>1
      <4>3. h[t \ {pick[t]}] = F(t \ {pick[t]})
        BY <2>1, <4>2
      <4>4. QED
        BY <3>2, <4>3
    <3>3. QED
      BY <3>1, <3>2
  <2>3. IsFold(step, pick, base, s, h)
    BY <2>2 DEF IsFold
  <2>4. QED
    BY <2>3
<1>2. G = SUBSET S
  <2> HIDE DEF G
  <2>1. G \in SUBSET (SUBSET S)
    BY DEF G
  <2>2. QED
    BY <1>1, <2>1, SubsetInduction
<1>3. QED
  BY <1>2

\* The equation of a fold.
LEMMA FoldEmpty ==
    ASSUME NEW S, S = {}, NEW step, NEW pick, NEW base, Picks(pick, S)
    PROVE  FoldOf(step, pick, base, S) = base
<1>1. PICK g : g = CHOOSE f : IsFold(step, pick, base, S, f)
  OBVIOUS
<1>2. IsFold(step, pick, base, S, g)
  BY <1>1, FoldExists, FS_EmptySet
<1>3. g[S] = base
  BY <1>2 DEF IsFold
<1>4. QED
  BY <1>1, <1>3 DEF FoldOf

\* A fold is one step: the element picked, put together with the fold of the others.
LEMMA FoldUnfold ==
    ASSUME NEW S, IsFiniteSet(S), NEW step, NEW pick, NEW base, Picks(pick, S), S # {}
    PROVE  FoldOf(step, pick, base, S) =
               step[<<pick[S], FoldOf(step, pick, base, S \ {pick[S]})>>]
<1>1. IsFiniteSet(S \ {pick[S]}) /\ Picks(pick, S \ {pick[S]})
  BY FS_Subset DEF Picks
<1>2. /\ \E g : IsFold(step, pick, base, S, g)
      /\ \E g : IsFold(step, pick, base, S \ {pick[S]}, g)
  BY <1>1, FoldExists
<1>3. QED
  BY <1>2, FoldOfBelow

\* A finite set of integers that is not empty has a greatest element.
LEMMA MaxIsIn ==
    ASSUME NEW S, \A x \in S : x \in Int, IsFiniteSet(S), S # {}
    PROVE  Max(S) \in S /\ \A y \in S : Max(S) >= y
<1> DEFINE Above(x) == {y \in S : y > x}
           B == {Above(x) : x \in S}
<1>0. B \in SUBSET (SUBSET S)
  OBVIOUS
<1>1. B # {}
  OBVIOUS
<1>2. PICK s \in B : \A t \in B : ~(t \subseteq s /\ t # s)
  <2> HIDE DEF B, Above
  <2>1. QED
    BY <1>0, <1>1, MinimalSet
<1>3. PICK x \in S : s = Above(x)
  BY <1>2
<1>4. \A y \in S : ~(y > x)
  <2>1. SUFFICES ASSUME NEW y \in S, y > x PROVE FALSE
    OBVIOUS
  <2>2. Above(y) \in B
    OBVIOUS
  <2>3. Above(y) \subseteq Above(x)
    <3>1. ASSUME NEW z \in S, z > y PROVE z > x
      <4>1. x \in Int /\ y \in Int /\ z \in Int
        OBVIOUS
      <4>2. QED
        BY <2>1, <3>1, <4>1
    <3>2. QED
      BY <3>1
  <2>4. y \in Above(x) /\ y \notin Above(y)
    BY <2>1
  <2>5. QED
    BY <1>2, <1>3, <2>2, <2>3, <2>4
<1>5. \A y \in S : x >= y
  BY <1>4
<1>6. QED
  BY <1>5 DEF Max

\* The last position of a sequence, and the positions before it.
LEMMA MaxOfInterval ==
    ASSUME NEW n \in Nat, n # 0
    PROVE  Max(1 .. n) = n /\ (1 .. n) \ {n} = 1 .. (n - 1)
<1>1. IsFiniteSet(1 .. n) /\ n \in 1 .. n /\ \A x \in 1 .. n : x \in Int
  BY FS_Interval
<1>2. Max(1 .. n) \in 1 .. n /\ Max(1 .. n) >= n
  BY <1>1, MaxIsIn
<1>3. QED
  BY <1>2

\* Induction up to a number.
LEMMA IntervalInduction ==
    ASSUME NEW n \in Nat, NEW G, 0 \in G, \A i \in 0 .. (n - 1) : i \in G => i + 1 \in G
    PROVE  \A i \in 0 .. n : i \in G
<1> DEFINE H == {s \in SUBSET (1 .. n) : \A i \in 0 .. n : s = 1 .. i => i \in G}
<1>1. ASSUME NEW s \in SUBSET (1 .. n), \A t \in SUBSET s : t # s => t \in H
      PROVE  s \in H
  <2> SUFFICES ASSUME NEW i \in 0 .. n, s = 1 .. i PROVE i \in G
    OBVIOUS
  <2>1. CASE i = 0
    BY <2>1
  <2>2. CASE i # 0
    <3>1. i - 1 \in 0 .. (n - 1) /\ i - 1 \in 0 .. n
      BY <2>2
    <3>2. 1 .. (i - 1) \in SUBSET s /\ i \in s /\ i \notin 1 .. (i - 1)
      BY <2>2
    <3>3. 1 .. (i - 1) \in H
      <4> HIDE DEF H
      <4>1. QED
        BY <1>1, <3>2
    <3>4. i - 1 \in G
      BY <3>1, <3>3
    <3>5. (i - 1) + 1 \in G
      BY <3>1, <3>4
    <3>6. QED
      BY <3>5
  <2>3. QED
    BY <2>1, <2>2
<1>2. H = SUBSET (1 .. n)
  <2> HIDE DEF H
  <2>1. H \in SUBSET (SUBSET (1 .. n))
    BY DEF H
  <2>2. IsFiniteSet(1 .. n)
    BY FS_Interval
  <2>3. PICK C : C = 1 .. n
    OBVIOUS
  <2>4. QED
    BY <1>1, <2>1, <2>2, <2>3, SubsetInduction
<1>3. ASSUME NEW i \in 0 .. n PROVE i \in G
  <2>0. 1 .. i \in SUBSET (1 .. n)
    OBVIOUS
  <2>1. 1 .. i \in H
    <3> HIDE DEF H
    <3>1. QED
      BY <1>2, <2>0
  <2>2. QED
    BY <2>1
<1>4. QED
  BY <1>3

\* The values of a fold stay where its steps stay.
LEMMA FoldTyped ==
    ASSUME NEW S, IsFiniteSet(S), NEW step, NEW pick, NEW base, Picks(pick, S),
           NEW g, IsFold(step, pick, base, S, g), NEW Val, base \in Val,
           \A x \in S, v \in Val : step[<<x, v>>] \in Val
    PROVE  \A s \in SUBSET S : g[s] \in Val
<1> DEFINE G == {s \in SUBSET S : g[s] \in Val}
<1>1. ASSUME NEW s \in SUBSET S, \A t \in SUBSET s : t # s => t \in G
      PROVE  s \in G
  <2>1. CASE s = {}
    BY <2>1 DEF IsFold
  <2>2. CASE s # {}
    <3>1. pick[s] \in s
      BY <2>2 DEF Picks
    <3>2. g[s \ {pick[s]}] \in Val
      BY <1>1, <3>1
    <3>3. g[s] = step[<<pick[s], g[s \ {pick[s]}]>>]
      BY <2>2 DEF IsFold
    <3>4. QED
      BY <3>1, <3>2, <3>3
  <2>3. QED
    BY <2>1, <2>2
<1>2. G = SUBSET S
  <2> HIDE DEF G
  <2>1. G \in SUBSET (SUBSET S)
    BY DEF G
  <2>2. QED
    BY <1>1, <2>1, SubsetInduction
<1>3. QED
  BY <1>2

\* From the right end of a sequence.
LastOf(C) == [s \in SUBSET C |-> Max(s)]

\* The last position of some positions is one of them.
LEMMA LastPicks == ASSUME NEW n \in Nat PROVE Picks(LastOf(1 .. n), 1 .. n)
<1>1. ASSUME NEW s \in SUBSET (1 .. n), s # {} PROVE Max(s) \in s
  <2>0. IsFiniteSet(1 .. n)
    BY FS_Interval
  <2>1. IsFiniteSet(s)
    BY <2>0, FS_Subset
  <2>2. \A x \in s : x \in Int
    OBVIOUS
  <2>3. QED
    BY <1>1, <2>1, <2>2, MaxIsIn
<1>2. QED
  BY <1>1 DEF Picks, LastOf

-----------------------------------------------------------------------------
(* Sums.                                                                   *)

IsSum(w, S, g) ==
    g = [s \in SUBSET S |-> IF s = {} THEN 0
                            ELSE w[CHOOSE x \in s : TRUE] + g[s \ {CHOOSE x \in s : TRUE}]]

\* A sum over a set, by its definition in the library.
LEMMA SumIsSum ==
    ASSUME NEW w, NEW S PROVE SumFunctionOnSet(w, S) = (CHOOSE g : IsSum(w, S, g))[S]
BY DEF SumFunctionOnSet, FoldFunctionOnSet, MapThenFoldSet, IsSum

Adding(w, C) == [p \in C \X Int |-> w[p[1]] + p[2]]
AnyOf(C) == [s \in SUBSET C |-> CHOOSE x \in s : TRUE]

\* An arbitrary element of a set is one of its elements.
LEMMA AnyPicks == ASSUME NEW C, NEW S \in SUBSET C PROVE Picks(AnyOf(C), S)
BY DEF Picks, AnyOf

\* What is an integer for the empty set, and for a set if it is for one of its parts, is.
LEMMA IntValued ==
    ASSUME NEW S, IsFiniteSet(S), NEW pick, Picks(pick, S), NEW g, g[{}] \in Int,
           \A s \in SUBSET S : s # {} /\ g[s \ {pick[s]}] \in Int => g[s] \in Int
    PROVE  \A s \in SUBSET S : g[s] \in Int
<1> DEFINE G == {s \in SUBSET S : g[s] \in Int}
<1>1. ASSUME NEW s \in SUBSET S, \A t \in SUBSET s : t # s => t \in G
      PROVE  s \in G
  BY <1>1 DEF Picks
<1>2. G = SUBSET S
  <2> HIDE DEF G
  <2>1. G \in SUBSET (SUBSET S)
    BY DEF G
  <2>2. QED
    BY <1>1, <2>1, SubsetInduction
<1>3. QED
  BY <1>2

\* Sums are folds.
LEMMA SumIsFold ==
    ASSUME NEW C, NEW w \in [C -> Int], NEW S \in SUBSET C, IsFiniteSet(S)
    PROVE  /\ SumFunctionOnSet(w, S) = FoldOf(Adding(w, C), AnyOf(C), 0, S)
           /\ SumFunctionOnSet(w, S) \in Int
<1> DEFINE step == Adding(w, C)
           pick == AnyOf(C)
<1>0. Picks(pick, S)
  BY AnyPicks
<1>1. ASSUME NEW s \in SUBSET S, s # {}
      PROVE  /\ pick[s] = CHOOSE x \in s : TRUE
             /\ pick[s] \in C /\ w[pick[s]] \in Int
             /\ \A n \in Int : step[<<pick[s], n>>] = w[pick[s]] + n
  <2>1. pick[s] = CHOOSE x \in s : TRUE
    BY DEF AnyOf
  <2>2. pick[s] \in C /\ w[pick[s]] \in Int
    BY <1>0, <1>1 DEF Picks
  <2>3. \A n \in Int : step[<<pick[s], n>>] = w[pick[s]] + n
    <3> HIDE DEF pick
    <3>1. QED
      BY <2>2 DEF Adding
  <2>4. QED
    BY <2>1, <2>2, <2>3
<1> HIDE DEF step, pick
<1>2. ASSUME NEW g, IsFold(step, pick, 0, S, g)
      PROVE  IsSum(w, S, g) /\ g[S] \in Int
  <2>1. /\ g[{}] = 0
        /\ \A s \in SUBSET S : s # {} => g[s] = step[<<pick[s], g[s \ {pick[s]}]>>]
    BY <1>2 DEF IsFold
  <2>2. ASSUME NEW s \in SUBSET S, s # {}, g[s \ {pick[s]}] \in Int
        PROVE  g[s] \in Int
    <3>1. g[s] = w[pick[s]] + g[s \ {pick[s]}] /\ w[pick[s]] \in Int
      BY <1>1, <2>1, <2>2
    <3>2. QED
      BY <2>2, <3>1
  <2>0. g[{}] \in Int
    BY <2>1
  <2>3. \A s \in SUBSET S : g[s] \in Int
    BY <1>0, <2>0, <2>2, IntValued
  <2>4. ASSUME NEW s \in SUBSET S, s # {}
        PROVE  g[s] = w[CHOOSE x \in s : TRUE] + g[s \ {CHOOSE x \in s : TRUE}]
    BY <1>1, <2>1, <2>3, <2>4
  <2>5. g = [s \in SUBSET S |-> g[s]]
    BY <1>2 DEF IsFold
  <2>6. QED
    BY <2>1, <2>3, <2>4, <2>5 DEF IsSum
<1>3. ASSUME NEW g, IsSum(w, S, g)
      PROVE  IsFold(step, pick, 0, S, g)
  <2>1. /\ g[{}] = 0
        /\ \A s \in SUBSET S : s # {} => g[s] = w[pick[s]] + g[s \ {pick[s]}]
    <3>1. g[{}] = 0
      BY <1>3 DEF IsSum
    <3>2. ASSUME NEW s \in SUBSET S, s # {}
          PROVE  g[s] = w[pick[s]] + g[s \ {pick[s]}]
      <4>1. g[s] = w[CHOOSE x \in s : TRUE] + g[s \ {CHOOSE x \in s : TRUE}]
        BY <1>3, <3>2 DEF IsSum
      <4>2. pick[s] = CHOOSE x \in s : TRUE
        BY <1>1, <3>2
      <4>3. QED
        BY <4>1, <4>2
    <3>3. QED
      BY <3>1, <3>2
  <2>2. ASSUME NEW s \in SUBSET S, s # {}, g[s \ {pick[s]}] \in Int
        PROVE  g[s] \in Int
    <3>1. g[s] = w[pick[s]] + g[s \ {pick[s]}] /\ w[pick[s]] \in Int
      BY <1>1, <2>1, <2>2
    <3>2. QED
      BY <2>2, <3>1
  <2>0. g[{}] \in Int
    BY <2>1
  <2>3. \A s \in SUBSET S : g[s] \in Int
    BY <1>0, <2>0, <2>2, IntValued
  <2>4. \A s \in SUBSET S : s # {} => g[s] = step[<<pick[s], g[s \ {pick[s]}]>>]
    BY <1>1, <2>1, <2>3
  <2>5. g = [s \in SUBSET S |-> g[s]]
    BY <1>3 DEF IsSum
  <2>6. QED
    BY <2>1, <2>4, <2>5 DEF IsFold
<1>4. PICK f : f = CHOOSE g : IsFold(step, pick, 0, S, g)
  OBVIOUS
<1>5. PICK h : h = CHOOSE g : IsSum(w, S, g)
  OBVIOUS
<1>6. IsFold(step, pick, 0, S, f)
  BY <1>0, <1>4, FoldExists
<1>7. IsSum(w, S, h)
  BY <1>2, <1>5, <1>6
<1>8. f = h
  BY <1>0, <1>3, <1>6, <1>7, FoldUnique
<1>9. QED
  BY <1>2, <1>4, <1>5, <1>6, <1>8, SumIsSum DEF FoldOf, step, pick

\* Nothing sums up to 0.
LEMMA SumEmpty == ASSUME NEW C, NEW w \in [C -> Int] PROVE SumFunctionOnSet(w, {}) = 0
<1>1. PICK S : S = {}
  OBVIOUS
<1>2. S \in SUBSET C /\ IsFiniteSet(S)
  BY <1>1, FS_EmptySet
<1>3. SumFunctionOnSet(w, S) = FoldOf(Adding(w, C), AnyOf(C), 0, S)
  BY <1>2, SumIsFold
<1>4. Picks(AnyOf(C), S)
  BY <1>2, AnyPicks
<1>5. FoldOf(Adding(w, C), AnyOf(C), 0, S) = 0
  BY <1>1, <1>4, FoldEmpty
<1>6. QED
  BY <1>1, <1>3, <1>5

\* A sum is that of some element and the others.
LEMMA SumPicks ==
    ASSUME NEW C, NEW w \in [C -> Int], NEW S \in SUBSET C, IsFiniteSet(S), S # {}
    PROVE  \E x \in S : SumFunctionOnSet(w, S) = w[x] + SumFunctionOnSet(w, S \ {x})
<1> DEFINE x == AnyOf(C)[S]
           T == S \ {x}
<1>1. Picks(AnyOf(C), S)
  BY AnyPicks
<1>2. x \in S
  BY <1>1 DEF Picks
<1>3. T \in SUBSET C /\ IsFiniteSet(T)
  BY FS_Subset
<1>4. FoldOf(Adding(w, C), AnyOf(C), 0, S) = Adding(w, C)[<<x, FoldOf(Adding(w, C), AnyOf(C), 0, T)>>]
  BY <1>1, FoldUnfold
<1>5. /\ SumFunctionOnSet(w, S) = FoldOf(Adding(w, C), AnyOf(C), 0, S)
      /\ SumFunctionOnSet(w, T) = FoldOf(Adding(w, C), AnyOf(C), 0, T)
      /\ SumFunctionOnSet(w, T) \in Int
  <2> HIDE DEF T, x
  <2>1. QED
    BY <1>3, SumIsFold
<1>6. x \in C
  BY <1>2
<1>7. SumFunctionOnSet(w, S) = w[x] + SumFunctionOnSet(w, T)
  <2> HIDE DEF T, x
  <2>1. SumFunctionOnSet(w, S) = Adding(w, C)[<<x, SumFunctionOnSet(w, T)>>]
    BY <1>4, <1>5
  <2>2. QED
    BY <1>5, <1>6, <2>1 DEF Adding
<1>8. QED
  BY <1>2, <1>7

\* A sum of integers is an integer.
LEMMA SumInt ==
    ASSUME NEW C, NEW w \in [C -> Int], NEW S \in SUBSET C, IsFiniteSet(S)
    PROVE  SumFunctionOnSet(w, S) \in Int
BY SumIsFold

\* A sum is that of one element, whichever, and the others.
LEMMA SumRemove ==
    ASSUME NEW C, NEW w \in [C -> Int], NEW S \in SUBSET C, IsFiniteSet(S), NEW x \in S
    PROVE  SumFunctionOnSet(w, S) = w[x] + SumFunctionOnSet(w, S \ {x})
<1> DEFINE F(s) == SumFunctionOnSet(w, s)
           G == {s \in SUBSET S : \A y \in s : F(s) = w[y] + F(s \ {y})}
<1>0. \A s \in SUBSET S : IsFiniteSet(s) /\ s \in SUBSET C /\ F(s) \in Int
  BY FS_Subset, SumInt
<1>1. ASSUME NEW s \in SUBSET S, \A t \in SUBSET s : t # s => t \in G
      PROVE  s \in G
  <2> SUFFICES ASSUME NEW y \in s PROVE F(s) = w[y] + F(s \ {y})
    OBVIOUS
  <2>1. PICK z \in s : F(s) = w[z] + F(s \ {z})
    BY <1>0, SumPicks
  <2>2. CASE z = y
    BY <2>1, <2>2
  <2>3. CASE z # y
    <3> DEFINE u == (s \ {z}) \ {y}
    <3>1. F(s \ {z}) = w[y] + F(u)
      BY <1>1, <2>3
    <3>2. s \ {y} \in SUBSET s /\ s \ {y} # s /\ z \in s \ {y}
      BY <2>3
    <3>3. F(s \ {y}) = w[z] + F((s \ {y}) \ {z})
      BY <1>1, <3>2
    <3>4. (s \ {y}) \ {z} = u
      OBVIOUS
    <3>5. w[y] \in Int /\ w[z] \in Int /\ F(u) \in Int
      BY <1>0
    <3> HIDE DEF u, F, G
    <3>6. F(s \ {y}) = w[z] + F(u)
      BY <3>3, <3>4
    <3>7. F(s) = w[z] + (w[y] + F(u))
      BY <2>1, <3>1
    <3>8. w[z] + (w[y] + F(u)) = w[y] + (w[z] + F(u))
      BY <3>5
    <3>9. QED
      BY <3>6, <3>7, <3>8
  <2>4. QED
    BY <2>2, <2>3
<1>2. G = SUBSET S
  <2> HIDE DEF G
  <2>1. G \in SUBSET (SUBSET S)
    BY DEF G
  <2>2. QED
    BY <1>1, <2>1, SubsetInduction
<1>3. S \in G
  BY <1>2
<1>4. QED
  BY <1>3

\* The sum of one.
LEMMA SumSingle ==
    ASSUME NEW C, NEW w \in [C -> Int], NEW x \in C
    PROVE  SumFunctionOnSet(w, {x}) = w[x]
<1>1. PICK S : S = {x}
  OBVIOUS
<1>2. S \in SUBSET C /\ IsFiniteSet(S) /\ x \in S
  BY <1>1, FS_Singleton
<1>3. SumFunctionOnSet(w, S) = w[x] + SumFunctionOnSet(w, S \ {x})
  BY <1>2, SumRemove
<1>4. SumFunctionOnSet(w, S \ {x}) = 0
  <2>1. S \ {x} = {}
    BY <1>1
  <2>2. QED
    BY <2>1, SumEmpty
<1>5. w[x] \in Int
  OBVIOUS
<1>6. QED
  BY <1>1, <1>3, <1>4, <1>5

\* Sums of what is equal are equal.
LEMMA SumSame ==
    ASSUME NEW C, NEW w \in [C -> Int], NEW v \in [C -> Int], NEW S \in SUBSET C, IsFiniteSet(S),
           \A x \in S : w[x] = v[x]
    PROVE  SumFunctionOnSet(w, S) = SumFunctionOnSet(v, S)
<1> DEFINE G == {s \in SUBSET S : SumFunctionOnSet(w, s) = SumFunctionOnSet(v, s)}
<1>1. ASSUME NEW s \in SUBSET S, \A t \in SUBSET s : t # s => t \in G
      PROVE  s \in G
  <2>1. CASE s = {}
    BY <2>1, SumEmpty
  <2>2. CASE s # {}
    <3>1. PICK x \in s : TRUE
      BY <2>2
    <3>2. IsFiniteSet(s) /\ s \in SUBSET C
      BY FS_Subset
    <3>3. /\ SumFunctionOnSet(w, s) = w[x] + SumFunctionOnSet(w, s \ {x})
          /\ SumFunctionOnSet(v, s) = v[x] + SumFunctionOnSet(v, s \ {x})
      BY <3>2, SumRemove
    <3>4. s \ {x} \in G
      BY <1>1, <3>1
    <3>5. QED
      BY <3>3, <3>4
  <2>3. QED
    BY <2>1, <2>2
<1>2. G = SUBSET S
  <2> HIDE DEF G
  <2>1. G \in SUBSET (SUBSET S)
    BY DEF G
  <2>2. QED
    BY <1>1, <2>1, SubsetInduction
<1>3. QED
  BY <1>2

\* A sum when one of its terms changes.
LEMMA SumChange ==
    ASSUME NEW C, NEW w \in [C -> Int], NEW v \in [C -> Int], NEW S \in SUBSET C, IsFiniteSet(S),
           NEW x \in C, \A y \in S \ {x} : w[y] = v[y]
    PROVE  SumFunctionOnSet(v, S) =
               IF x \in S THEN SumFunctionOnSet(w, S) - w[x] + v[x] ELSE SumFunctionOnSet(w, S)
<1>1. S \ {x} \in SUBSET C /\ IsFiniteSet(S \ {x})
  BY FS_Subset
<1>2. SumFunctionOnSet(v, S \ {x}) = SumFunctionOnSet(w, S \ {x})
  BY <1>1, SumSame
<1>3. SumFunctionOnSet(w, S \ {x}) \in Int /\ w[x] \in Int /\ v[x] \in Int
  BY <1>1, SumInt
<1>4. CASE x \in S
  <2>1. /\ SumFunctionOnSet(w, S) = w[x] + SumFunctionOnSet(w, S \ {x})
        /\ SumFunctionOnSet(v, S) = v[x] + SumFunctionOnSet(v, S \ {x})
    BY <1>4, SumRemove
  <2>2. QED
    BY <1>2, <1>3, <1>4, <2>1
<1>5. CASE x \notin S
  BY <1>5, SumSame
<1>6. QED
  BY <1>4, <1>5

\* A sum of naturals is at least that over a part.
LEMMA SumPart ==
    ASSUME NEW C, NEW w \in [C -> Nat], NEW S \in SUBSET C, IsFiniteSet(S), NEW T \in SUBSET S
    PROVE  SumFunctionOnSet(w, T) <= SumFunctionOnSet(w, S) /\ 0 <= SumFunctionOnSet(w, S)
<1>0. w \in [C -> Int]
  OBVIOUS
<1> DEFINE F(s) == SumFunctionOnSet(w, s)
           G == {s \in SUBSET S : 0 <= F(s) /\ \A t \in SUBSET s : F(t) <= F(s)}
<1>1. ASSUME NEW s \in SUBSET S, \A t \in SUBSET s : t # s => t \in G
      PROVE  s \in G
  <2>0. IsFiniteSet(s) /\ s \in SUBSET C /\ F(s) \in Int
    BY <1>0, FS_Subset, SumInt
  <2>1. CASE s = {}
    BY <1>0, <2>0, <2>1, SumEmpty
  <2>2. CASE s # {}
    <3>1. ASSUME NEW t \in SUBSET s PROVE F(t) <= F(s)
      <4>1. CASE t = s
        BY <2>0, <4>1
      <4>2. CASE t # s
        <5>1. PICK x \in s : x \notin t
          BY <4>2
        <5>2. F(s) = w[x] + F(s \ {x})
          BY <1>0, <2>0, SumRemove
        <5>3. F(t) <= F(s \ {x})
          <6>1. s \ {x} \in G /\ t \in SUBSET (s \ {x})
            BY <1>1, <5>1
          <6>2. QED
            BY <6>1
        <5>4. w[x] \in Nat /\ F(s \ {x}) \in Int /\ F(t) \in Int
          <6>1. s \ {x} \in SUBSET C /\ IsFiniteSet(s \ {x}) /\ t \in SUBSET C /\ IsFiniteSet(t)
            BY <2>0, FS_Subset
          <6>2. QED
            BY <1>0, <2>0, <6>1, SumInt
        <5> HIDE DEF F
        <5>5. QED
          BY <5>2, <5>3, <5>4
      <4>3. QED
        BY <4>1, <4>2
    <3>2. {} \in G
      BY <1>1, <2>2
    <3>3. F({}) <= F(s) /\ 0 = F({})
      BY <1>0, <3>1, SumEmpty
    <3>4. QED
      BY <2>0, <3>1, <3>3
  <2>3. QED
    BY <2>1, <2>2
<1>2. G = SUBSET S
  <2> HIDE DEF G
  <2>1. G \in SUBSET (SUBSET S)
    BY DEF G
  <2>2. QED
    BY <1>1, <2>1, SubsetInduction
<1>3. S \in G
  BY <1>2
<1>4. QED
  BY <1>3

-----------------------------------------------------------------------------
(* Folds over lists.                                                       *)

\* Induction over the sets of positions of a list, from the last position.
LEMMA LastInduction ==
    ASSUME NEW n \in Nat, NEW G \in SUBSET (SUBSET (1 .. n)), {} \in G,
           \A s \in SUBSET (1 .. n) : s # {} /\ s \ {Max(s)} \in G => s \in G
    PROVE  \A s \in SUBSET (1 .. n) : s \in G
<1>1. ASSUME NEW s \in SUBSET (1 .. n), \A t \in SUBSET s : t # s => t \in G PROVE s \in G
  <2>1. CASE s = {}
    BY <2>1
  <2>2. CASE s # {}
    <3>1. Max(s) \in s
      BY <2>2, LastPicks DEF Picks, LastOf
    <3>2. s \ {Max(s)} \in SUBSET s /\ s \ {Max(s)} # s
      BY <3>1
    <3> QED
      BY <1>1, <2>2, <3>2
  <2> QED
    BY <2>1, <2>2
<1>2. IsFiniteSet(1 .. n)
  BY FS_Interval
<1>3. PICK C : C = 1 .. n
  OBVIOUS
<1>4. G = SUBSET C
  BY <1>1, <1>2, <1>3, SubsetInduction
<1> QED
  BY <1>3, <1>4

\* The fold of a list of length n, whose values stay in Val.
IsListFold(step, base, Val, n, g) ==
    /\ g = [s \in SUBSET (1 .. n) |-> g[s]]
    /\ g[{}] = base
    /\ \A s \in SUBSET (1 .. n) :
          s # {} => /\ Max(s) \in 1 .. n /\ g[s \ {Max(s)}] \in Val
                    /\ g[s] = step[<<Max(s), g[s \ {Max(s)}]>>]

\* A list can be folded with any step that stays among some values.
LEMMA ListFold ==
    ASSUME NEW n \in Nat, NEW Val, NEW base \in Val, NEW step,
           \A x \in 1 .. n, v \in Val : step[<<x, v>>] \in Val
    PROVE  \E g : IsListFold(step, base, Val, n, g)
<1>1. PICK D : D = 1 .. n
  OBVIOUS
<1>2. IsFiniteSet(D) /\ Picks(LastOf(D), D)
  BY <1>1, FS_Interval, LastPicks
<1>3. PICK g : IsFold(step, LastOf(D), base, D, g)
  BY <1>2, FoldExists
<1>4. \A s \in SUBSET D : g[s] \in Val
  BY <1>1, <1>2, <1>3, FoldTyped
<1>5. g = [s \in SUBSET D |-> g[s]]
  BY <1>3 DEF IsFold
<1>6. g[{}] = base
  BY <1>3 DEF IsFold
<1>7. ASSUME NEW s \in SUBSET D, s # {}
      PROVE  /\ Max(s) \in D /\ g[s \ {Max(s)}] \in Val
             /\ g[s] = step[<<Max(s), g[s \ {Max(s)}]>>]
  <2>1. LastOf(D)[s] = Max(s) /\ Max(s) \in s
    BY <1>2, <1>7 DEF Picks, LastOf
  <2>2. g[s] = step[<<Max(s), g[s \ {Max(s)}]>>]
    BY <1>3, <1>7, <2>1 DEF IsFold
  <2> QED
    BY <1>4, <2>1, <2>2
<1>8. IsListFold(step, base, Val, n, g)
  BY <1>1, <1>5, <1>6, <1>7 DEF IsListFold
<1> QED
  BY <1>8

\* The first of some positions is one of them.
LEMMA MinIsIn ==
    ASSUME NEW n \in Nat, NEW I \in SUBSET (1 .. n), I # {} PROVE Min(I) \in I
<1> DEFINE J == {x \in 1 .. n : n + 1 - x \in I}
<1>1. PICK i \in I : TRUE
  OBVIOUS
<1>2. n + 1 - i \in J
  <2>1. i \in 1 .. n /\ n + 1 - (n + 1 - i) = i /\ n + 1 - i \in 1 .. n
    OBVIOUS
  <2> QED
    BY <2>1
<1>3. IsFiniteSet(1 .. n) /\ J \in SUBSET (1 .. n)
  BY FS_Interval
<1>4. IsFiniteSet(J) /\ \A x \in J : x \in Int
  BY <1>3, FS_Subset
<1>5. PICK m \in J : \A y \in J : m >= y
  <2> HIDE DEF J
  <2> QED
    BY <1>2, <1>4, MaxIsIn
<1>6. ASSUME NEW y \in I PROVE n + 1 - m <= y
  <2>1. y \in 1 .. n /\ n + 1 - (n + 1 - y) = y /\ n + 1 - y \in 1 .. n
    OBVIOUS
  <2>2. n + 1 - y \in J
    BY <2>1
  <2>3. m >= n + 1 - y /\ m \in Int
    BY <1>4, <1>5, <2>2
  <2> QED
    BY <2>1, <2>3
<1>7. n + 1 - m \in I
  BY <1>5
<1> QED
  BY <1>6, <1>7 DEF Min

\* The last of some positions.
LEMMA LastIsIn ==
    ASSUME NEW n \in Nat, NEW s \in SUBSET (1 .. n), s # {}
    PROVE  Max(s) \in s /\ \A x \in s : Max(s) >= x
<1>1. IsFiniteSet(1 .. n)
  BY FS_Interval
<1>2. IsFiniteSet(s)
  BY <1>1, FS_Subset
<1>3. \A x \in s : x \in Int
  OBVIOUS
<1>4. \A S : (\A x \in S : x \in Int) /\ IsFiniteSet(S) /\ S # {}
             => Max(S) \in S /\ \A y \in S : Max(S) >= y
  BY MaxIsIn
<1> QED
  BY <1>2, <1>3, <1>4
=============================================================================

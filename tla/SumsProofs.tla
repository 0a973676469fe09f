----------------------------- MODULE SumsProofs -----------------------------
(***************************************************************************)
(* What a sum over a finite set comes to, whatever the order its elements  *)
(* are taken in.                                                           *)
(*                                                                         *)
(* The sum is a recursive function on the subsets of the set, which is     *)
(* only known to exist once the sums of all smaller sets do.  Each lemma   *)
(* is an induction over the subsets of a finite set in the form of a       *)
(* smallest counterexample.                                                *)
(***************************************************************************)
EXTENDS Sums, FiniteSetTheorems, WellFoundedInduction, TLAPS

\* The element a sum takes first.
Pick(s) == CHOOSE x \in s : TRUE

\* The function a sum is read from.
IsIter(g, f, X) ==
  g = [s \in SUBSET X |-> IF s = {} THEN 0 ELSE f[Pick(s)] + g[s \ {Pick(s)}]]

Iter(f, X) == CHOOSE g : IsIter(g, f, X)

LEMMA SumIsIter ==
  ASSUME NEW f, NEW X
  PROVE  SumOver(f, X) = Iter(f, X)[X]
BY Zenon DEF SumOver, MapThenSumSet, MapThenFoldSet, Pick, Iter, IsIter

\* A set of subsets of a finite set that is not empty has a smallest member.
LEMMA SmallestCounterexample ==
  ASSUME NEW S, IsFiniteSet(S), NEW Bad, Bad \subseteq SUBSET S, Bad # {}
  PROVE  \E T \in Bad : \A U \in Bad : ~ (U \subseteq T /\ U # T)
<1>1. IsWellFoundedOn(StrictSubsetOrdering(S), FiniteSubsetsOf(S)) /\ FiniteSubsetsOf(S) = SUBSET S
  BY FS_StrictSubsetOrderingWellFounded, FS_FiniteSubsetsOfFinite
<1>2. PICK T \in Bad : \A U \in Bad : <<U, T>> \notin StrictSubsetOrdering(S)
  BY <1>1, WFMin
<1> QED
  BY <1>2 DEF StrictSubsetOrdering

LEMMA PickIn == ASSUME NEW s, s # {} PROVE Pick(s) \in s
BY DEF Pick

LEMMA IterAt ==
  ASSUME NEW f, NEW X, NEW g, IsIter(g, f, X), NEW s \in SUBSET X
  PROVE  g[s] = IF s = {} THEN 0 ELSE f[Pick(s)] + g[s \ {Pick(s)}]
BY DEF IsIter

\* Two such functions agree wherever both are defined.
LEMMA IterAgree ==
  ASSUME NEW f, NEW X, NEW Y, NEW g, NEW h, IsIter(g, f, X), IsIter(h, f, Y),
         NEW s, s \subseteq X, s \subseteq Y, IsFiniteSet(s)
  PROVE  g[s] = h[s]
<1> DEFINE Bad == {t \in SUBSET s : g[t] # h[t]}
<1> SUFFICES ASSUME Bad # {} PROVE FALSE
  <2>1. s \in SUBSET s
    OBVIOUS
  <2> QED
    BY <2>1
<1>1. PICK t \in Bad : \A u \in Bad : ~ (u \subseteq t /\ u # t)
  <2>1. Bad \subseteq SUBSET s
    OBVIOUS
  <2> HIDE DEF Bad
  <2> QED
    BY <2>1, SmallestCounterexample
<1>2. t \in SUBSET X /\ t \in SUBSET Y /\ g[t] # h[t]
  BY <1>1
<1>3. /\ g[t] = IF t = {} THEN 0 ELSE f[Pick(t)] + g[t \ {Pick(t)}]
      /\ h[t] = IF t = {} THEN 0 ELSE f[Pick(t)] + h[t \ {Pick(t)}]
  BY <1>2, IterAt
<1>4. t # {}
  BY <1>2, <1>3
<1>5. Pick(t) \in t
  BY <1>4, PickIn
<1>6. t \ {Pick(t)} \in SUBSET s /\ t \ {Pick(t)} \notin Bad
  BY <1>1, <1>5
<1> QED
  BY <1>2, <1>3, <1>4, <1>6

\* There is one for every finite set.
LEMMA IterExists ==
  ASSUME NEW f, NEW X, IsFiniteSet(X)
  PROVE  IsIter(Iter(f, X), f, X)
<1> DEFINE Bad == {T \in SUBSET X : ~ \E g : IsIter(g, f, T)}
<1> SUFFICES ASSUME Bad # {} PROVE FALSE
  <2>1. X \notin Bad
    OBVIOUS
  <2>2. \E g : IsIter(g, f, X)
    BY <2>1
  <2> QED
    BY <2>2, Zenon DEF Iter
<1>1. PICK T \in Bad : \A U \in Bad : ~ (U \subseteq T /\ U # T)
  <2>1. Bad \subseteq SUBSET X
    OBVIOUS
  <2> HIDE DEF Bad
  <2> QED
    BY <2>1, SmallestCounterexample
<1>2. \A s \in SUBSET T : s # T => IsIter(Iter(f, s), f, s)
  <2> SUFFICES ASSUME NEW s \in SUBSET T, s # T PROVE IsIter(Iter(f, s), f, s)
    OBVIOUS
  <2>1. s \notin Bad /\ s \in SUBSET X
    BY <1>1
  <2>2. \E g : IsIter(g, f, s)
    BY <2>1
  <2> QED
    BY <2>2, Zenon DEF Iter
<1> DEFINE g == [s \in SUBSET T |->
                   IF s = {} THEN 0 ELSE f[Pick(s)] + Iter(f, s \ {Pick(s)})[s \ {Pick(s)}]]
<1>3. \A s \in SUBSET T : s # {} => g[s \ {Pick(s)}] = Iter(f, s \ {Pick(s)})[s \ {Pick(s)}]
  <2> SUFFICES ASSUME NEW s \in SUBSET T, s # {}
               PROVE  g[s \ {Pick(s)}] = Iter(f, s \ {Pick(s)})[s \ {Pick(s)}]
    OBVIOUS
  <2> DEFINE r == s \ {Pick(s)}
             q == r \ {Pick(r)}
  <2>0. r \in SUBSET T /\ r # T /\ IsFiniteSet(r)
    BY PickIn, FS_Subset
  <2>1. IsIter(Iter(f, r), f, r)
    BY <2>0, <1>2
  <2>2. Iter(f, r)[r] = IF r = {} THEN 0 ELSE f[Pick(r)] + Iter(f, r)[q]
    <3> HIDE DEF r
    <3>1. r \in SUBSET r
      OBVIOUS
    <3> QED
      BY <2>1, <3>1, IterAt
  <2>3. CASE r = {}
    BY <2>0, <2>2, <2>3
  <2>4. CASE r # {}
    <3>1. q \in SUBSET T /\ q # T /\ IsFiniteSet(q) /\ q \subseteq r
      BY <2>0, FS_Subset, PickIn
    <3>2. IsIter(Iter(f, q), f, q)
      BY <3>1, <1>2
    <3>3. Iter(f, r)[q] = Iter(f, q)[q]
      BY <2>1, <3>1, <3>2, IterAgree
    <3>4. g[r] = f[Pick(r)] + Iter(f, q)[q]
      BY <2>0, <2>4
    <3> QED
      BY <3>3, <3>4, <2>2, <2>4
  <2> QED
    BY <2>3, <2>4
<1>4. g = [s \in SUBSET T |-> IF s = {} THEN 0 ELSE f[Pick(s)] + g[s \ {Pick(s)}]]
  BY <1>3
<1>5. IsIter(g, f, T)
  BY <1>4 DEF IsIter
<1> QED
  BY <1>1, <1>5

LEMMA SumUnfolds ==
  ASSUME NEW f, NEW S, IsFiniteSet(S)
  PROVE  SumOver(f, S) = IF S = {} THEN 0 ELSE f[Pick(S)] + SumOver(f, S \ {Pick(S)})
<1> DEFINE r == S \ {Pick(S)}
<1>1. IsFiniteSet(r) /\ r \subseteq S
  BY FS_Subset
<1>2. IsIter(Iter(f, S), f, S) /\ IsIter(Iter(f, r), f, r)
  BY <1>1, IterExists
<1>3. Iter(f, S)[r] = Iter(f, r)[r]
  BY <1>1, <1>2, IterAgree
<1>4. Iter(f, S)[S] = IF S = {} THEN 0 ELSE f[Pick(S)] + Iter(f, S)[r]
  BY <1>2, IterAt
<1> QED
  BY <1>3, <1>4, SumIsIter

\* Nothing adds up to nothing.
LEMMA SumOfNone == ASSUME NEW f PROVE SumOver(f, {}) = 0
BY SumUnfolds, FS_EmptySet

\* A sum of integers is an integer, of natural numbers a natural number.
LEMMA SumType ==
  ASSUME NEW f, NEW S, IsFiniteSet(S), \A x \in S : f[x] \in Int
  PROVE  /\ SumOver(f, S) \in Int
         /\ (\A x \in S : f[x] >= 0) => SumOver(f, S) >= 0
<1> DEFINE Good(T) == SumOver(f, T) \in Int /\ ((\A x \in S : f[x] >= 0) => SumOver(f, T) >= 0)
           Bad == {T \in SUBSET S : ~ Good(T)}
<1> SUFFICES ASSUME Bad # {} PROVE FALSE
  <2>1. S \notin Bad
    OBVIOUS
  <2> QED
    BY <2>1
<1>1. PICK T \in Bad : \A U \in Bad : ~ (U \subseteq T /\ U # T)
  <2>1. Bad \subseteq SUBSET S
    OBVIOUS
  <2> HIDE DEF Bad
  <2> QED
    BY <2>1, SmallestCounterexample
<1>2. IsFiniteSet(T) /\ T \in SUBSET S /\ ~ Good(T)
  BY <1>1, FS_Subset
<1>3. T # {}
  BY <1>2, SumOfNone
<1>4. Pick(T) \in T /\ T \ {Pick(T)} \in SUBSET S /\ T \ {Pick(T)} \notin Bad
  BY <1>1, <1>3, PickIn
<1>5. Good(T \ {Pick(T)})
  BY <1>4
<1>6. SumOver(f, T) = f[Pick(T)] + SumOver(f, T \ {Pick(T)})
  BY <1>2, <1>3, SumUnfolds
<1>7. f[Pick(T)] \in Int /\ ((\A x \in S : f[x] >= 0) => f[Pick(T)] >= 0)
  BY <1>2, <1>4
<1> QED
  BY <1>2, <1>5, <1>6, <1>7

\* Any element may be taken first.
LEMMA SumTakes ==
  ASSUME NEW f, NEW S, IsFiniteSet(S), \A x \in S : f[x] \in Int, NEW x \in S
  PROVE  SumOver(f, S) = f[x] + SumOver(f, S \ {x})
<1> DEFINE Good(T) == \A y \in T : SumOver(f, T) = f[y] + SumOver(f, T \ {y})
           Bad == {T \in SUBSET S : ~ Good(T)}
<1> SUFFICES ASSUME Bad # {} PROVE FALSE
  <2>1. S \notin Bad
    OBVIOUS
  <2> QED
    BY <2>1
<1>1. PICK T \in Bad : \A U \in Bad : ~ (U \subseteq T /\ U # T)
  <2>1. Bad \subseteq SUBSET S
    OBVIOUS
  <2> HIDE DEF Bad
  <2> QED
    BY <2>1, SmallestCounterexample
<1>2. PICK y \in T : SumOver(f, T) # f[y] + SumOver(f, T \ {y})
  BY <1>1
<1> DEFINE p == Pick(T)
           U == T \ {p}
           V == T \ {y}
           W == (T \ {p}) \ {y}
<1>3. p \in T /\ SumOver(f, T) = f[p] + SumOver(f, U)
  BY <1>1, FS_Subset, SumUnfolds, PickIn
<1>4. p # y
  BY <1>2, <1>3
<1>5. Good(U) /\ Good(V)
  <2>1. U \in SUBSET S /\ V \in SUBSET S /\ U \notin Bad /\ V \notin Bad
    BY <1>1, <1>2, <1>3
  <2> QED
    BY <2>1
<1>6. SumOver(f, U) = f[y] + SumOver(f, W)
  BY <1>2, <1>4, <1>5
<1>7. SumOver(f, V) = f[p] + SumOver(f, W)
  <2>1. V \ {p} = W
    OBVIOUS
  <2> QED
    BY <2>1, <1>3, <1>4, <1>5
<1>8. f[p] \in Int /\ f[y] \in Int /\ SumOver(f, W) \in Int
  <2>1. W \subseteq S /\ IsFiniteSet(W) /\ \A z \in W : f[z] \in Int
    BY <1>1, FS_Subset
  <2> QED
    BY <1>1, <1>2, <1>3, <2>1, SumType
<1> HIDE DEF p, U, V, W
<1> QED
  BY <1>2, <1>3, <1>6, <1>7, <1>8 DEF V

\* What one more element adds.
LEMMA SumAdds ==
  ASSUME NEW f, NEW S, IsFiniteSet(S), NEW x, x \notin S, f[x] \in Int, \A y \in S : f[y] \in Int
  PROVE  SumOver(f, S \cup {x}) = SumOver(f, S) + f[x]
<1>1. IsFiniteSet(S \cup {x}) /\ (S \cup {x}) \ {x} = S
  BY FS_AddElement
<1>2. SumOver(f, S \cup {x}) = f[x] + SumOver(f, S)
  BY <1>1, SumTakes
<1>3. SumOver(f, S) \in Int
  BY SumType
<1> QED
  BY <1>2, <1>3

\* A sum depends on nothing but the values at its elements.
LEMMA SumSame ==
  ASSUME NEW f, NEW g, NEW S, IsFiniteSet(S), \A x \in S : f[x] = g[x]
  PROVE  SumOver(f, S) = SumOver(g, S)
<1> DEFINE Bad == {T \in SUBSET S : SumOver(f, T) # SumOver(g, T)}
<1> SUFFICES ASSUME Bad # {} PROVE FALSE
  <2>1. S \notin Bad
    OBVIOUS
  <2> QED
    BY <2>1
<1>1. PICK T \in Bad : \A U \in Bad : ~ (U \subseteq T /\ U # T)
  <2>1. Bad \subseteq SUBSET S
    OBVIOUS
  <2> HIDE DEF Bad
  <2> QED
    BY <2>1, SmallestCounterexample
<1>2. IsFiniteSet(T) /\ T \in SUBSET S /\ SumOver(f, T) # SumOver(g, T)
  BY <1>1, FS_Subset
<1>3. T # {}
  BY <1>2, SumOfNone
<1>4. Pick(T) \in T /\ T \ {Pick(T)} \in SUBSET S /\ T \ {Pick(T)} \notin Bad
  BY <1>1, <1>3, PickIn
<1>5. SumOver(f, T) = f[Pick(T)] + SumOver(f, T \ {Pick(T)})
      /\ SumOver(g, T) = g[Pick(T)] + SumOver(g, T \ {Pick(T)})
  BY <1>2, <1>3, SumUnfolds
<1>6. f[Pick(T)] = g[Pick(T)]
  BY <1>2, <1>4
<1> QED
  BY <1>2, <1>4, <1>5, <1>6
=============================================================================

---------------------- MODULE DisputeArbitrationProofs ----------------------
(***************************************************************************)
(* Proofs about DisputeArbitration and the draw it uses for every value of *)
(* their constants: the draw lands in the pool, and the loops of           *)
(* weighted_select compute it, for pools of any length and stakes of any   *)
(* size; types; the verdict of a case is what its bench voted, counted     *)
(* once; an appeal stands on the ballots of the first round;                *)
(* dispute_arbitration implements DisputeOutcome; and what lifts a bar.    *)
(* Induction over the length of the pool is done with the least            *)
(* counterexample.                                                         *)
(***************************************************************************)
EXTENDS DisputeArbitration, WeightedSelect, FiniteSetTheorems, WellFoundedInduction, TLAPS

-----------------------------------------------------------------------------
(* What SumOver computes for every finite set of naturals: nothing for the   *)
(* empty set, and one element more adds its value whichever it is. The fold  *)
(* takes the elements in the order of CHOOSE. Induction over the size of a   *)
(* set is done with the least counterexample.                                *)

\* A set of naturals that is not empty has a least element.
LEMMA LeastNat ==
    ASSUME NEW T, T \subseteq Nat, T # {}
    PROVE  \E m \in T : \A k \in T : m <= k
<1> DEFINE R == OpToRel(<, Nat)
<1>1. IsWellFoundedOn(R, Nat)
    BY NatLessThanWellFounded
<1>2. \A x, y \in Nat : <<x, y>> \in R <=> x < y
    BY DEF OpToRel
<1> HIDE DEF R
<1>3. PICK m \in T : \A k \in T : ~(<<k, m>> \in R)
    BY <1>1, WFMin
<1>4. \A k \in T : k \in Nat /\ m \in Nat /\ ~(k < m)
    BY <1>2, <1>3
<1>5. \A k, n \in Nat : ~(k < n) => n <= k
    OBVIOUS
<1> QED BY <1>4, <1>5

\* The element the fold takes first.
FirstOf(s) == CHOOSE x \in s : TRUE

\* What one step of the fold computes from the function g of smaller sums.
FoldStep(f, g, s) == IF s = {} THEN 0 ELSE f[FirstOf(s)] + g[s \ {FirstOf(s)}]

\* A set of sets that has with each of its members what the fold leaves of it.
FoldClosed(D) == \A s \in D : IsFiniteSet(s) /\ (s # {} => s \ {FirstOf(s)} \in D)

\* g is a function of the sums of f over the sets in D.
SumsTo(f, D, g) ==
    /\ g \in [D -> Nat]
    /\ \A s \in D : g[s] = FoldStep(f, g, s)

\* Of a nonempty set of finite sets one has the least size.
LEMMA LeastSet ==
    ASSUME NEW B, B # {}, \A s \in B : IsFiniteSet(s)
    PROVE  \E s \in B : \A t \in B : Cardinality(s) <= Cardinality(t)
<1> DEFINE T == {Cardinality(s) : s \in B}
<1>1. T \subseteq Nat /\ T # {}
    BY FS_CardinalityType
<1> HIDE DEF T
<1>2. PICK m \in T : \A k \in T : m <= k
    BY <1>1, LeastNat
<1> QED BY <1>2 DEF T

\* Taking the first element leaves a smaller set.
LEMMA FirstLeaves ==
    ASSUME NEW s, IsFiniteSet(s), s # {}
    PROVE  /\ FirstOf(s) \in s
           /\ IsFiniteSet(s \ {FirstOf(s)})
           /\ Cardinality(s \ {FirstOf(s)}) = Cardinality(s) - 1
           /\ Cardinality(s) \in Nat
<1>1. FirstOf(s) \in s
    BY DEF FirstOf
<1> QED BY <1>1, FS_RemoveElement, FS_CardinalityType

\* Two functions of sums agree where both are defined.
LEMMA FoldsAgree ==
    ASSUME NEW f, NEW D, NEW E, NEW g, NEW h, FoldClosed(D), FoldClosed(E),
           SumsTo(f, D, g), SumsTo(f, E, h), NEW s \in D \cap E
    PROVE  g[s] = h[s]
<1> DEFINE B == {t \in D \cap E : g[t] # h[t]}
<1> SUFFICES ASSUME B # {} PROVE FALSE
    OBVIOUS
<1>1. PICK t \in B : \A u \in B : Cardinality(t) <= Cardinality(u)
    BY LeastSet DEF FoldClosed
<1>2. t \in D \cap E /\ g[t] # h[t] /\ g[t] = FoldStep(f, g, t) /\ h[t] = FoldStep(f, h, t)
    BY <1>1 DEF SumsTo
<1>3. CASE t = {}
    BY <1>2, <1>3 DEF FoldStep
<1>4. CASE t # {}
  <2> DEFINE u == t \ {FirstOf(t)}
  <2>1. u \in D \cap E /\ IsFiniteSet(t)
      BY <1>2, <1>4 DEF FoldClosed
  <2>2. Cardinality(u) = Cardinality(t) - 1 /\ Cardinality(t) \in Nat
      BY <1>4, <2>1, FirstLeaves
  <2>3. ~(Cardinality(t) <= Cardinality(u))
      BY <2>2
  <2>4. g[u] = h[u]
      BY <1>1, <2>1, <2>3
  <2> QED BY <1>2, <1>4, <2>4 DEF FoldStep
<1> QED BY <1>3, <1>4

\* The subsets of S with at most n elements.
SmallSets(S, n) == {s \in SUBSET S : Cardinality(s) <= n}

LEMMA SmallSetsClosed ==
    ASSUME NEW S, IsFiniteSet(S), NEW n \in Nat
    PROVE  FoldClosed(SmallSets(S, n))
<1> SUFFICES ASSUME NEW s \in SmallSets(S, n)
             PROVE  IsFiniteSet(s) /\ (s # {} => s \ {FirstOf(s)} \in SmallSets(S, n))
    BY DEF FoldClosed
<1>1. IsFiniteSet(s) /\ s \subseteq S /\ Cardinality(s) <= n
    BY FS_Subset DEF SmallSets
<1>2. ASSUME s # {} PROVE s \ {FirstOf(s)} \in SmallSets(S, n)
  <2>1. Cardinality(s \ {FirstOf(s)}) = Cardinality(s) - 1 /\ Cardinality(s) \in Nat
      BY <1>1, <1>2, FirstLeaves
  <2>2. Cardinality(s \ {FirstOf(s)}) <= n
      BY <1>1, <2>1
  <2> QED BY <1>1, <2>2 DEF SmallSets
<1> QED BY <1>1, <1>2

\* There is a function of sums for the subsets of every size.
LEMMA FoldExists ==
    ASSUME NEW f, NEW S, IsFiniteSet(S), \A x \in S : f[x] \in Nat,
           NEW n \in Nat
    PROVE  \E g : SumsTo(f, SmallSets(S, n), g)
<1> DEFINE Bad == {k \in Nat : ~ \E g : SumsTo(f, SmallSets(S, k), g)}
<1> SUFFICES ASSUME Bad # {} PROVE FALSE
    OBVIOUS
<1>0. Bad \subseteq Nat
    OBVIOUS
<1> HIDE DEF Bad
<1>1. PICK m \in Bad : \A k \in Bad : m <= k
    BY <1>0, LeastNat
<1>2. m \in Nat /\ ~ \E g : SumsTo(f, SmallSets(S, m), g)
    BY <1>1 DEF Bad
<1>3. \A s \in SmallSets(S, m) : IsFiniteSet(s) /\ s \subseteq S /\ Cardinality(s) \in Nat /\ Cardinality(s) <= m
    BY FS_Subset, FS_CardinalityType DEF SmallSets
<1>4. CASE m = 0
  <2> DEFINE g == [s \in SmallSets(S, 0) |-> 0]
  <2>1. \A s \in SmallSets(S, 0) : s = {}
      BY <1>3, <1>4, FS_EmptySet
  <2>2. SumsTo(f, SmallSets(S, 0), g)
      BY <2>1 DEF SumsTo, FoldStep
  <2> QED BY <1>2, <1>4, <2>2
<1>5. CASE m # 0
  <2>1. m - 1 \in Nat /\ ~(m <= m - 1)
      BY <1>2, <1>5
  <2>2. PICK g : SumsTo(f, SmallSets(S, m - 1), g)
      BY <1>1, <2>1 DEF Bad
  <2> DEFINE h == [s \in SmallSets(S, m) |-> FoldStep(f, g, s)]
  <2>3. \A s \in SmallSets(S, m) : s # {} =>
            f[FirstOf(s)] \in Nat /\ s \ {FirstOf(s)} \in SmallSets(S, m - 1)
    <3> SUFFICES ASSUME NEW s \in SmallSets(S, m), s # {}
                 PROVE  f[FirstOf(s)] \in Nat /\ s \ {FirstOf(s)} \in SmallSets(S, m - 1)
        OBVIOUS
    <3>1. FirstOf(s) \in s /\ Cardinality(s \ {FirstOf(s)}) = Cardinality(s) - 1
        BY <1>3, FirstLeaves
    <3>2. Cardinality(s \ {FirstOf(s)}) <= m - 1
        BY <1>2, <1>3, <3>1
    <3> QED BY <1>3, <3>1, <3>2 DEF SmallSets
  <2>4. \A s \in SmallSets(S, m - 1) : g[s] \in Nat /\ g[s] = FoldStep(f, g, s)
      BY <2>2 DEF SumsTo
  <2>5. \A s \in SmallSets(S, m - 1) : s \in SmallSets(S, m)
    <3>1. \A k \in Nat : k <= m - 1 => k <= m
        BY <1>2
    <3>2. \A s \in SmallSets(S, m - 1) : s \subseteq S /\ Cardinality(s) <= m - 1 /\ Cardinality(s) \in Nat
        BY FS_Subset, FS_CardinalityType DEF SmallSets
    <3> QED BY <3>1, <3>2 DEF SmallSets
  <2>6. h \in [SmallSets(S, m) -> Nat]
    <3>1. ASSUME NEW s \in SmallSets(S, m) PROVE FoldStep(f, g, s) \in Nat
      <4>1. CASE s = {}
          BY <4>1 DEF FoldStep
      <4>2. CASE s # {}
        <5>1. f[FirstOf(s)] \in Nat /\ g[s \ {FirstOf(s)}] \in Nat
            BY <2>3, <2>4, <4>2
        <5>2. \A i, j \in Nat : i + j \in Nat
            OBVIOUS
        <5> QED BY <4>2, <5>1, <5>2 DEF FoldStep
      <4> QED BY <4>1, <4>2
    <3> QED BY <3>1
  <2>7. \A s \in SmallSets(S, m - 1) : h[s] = g[s]
      BY <2>4, <2>5
  <2>8. \A s \in SmallSets(S, m) : h[s] = FoldStep(f, h, s)
    <3> SUFFICES ASSUME NEW s \in SmallSets(S, m) PROVE h[s] = FoldStep(f, h, s)
        OBVIOUS
    <3>0. h[s] = FoldStep(f, g, s)
        OBVIOUS
    <3> HIDE DEF h
    <3> QED BY <2>3, <2>7, <3>0 DEF FoldStep
  <2>9. SumsTo(f, SmallSets(S, m), h)
    <3> HIDE DEF h
    <3> QED BY <2>6, <2>8 DEF SumsTo
  <2> QED BY <1>2, <2>9
<1> QED BY <1>4, <1>5

\* The fold over S is a function of sums of all its subsets.
LEMMA SumIsFold ==
    ASSUME NEW f, NEW S, IsFiniteSet(S), \A x \in S : f[x] \in Nat
    PROVE  /\ FoldClosed(SUBSET S)
           /\ \E g : SumsTo(f, SUBSET S, g) /\ SumOver(f, S) = g[S]
<1> DEFINE n == Cardinality(S)
           iter == CHOOSE g : g = [s \in SUBSET S |-> FoldStep(f, g, s)]
<1>1. n \in Nat
    BY FS_CardinalityType
<1>2. \A s \in SUBSET S : Cardinality(s) <= n
    BY FS_Subset
<1> HIDE DEF n
<1>3. SmallSets(S, n) = SUBSET S
    BY <1>2 DEF SmallSets
<1>4. PICK g : SumsTo(f, SUBSET S, g)
  <2>1. \E g : SumsTo(f, SmallSets(S, n), g)
      BY <1>1, FoldExists
  <2> QED BY <1>3, <2>1, Zenon
<1>5. FoldClosed(SUBSET S)
  <2>1. FoldClosed(SmallSets(S, n))
      BY <1>1, SmallSetsClosed
  <2> QED BY <1>3, <2>1, Zenon
<1>6. g = [s \in SUBSET S |-> FoldStep(f, g, s)]
    BY <1>4 DEF SumsTo
<1>7. iter = [s \in SUBSET S |-> FoldStep(f, iter, s)]
    BY <1>6
<1>8. SumOver(f, S) = iter[S]
    BY DEF SumOver, MapThenSumSet, MapThenFoldSet, FoldStep, FirstOf
<1> HIDE DEF iter
<1>9. \A s \in SUBSET S : iter[s] = FoldStep(f, iter, s)
    BY <1>7
<1>a. \A s \in SUBSET S : iter[s] \in Nat
  <2> DEFINE B == {s \in SUBSET S : iter[s] \notin Nat}
  <2> SUFFICES ASSUME B # {} PROVE FALSE
      OBVIOUS
  <2>1. PICK t \in B : \A u \in B : Cardinality(t) <= Cardinality(u)
      BY <1>5, LeastSet DEF FoldClosed
  <2>2. CASE t = {}
    <3>1. iter[t] = FoldStep(f, iter, t)
        BY <1>9, <2>1
    <3>2. iter[t] = 0
        BY <2>2, <3>1 DEF FoldStep
    <3> QED BY <2>1, <3>2
  <2>3. CASE t # {}
    <3>1. IsFiniteSet(t) /\ t \ {FirstOf(t)} \in SUBSET S
        BY <1>5, <2>1 DEF FoldClosed
    <3>0. /\ FirstOf(t) \in t /\ Cardinality(t) \in Nat
          /\ Cardinality(t \ {FirstOf(t)}) = Cardinality(t) - 1
        BY <2>3, <3>1, FirstLeaves
    <3>2. FirstOf(t) \in t /\ ~(Cardinality(t) <= Cardinality(t \ {FirstOf(t)}))
        BY <3>0
    <3>3. iter[t \ {FirstOf(t)}] \in Nat /\ f[FirstOf(t)] \in Nat
        BY <2>1, <3>1, <3>2
    <3>4. iter[t] = f[FirstOf(t)] + iter[t \ {FirstOf(t)}]
        BY <1>9, <2>1, <2>3 DEF FoldStep
    <3> QED BY <2>1, <3>3, <3>4
  <2> QED BY <2>2, <2>3
<1>b. SumsTo(f, SUBSET S, iter)
    BY <1>7, <1>9, <1>a DEF SumsTo
<1> QED BY <1>5, <1>8, <1>b

\* One step of the fold: the first element's value and the sum over the rest.
LEMMA SumStep ==
    ASSUME NEW f, NEW S, IsFiniteSet(S), \A x \in S : f[x] \in Nat
    PROVE  /\ SumOver(f, S) \in Nat
           /\ S = {} => SumOver(f, S) = 0
           /\ S # {} => SumOver(f, S) = f[FirstOf(S)] + SumOver(f, S \ {FirstOf(S)})
<1>1. FoldClosed(SUBSET S)
    BY SumIsFold
<1>2. PICK g : SumsTo(f, SUBSET S, g) /\ SumOver(f, S) = g[S]
    BY SumIsFold
<1>3. g[S] \in Nat /\ g[S] = FoldStep(f, g, S)
    BY <1>2 DEF SumsTo
<1>4. ASSUME S # {} PROVE g[S \ {FirstOf(S)}] = SumOver(f, S \ {FirstOf(S)})
  <2> DEFINE T == S \ {FirstOf(S)}
  <2>1. IsFiniteSet(T) /\ T \subseteq S /\ \A x \in T : f[x] \in Nat
      BY <1>4, FirstLeaves
  <2> HIDE DEF T
  <2>2. FoldClosed(SUBSET T)
      BY <2>1, SumIsFold
  <2>3. PICK h : SumsTo(f, SUBSET T, h) /\ SumOver(f, T) = h[T]
      BY <2>1, SumIsFold
  <2>4. T \in (SUBSET S) \cap (SUBSET T)
      BY <2>1
  <2>5. g[T] = h[T]
      BY <1>1, <1>2, <2>2, <2>3, <2>4, FoldsAgree
  <2> QED BY <2>3, <2>5 DEF T
<1> QED BY <1>2, <1>3, <1>4 DEF FoldStep

\* The sum over a finite set of naturals is a natural.
LEMMA SumType ==
    ASSUME NEW f, NEW S, IsFiniteSet(S), \A x \in S : f[x] \in Nat
    PROVE  SumOver(f, S) \in Nat
BY SumStep

LEMMA SumEmpty == \A f : SumOver(f, {}) = 0
BY SumStep, FS_EmptySet

\* Any element can be taken first.
LEMMA SumRemove ==
    ASSUME NEW f, NEW S, IsFiniteSet(S), \A x \in S : f[x] \in Nat, NEW z \in S
    PROVE  SumOver(f, S) = f[z] + SumOver(f, S \ {z})
<1> DEFINE B == {T \in SUBSET S : \E x \in T : SumOver(f, T) # f[x] + SumOver(f, T \ {x})}
<1> SUFFICES ASSUME B # {} PROVE FALSE
    OBVIOUS
<1>0. \A T \in SUBSET S : IsFiniteSet(T)
    BY FS_Subset
<1>1. PICK T \in B : \A U \in B : Cardinality(T) <= Cardinality(U)
    BY <1>0, LeastSet
<1>2. T \subseteq S /\ IsFiniteSet(T) /\ \A y \in T : f[y] \in Nat
    BY <1>0, <1>1
<1>3. PICK x \in T : SumOver(f, T) # f[x] + SumOver(f, T \ {x})
    BY <1>1
<1> DEFINE y == FirstOf(T)
<1>4. y \in T /\ SumOver(f, T) = f[y] + SumOver(f, T \ {y})
    BY <1>2, <1>3, SumStep, FirstLeaves
<1> HIDE DEF y
<1>5. x # y
    BY <1>3, <1>4
<1>6. /\ IsFiniteSet(T \ {x}) /\ Cardinality(T \ {x}) = Cardinality(T) - 1
      /\ IsFiniteSet(T \ {y}) /\ Cardinality(T \ {y}) = Cardinality(T) - 1
      /\ Cardinality(T) \in Nat
    BY <1>2, <1>4, FS_RemoveElement, FS_CardinalityType
<1>7. ~(Cardinality(T) <= Cardinality(T \ {x})) /\ ~(Cardinality(T) <= Cardinality(T \ {y}))
    BY <1>6
<1>8. T \ {x} \notin B /\ T \ {y} \notin B
    BY <1>1, <1>7
<1>9. SumOver(f, T \ {y}) = f[x] + SumOver(f, (T \ {y}) \ {x})
    BY <1>2, <1>5, <1>8
<1>10. SumOver(f, T \ {x}) = f[y] + SumOver(f, (T \ {x}) \ {y})
    BY <1>2, <1>4, <1>5, <1>8
<1>11. (T \ {y}) \ {x} = (T \ {x}) \ {y}
    OBVIOUS
<1>12. IsFiniteSet((T \ {x}) \ {y}) /\ \A w \in (T \ {x}) \ {y} : f[w] \in Nat
    BY <1>2, <1>6, FS_Subset
<1>13. SumOver(f, (T \ {x}) \ {y}) \in Nat
    BY <1>12, SumType
<1>14. f[x] \in Nat /\ f[y] \in Nat
    BY <1>2, <1>4
<1> DEFINE a == SumOver(f, T \ {x})
           b == SumOver(f, T \ {y})
           c == SumOver(f, (T \ {x}) \ {y})
<1>15. c \in Nat /\ b = f[x] + c /\ a = f[y] + c
    BY <1>9, <1>10, <1>11, <1>13
<1>16. SumOver(f, T) = f[y] + b /\ SumOver(f, T) # f[x] + a
    BY <1>3, <1>4
<1> HIDE DEF a, b, c
<1> QED BY <1>14, <1>15, <1>16

\* One element more adds its value.
LEMMA SumAdd ==
    ASSUME NEW f, NEW S, IsFiniteSet(S), \A x \in S : f[x] \in Nat,
           NEW z, z \notin S, f[z] \in Nat
    PROVE  SumOver(f, S \cup {z}) = f[z] + SumOver(f, S)
<1>1. IsFiniteSet(S \cup {z}) /\ (S \cup {z}) \ {z} = S
    BY FS_AddElement
<1>2. \A x \in S \cup {z} : f[x] \in Nat
    OBVIOUS
<1> QED BY <1>1, <1>2, SumRemove

\* Functions that agree on the set have the same sum over it.
LEMMA SumSame ==
    ASSUME NEW f, NEW g, NEW S, IsFiniteSet(S),
           \A x \in S : f[x] \in Nat /\ f[x] = g[x]
    PROVE  SumOver(f, S) = SumOver(g, S)
<1> DEFINE B == {T \in SUBSET S : SumOver(f, T) # SumOver(g, T)}
<1> SUFFICES ASSUME B # {} PROVE FALSE
    OBVIOUS
<1>0. \A T \in SUBSET S : IsFiniteSet(T)
    BY FS_Subset
<1>1. PICK T \in B : \A U \in B : Cardinality(T) <= Cardinality(U)
    BY <1>0, LeastSet
<1>2. /\ T \subseteq S /\ IsFiniteSet(T)
      /\ \A y \in T : f[y] \in Nat
      /\ \A y \in T : g[y] \in Nat
    BY <1>0, <1>1
<1>3. T # {}
    BY <1>1, SumEmpty
<1>4. /\ SumOver(f, T) = f[FirstOf(T)] + SumOver(f, T \ {FirstOf(T)})
      /\ SumOver(g, T) = g[FirstOf(T)] + SumOver(g, T \ {FirstOf(T)})
    BY <1>2, <1>3, SumStep
<1>5. FirstOf(T) \in T /\ ~(Cardinality(T) <= Cardinality(T \ {FirstOf(T)}))
  <2>1. /\ FirstOf(T) \in T /\ Cardinality(T) \in Nat
        /\ Cardinality(T \ {FirstOf(T)}) = Cardinality(T) - 1
      BY <1>2, <1>3, FirstLeaves
  <2> QED BY <2>1
<1>6. T \ {FirstOf(T)} \notin B
    BY <1>1, <1>5
<1>7. SumOver(f, T \ {FirstOf(T)}) = SumOver(g, T \ {FirstOf(T)}) /\ f[FirstOf(T)] = g[FirstOf(T)]
    BY <1>1, <1>2, <1>5, <1>6
<1> QED BY <1>1, <1>4, <1>7

-----------------------------------------------------------------------------
(* The draw *)

\* f is the function of running sums of stakes up to n.
Sums(stakes, n, f) ==
    /\ f \in [0..n -> Nat]
    /\ f = [i \in 0..n |-> IF i = 0 THEN 0 ELSE f[i - 1] + stakes[i]]

\* There is one for every n.
LEMMA SumsExist ==
    ASSUME NEW stakes \in Seq(Nat)
    PROVE  \E f : Sums(stakes, Len(stakes), f)
<1> DEFINE Bad == {n \in 0..Len(stakes) : ~ \E f : Sums(stakes, n, f)}
<1>0. Len(stakes) \in Nat /\ \A i \in 1..Len(stakes) : stakes[i] \in Nat
    OBVIOUS
<1>1. ASSUME Bad # {} PROVE FALSE
  <2>0. Bad \subseteq Nat
      BY <1>0
  <2> HIDE DEF Bad
  <2>1. PICK m \in Bad : \A k \in Bad : m <= k
      BY <1>1, <2>0, LeastNat
  <2> USE DEF Bad
  <2>2. m \in Nat /\ m <= Len(stakes)
      BY <1>0, <2>1
  <2>3. CASE m = 0
    <3> DEFINE f == [i \in 0..0 |-> 0]
    <3>1. f \in [0..0 -> Nat]
        OBVIOUS
    <3>2. f = [i \in 0..0 |-> IF i = 0 THEN 0 ELSE f[i - 1] + stakes[i]]
        OBVIOUS
    <3>3. Sums(stakes, 0, f)
        BY <3>1, <3>2 DEF Sums
    <3> QED BY <2>1, <2>3, <3>3
  <2>4. CASE m # 0
    <3>1. m - 1 \in 0..Len(stakes) /\ ~(m <= m - 1)
        BY <1>0, <2>2, <2>4
    <3>2. m - 1 \notin Bad
        BY <2>1, <3>1
    <3>3. PICK g : Sums(stakes, m - 1, g)
        BY <3>1, <3>2
    <3> DEFINE f == [i \in 0..m |-> IF i = m THEN g[m - 1] + stakes[m] ELSE g[i]]
    <3>4. g \in [0..(m - 1) -> Nat] /\ stakes[m] \in Nat /\ m - 1 \in 0..(m - 1)
        BY <1>0, <2>2, <2>4, <3>3 DEF Sums
    <3>5. f \in [0..m -> Nat]
        BY <2>2, <3>4
    <3>6. \A i \in 0..(m - 1) : g[i] = IF i = 0 THEN 0 ELSE g[i - 1] + stakes[i]
        BY <3>3 DEF Sums
    <3>7. \A i \in 0..m : f[i] = IF i = 0 THEN 0 ELSE f[i - 1] + stakes[i]
        BY <2>2, <2>4, <3>6
    <3>8. f = [i \in 0..m |-> IF i = 0 THEN 0 ELSE f[i - 1] + stakes[i]]
        BY <3>7
    <3>9. Sums(stakes, m, f)
        BY <3>5, <3>8 DEF Sums
    <3> QED BY <2>1, <3>9
  <2> QED BY <2>3, <2>4
<1>2. Len(stakes) \in 0..Len(stakes)
    BY <1>0
<1> QED BY <1>1, <1>2

\* The running sums are naturals, one per member, that never decrease and
\* start with the first stake.
LEMMA CumulativeSums ==
    ASSUME NEW stakes \in Seq(Nat)
    PROVE  LET cum == CumulativeStakes(stakes)
           IN  /\ cum \in Seq(Nat)
               /\ Len(cum) = Len(stakes)
               /\ \A i \in 1..Len(cum) :
                     cum[i] = (IF i = 1 THEN 0 ELSE cum[i - 1]) + stakes[i]
<1> DEFINE n == Len(stakes)
           sum == CHOOSE f : f = [i \in 0..n |-> IF i = 0 THEN 0 ELSE f[i - 1] + stakes[i]]
           cum == [i \in 1..n |-> sum[i]]
<1>0. n \in Nat
    OBVIOUS
<1>1. CumulativeStakes(stakes) = cum
    BY DEF CumulativeStakes
<1>2. sum = [i \in 0..n |-> IF i = 0 THEN 0 ELSE sum[i - 1] + stakes[i]]
    BY SumsExist DEF Sums
<1> HIDE DEF sum
<1> DEFINE Bad == {i \in 0..n : sum[i] \notin Nat}
<1>3. Bad = {}
  <2> SUFFICES ASSUME Bad # {} PROVE FALSE
      OBVIOUS
  <2>0. Bad \subseteq Nat
      BY <1>0
  <2> HIDE DEF Bad
  <2>1. PICK m \in Bad : \A k \in Bad : m <= k
      BY <2>0, LeastNat
  <2> USE DEF Bad
  <2>2. m \in 0..n /\ sum[m] \notin Nat
      BY <2>1
  <2>3. m # 0
      BY <1>2, <2>2
  <2>4. m - 1 \in 0..n /\ ~(m <= m - 1) /\ stakes[m] \in Nat
      BY <1>0, <2>2, <2>3
  <2>5. sum[m - 1] \in Nat
      BY <2>1, <2>4
  <2>6. sum[m] = sum[m - 1] + stakes[m]
      BY <1>2, <2>2, <2>3
  <2> QED BY <2>2, <2>4, <2>5, <2>6
<1>4. \A i \in 0..n : sum[i] \in Nat
    BY <1>3
<1>5. cum \in Seq(Nat) /\ Len(cum) = n
    BY <1>0, <1>4
<1>6. \A i \in 1..n : sum[i] = sum[i - 1] + stakes[i]
    BY <1>0, <1>2
<1>7. 0 \in 0..n /\ sum[0] = 0
    BY <1>0, <1>2
<1>8. \A i \in 1..n : cum[i] = (IF i = 1 THEN 0 ELSE cum[i - 1]) + stakes[i]
  <2> SUFFICES ASSUME NEW i \in 1..n
               PROVE  cum[i] = (IF i = 1 THEN 0 ELSE cum[i - 1]) + stakes[i]
      OBVIOUS
  <2>1. CASE i = 1
      BY <1>0, <1>6, <1>7, <2>1
  <2>2. CASE i # 1
      BY <1>0, <1>6, <2>2
  <2> QED BY <2>1, <2>2
<1> QED BY <1>1, <1>5, <1>8

\* The running sums never decrease.
LEMMA SumsGrow ==
    ASSUME NEW stakes \in Seq(Nat), NEW i \in 1..Len(CumulativeStakes(stakes)),
           NEW j \in 1..Len(CumulativeStakes(stakes)), i <= j
    PROVE  CumulativeStakes(stakes)[i] <= CumulativeStakes(stakes)[j]
<1> DEFINE cum == CumulativeStakes(stakes)
           n == Len(cum)
           Bad == {k \in i..n : ~(cum[i] <= cum[k])}
<1>1. /\ cum \in Seq(Nat) /\ n = Len(stakes)
      /\ \A k \in 1..n : cum[k] = (IF k = 1 THEN 0 ELSE cum[k - 1]) + stakes[k]
    BY CumulativeSums
<1> HIDE DEF cum
<1>2. n \in Nat /\ i \in 1..n /\ j \in 1..n /\ \A k \in 1..n : cum[k] \in Nat /\ stakes[k] \in Nat
  <2>1. i \in 1..n /\ j \in 1..n
      BY Zenon DEF cum
  <2>2. n \in Nat /\ \A k \in 1..n : cum[k] \in Nat
      BY <1>1
  <2>3. \A k \in 1..n : stakes[k] \in Nat
      BY <1>1
  <2> QED BY <2>1, <2>2, <2>3
<1> HIDE DEF n
<1>3. Bad = {}
  <2> SUFFICES ASSUME Bad # {} PROVE FALSE
      OBVIOUS
  <2>1. Bad \subseteq Nat
      BY <1>2
  <2>2. PICK m \in Bad : \A k \in Bad : m <= k
    <3> HIDE DEF Bad
    <3> QED BY <2>1, LeastNat
  <2>3. m \in 1..n /\ i <= m /\ ~(cum[i] <= cum[m])
      BY <1>2
  <2>4. m # i
      BY <1>2, <2>3
  <2>5. m - 1 \in i..n /\ m - 1 \in 1..n /\ ~(m <= m - 1) /\ m # 1
      BY <1>2, <2>3, <2>4
  <2>6. cum[i] <= cum[m - 1]
      BY <2>2, <2>5
  <2>7. cum[m] = cum[m - 1] + stakes[m]
      BY <1>1, <2>3, <2>5
  <2>8. cum[i] \in Nat /\ cum[m - 1] \in Nat /\ cum[m] \in Nat /\ stakes[m] \in Nat
      BY <1>2, <2>3, <2>5
  <2> QED BY <2>3, <2>6, <2>7, <2>8
<1>4. j \in i..n
    BY <1>2
<1> QED BY <1>3, <1>4 DEF cum

\* Every draw seats somebody: an offset below the total stake is found in the
\* running sums of every pool, so weighted_select never indexes past its end
\* before the first probe.
THEOREM DrawLandsInPool ==
    ASSUME NEW stakes \in Seq(Nat),
           NEW r \in 0..(TotalStake(CumulativeStakes(stakes)) - 1)
    PROVE  /\ BinarySearch(CumulativeStakes(stakes), r) # {}
           /\ BinarySearch(CumulativeStakes(stakes), r) \subseteq 1..Len(stakes)
<1> DEFINE cum == CumulativeStakes(stakes)
<1>1. cum \in Seq(Nat) /\ Len(cum) = Len(stakes)
    BY CumulativeSums
<1> HIDE DEF cum
<1>2. r \in 0..(TotalStake(cum) - 1)
    BY DEF cum
<1>3. Len(cum) \in Nat /\ \A i \in 1..Len(cum) : cum[i] \in Nat
    BY <1>1
<1>4. cum # <<>> /\ cum[Len(cum)] > r /\ r \in Nat
  <2>1. TotalStake(cum) \in Nat
    <3>1. CASE cum = <<>>
        BY <3>1 DEF TotalStake
    <3>2. CASE cum # <<>>
      <4>1. Len(cum) \in 1..Len(cum)
          BY <1>1, <3>2
      <4> QED BY <1>3, <3>2, <4>1 DEF TotalStake
    <3> QED BY <3>1, <3>2
  <2>2. cum # <<>>
      BY <1>2 DEF TotalStake
  <2> QED BY <1>2, <2>1, <2>2 DEF TotalStake
<1> DEFINE Above == {i \in 1..Len(cum) : cum[i] > r}
<1>5. Len(cum) \in Above
    BY <1>1, <1>4
<1>a. Above \subseteq Nat /\ Above # {}
    BY <1>3, <1>5
<1> HIDE DEF Above
<1>6. PICK m \in Above : \A k \in Above : m <= k
    BY <1>a, LeastNat
<1> USE DEF Above
<1>7. ASSUME {i \in 1..Len(cum) : cum[i] = r} = {}
      PROVE  \A j \in 1..(m - 1) : cum[j] < r
  <2> SUFFICES ASSUME NEW j \in 1..(m - 1) PROVE cum[j] < r
      OBVIOUS
  <2>1. j \in 1..Len(cum) /\ ~(m <= j)
      BY <1>3, <1>6
  <2>2. j \notin Above /\ cum[j] # r
      BY <1>6, <1>7, <2>1
  <2> QED BY <1>3, <1>4, <2>1, <2>2
<1>8. BinarySearch(cum, r) # {}
    BY <1>6, <1>7 DEF BinarySearch
<1>9. BinarySearch(cum, r) \subseteq 1..Len(cum)
    BY DEF BinarySearch
<1> QED BY <1>1, <1>8, <1>9 DEF cum

-----------------------------------------------------------------------------
(* The loops of weighted_select *)

\* The position k probes after position h.
Pos(h, k) == ((h - 1 + k) % Len(cumulative)) + 1

\* The probe has passed taken positions only since some offset landed.
Probed ==
    \E h \in BinarySearch(cumulative, drawn[Len(drawn)]) :
        /\ idx = Pos(h, attempts)
        /\ \A k \in 0..(attempts - 1) : Pos(h, k) \in Range(selected)

\* Seat i went to the first free position from where its offset landed.
Seated(i) ==
    \E h \in BinarySearch(cumulative, drawn[i]) :
        selected[i] = NextFree(Len(cumulative), {selected[j] : j \in 1..(i - 1)}, h)

\* Every seat has its offset; the seat under way has probed taken positions, and
\* the loop is left early only when everybody sits.
SelectInv ==
    /\ cumulative \in Seq(Nat) /\ count \in Nat /\ attempts \in Nat
    /\ drawn \in Seq(Int) /\ selected \in Seq(1..Len(cumulative))
    /\ \A i \in 1..Len(drawn) : drawn[i] \in 0..(TotalStake(cumulative) - 1)
    /\ IsInjective(selected)
    /\ Len(selected) <= Len(drawn)
    /\ \A i \in 1..Len(selected) : Seated(i)
    /\ pc = "draw" => Len(drawn) = Len(selected) /\ Len(selected) <= count
    /\ pc = "probe" => /\ Len(drawn) = Len(selected) + 1 /\ Len(selected) < count
                       /\ attempts <= Len(cumulative) /\ Probed
    /\ pc = "done" => \/ Refused
                      \/ Len(selected) = count
                      \/ Len(selected) < count /\ 1..Len(cumulative) \subseteq Range(selected)

\* Going round a pool of n members needs one subtraction at most.
LEMMA Round ==
    ASSUME NEW n \in Nat \ {0}, NEW h \in 1..n, NEW k \in 0..n
    PROVE  (h - 1 + k) % n = IF h + k <= n THEN h + k - 1 ELSE h + k - n - 1
<1> DEFINE a == h - 1 + k
<1>1. a \in Nat
    OBVIOUS
<1>2. ASSUME NEW b \in 0..(n - 1) PROVE b % n = b
    BY <1>2
<1>3. ASSUME NEW b \in n..(2 * n - 1) PROVE b % n = b - n
    BY <1>3
<1>4. CASE h + k <= n
  <2>1. a \in 0..(n - 1)
      BY <1>4
  <2> QED BY <1>2, <1>4, <2>1
<1>5. CASE h + k > n
  <2>1. a \in n..(2 * n - 1)
      BY <1>5
  <2> QED BY <1>3, <1>5, <2>1
<1> QED BY <1>4, <1>5

\* One probe more goes one position further, and a full round visits everybody.
LEMMA Probing ==
    ASSUME cumulative \in Seq(Nat), NEW h \in 1..Len(cumulative)
    PROVE  /\ Pos(h, 0) = h
           /\ \A k \in 0..Len(cumulative) : Pos(h, k) \in 1..Len(cumulative)
           /\ \A k \in 0..(Len(cumulative) - 1) :
                  Pos(h, k + 1) = (Pos(h, k) % Len(cumulative)) + 1
           /\ \A p \in 1..Len(cumulative) : \E k \in 0..(Len(cumulative) - 1) : Pos(h, k) = p
<1> DEFINE n == Len(cumulative)
<1>n. n \in Nat \ {0} /\ h \in 1..n
    OBVIOUS
<1>p. \A k \in 0..n : Pos(h, k) = IF h + k <= n THEN h + k ELSE h + k - n
  <2> SUFFICES ASSUME NEW k \in 0..n
               PROVE  Pos(h, k) = IF h + k <= n THEN h + k ELSE h + k - n
      OBVIOUS
  <2>1. (h - 1 + k) % n = IF h + k <= n THEN h + k - 1 ELSE h + k - n - 1
      BY <1>n, Round
  <2> DEFINE q == (h - 1 + k) % n
  <2>2. Pos(h, k) = q + 1
      BY DEF Pos
  <2>3. h \in Nat /\ k \in Nat /\ n \in Nat
      BY <1>n
  <2>4. q = IF h + k <= n THEN h + k - 1 ELSE h + k - n - 1
      BY <2>1
  <2> HIDE DEF n, q
  <2>5. q + 1 = IF h + k <= n THEN h + k ELSE h + k - n
      BY <2>3, <2>4
  <2> QED BY <2>2, <2>5
<1> HIDE DEF n
<1>1. Pos(h, 0) = h
    BY <1>n, <1>p
<1>2. \A k \in 0..n : Pos(h, k) \in 1..n
    BY <1>n, <1>p
<1>3. ASSUME NEW k \in 0..(n - 1) PROVE Pos(h, k + 1) = (Pos(h, k) % n) + 1
  <2>1. Pos(h, k) \in 1..n /\ 1 \in 0..n /\ k \in 0..n /\ k + 1 \in 0..n
      BY <1>2, <1>3, <1>n
  <2>2. \A q \in 1..n : q % n = IF q + 1 <= n THEN q ELSE q - n
    <3> SUFFICES ASSUME NEW q \in 1..n PROVE q % n = IF q + 1 <= n THEN q ELSE q - n
        OBVIOUS
    <3>1. (q - 1 + 1) % n = IF q + 1 <= n THEN q + 1 - 1 ELSE q + 1 - n - 1
        BY <1>n, <2>1, Round
    <3> QED BY <3>1, <1>n
  <2>3. Pos(h, k) % n = IF Pos(h, k) + 1 <= n THEN Pos(h, k) ELSE Pos(h, k) - n
      BY <2>1, <2>2
  <2>4. PICK z : z = Pos(h, k) % n
      OBVIOUS
  <2>5. Pos(h, k) = IF h + k <= n THEN h + k ELSE h + k - n
      BY <1>p, <2>1
  <2>6. Pos(h, k + 1) = IF h + (k + 1) <= n THEN h + (k + 1) ELSE h + (k + 1) - n
      BY <1>p, <2>1
  <2>7. z = IF Pos(h, k) + 1 <= n THEN Pos(h, k) ELSE Pos(h, k) - n
      BY <2>3, <2>4
  <2>8. Pos(h, k + 1) = z + 1
      BY <1>n, <1>3, <2>5, <2>6, <2>7
  <2> QED BY <2>4, <2>8
<1>4. ASSUME NEW p \in 1..n PROVE \E k \in 0..(n - 1) : Pos(h, k) = p
  <2>1. CASE p >= h
    <3>1. p - h \in 0..(n - 1) /\ Pos(h, p - h) = p
        BY <1>n, <1>p, <1>4, <2>1
    <3> QED BY <3>1
  <2>2. CASE p < h
    <3>1. p - h + n \in 0..(n - 1) /\ Pos(h, p - h + n) = p
        BY <1>n, <1>p, <1>4, <2>2
    <3> QED BY <3>1
  <2> QED BY <1>n, <1>4, <2>1, <2>2
<1> QED BY <1>1, <1>2, <1>3, <1>4 DEF n

\* Different seats are not more than the members, and fewer do not seat everybody.
LEMMA SeatsBounded ==
    ASSUME NEW m \in Nat, NEW n \in Nat, NEW f \in [1..m -> 1..n]
    PROVE  /\ IsInjective(f) => m <= n
           /\ 1..n \subseteq Range(f) => n <= m
<1>1. /\ IsFiniteSet(1..m) /\ Cardinality(1..m) = m
      /\ IsFiniteSet(1..n) /\ Cardinality(1..n) = n
  <2>1. \A k \in Nat : IsFiniteSet(1..k) /\ Cardinality(1..k) = IF 1 > k THEN 0 ELSE k - 1 + 1
      BY FS_Interval
  <2> QED BY <2>1
<1>2. ASSUME IsInjective(f), n < m PROVE FALSE
  <2>1. \E x, y \in 1..m : x # y /\ f[x] = f[y]
      BY <1>1, <1>2, FS_PigeonHole
  <2> QED BY <1>2, <2>1 DEF IsInjective
<1>3. ASSUME 1..n \subseteq Range(f) PROVE n <= m
  <2>1. f \in Surjection(1..m, 1..n)
      BY <1>3 DEF Surjection, Range
  <2>2. Cardinality(1..n) <= m
      BY <2>1, FS_SurjCardinalityBound DEF ExistsSurjection
  <2> QED BY <1>1, <2>2
<1> QED BY <1>2, <1>3

\* The first free position is the one where the probe stops.
LEMMA ProbeFindsNextFree ==
    ASSUME cumulative \in Seq(Nat), NEW h \in 1..Len(cumulative),
           NEW a \in 0..(Len(cumulative) - 1), NEW taken,
           Pos(h, a) \notin taken, \A k \in 0..(a - 1) : Pos(h, k) \in taken
    PROVE  NextFree(Len(cumulative), taken, h) = Pos(h, a)
<1> DEFINE n == Len(cumulative)
           steps == {k \in 0..(n - 1) : Pos(h, k) \notin taken}
           least == CHOOSE k \in steps : \A m \in steps : k <= m
<1>1. NextFree(n, taken, h) = Pos(h, least)
    BY DEF NextFree, Pos
<1>2. a \in steps /\ \A m \in steps : a <= m
  <2>1. ASSUME NEW m \in steps, m < a PROVE FALSE
      BY <2>1
  <2> QED BY <2>1
<1>3. least \in steps /\ \A m \in steps : least <= m
    BY <1>2
<1>4. least = a
    BY <1>2, <1>3
<1> QED BY <1>1, <1>4

\* Members, offsets and seats that stay leave only the place in the loops.
LEMMA SeatsStay ==
    ASSUME SelectInv, UNCHANGED <<cumulative, count, drawn, selected>>
    PROVE  /\ cumulative' \in Seq(Nat) /\ count' \in Nat
           /\ drawn' \in Seq(Int) /\ selected' \in Seq(1..Len(cumulative'))
           /\ \A i \in 1..Len(drawn') : drawn'[i] \in 0..(TotalStake(cumulative') - 1)
           /\ IsInjective(selected')
           /\ Len(selected') <= Len(drawn')
           /\ \A i \in 1..Len(selected') : Seated(i)'
BY DEF SelectInv, Seated

LEMMA InitSelect == SelectInit => SelectInv
<1> SUFFICES ASSUME SelectInit PROVE SelectInv
    OBVIOUS
<1>1. PICK s \in UNION {[1..n -> Stakes] : n \in 0..MaxPool} : cumulative = CumulativeStakes(s)
    BY DEF SelectInit
<1>2. s \in Seq(Nat)
  <2>1. PICK n \in 0..MaxPool : s \in [1..n -> Stakes]
      BY <1>1
  <2>2. n \in Nat
      BY SelectAssumption
  <2>3. s \in [1..n -> Nat]
      BY <2>1, SelectAssumption, Zenon
  <2> QED BY <2>2, <2>3
<1>3. cumulative \in Seq(Nat)
    BY <1>1, <1>2, CumulativeSums
<1>4. /\ count \in Nat /\ attempts = 0 /\ drawn = <<>> /\ selected = <<>> /\ pc = "draw"
    BY SelectAssumption DEF SelectInit
<1>5. drawn \in Seq(Int) /\ selected \in Seq(1..Len(cumulative)) /\ IsInjective(selected)
    BY <1>4 DEF IsInjective
<1>6. Len(drawn) = 0 /\ Len(selected) = 0
    BY <1>4
<1> QED BY <1>3, <1>4, <1>5, <1>6 DEF SelectInv

\* An offset is drawn for the next seat and lands on a member.
LEMMA DrawKeeps == SelectInv /\ Draw => SelectInv'
<1> SUFFICES ASSUME SelectInv, Draw PROVE SelectInv'
    OBVIOUS
<1> DEFINE n == Len(cumulative)
           m == Len(drawn)
<1>1. PICK r \in 0..(TotalStake(cumulative) - 1) :
          drawn' = Append(drawn, r) /\ idx' \in BinarySearch(cumulative, r)
    BY DEF Draw
<1>2. /\ UNCHANGED <<cumulative, count, selected>> /\ attempts' = 0 /\ pc' = "probe"
      /\ cumulative \in Seq(Nat) /\ drawn \in Seq(Int) /\ r \in Int
      /\ m = Len(selected) /\ m \in Nat /\ m < count
    BY DEF Draw, SelectInv
<1>3. /\ drawn' \in Seq(Int) /\ Len(drawn') = m + 1 /\ drawn'[m + 1] = r
      /\ \A i \in 1..m : drawn'[i] = drawn[i]
    BY <1>1, <1>2
<1>4. \A i \in 1..(m + 1) : drawn'[i] \in 0..(TotalStake(cumulative) - 1)
  <2>1. \A i \in 1..m : drawn[i] \in 0..(TotalStake(cumulative) - 1)
      BY DEF SelectInv
  <2>2. \A i \in 1..(m + 1) : i \in 1..m \/ i = m + 1
      BY <1>2
  <2>3. drawn'[m + 1] \in 0..(TotalStake(cumulative) - 1)
      BY <1>3
  <2>4. \A i \in 1..m : drawn'[i] = drawn[i]
      BY <1>3
  <2> DEFINE D == 0..(TotalStake(cumulative) - 1)
  <2> HIDE DEF m, D
  <2>5. ASSUME NEW i \in 1..(m + 1) PROVE drawn'[i] \in D
    <3>1. CASE i \in 1..m
        BY <2>1, <2>4, <3>1 DEF D
    <3>2. CASE i = m + 1
        BY <2>3, <3>2 DEF D
    <3> QED BY <2>2, <3>1, <3>2
  <2> QED BY <2>5 DEF D
<1>5. \A i \in 1..m : Seated(i)'
  <2>1. \A i \in 1..m : Seated(i)
      BY <1>2 DEF SelectInv
  <2>2. \A i \in 1..m : drawn'[i] = drawn[i]
      BY <1>3
  <2>3. cumulative' = cumulative /\ selected' = selected
      BY <1>2
  <2> HIDE DEF m
  <2> SUFFICES ASSUME NEW i \in 1..m PROVE Seated(i)'
      OBVIOUS
  <2>4. drawn'[i] = drawn[i] /\ Seated(i)
      BY <2>1, <2>2
  <2> QED BY <2>3, <2>4 DEF Seated
<1>6. Probed'
  <2>1. idx' \in 1..n
      BY <1>1 DEF BinarySearch
  <2>2. Pos(idx', 0) = idx'
      BY <1>2, <2>1, Probing
  <2>3. \A h : Pos(h, 0)' = Pos(h, 0)
      BY <1>2 DEF Pos
  <2>4. idx' \in BinarySearch(cumulative, drawn'[Len(drawn')])
      BY <1>1, <1>3
  <2> QED BY <1>2, <2>2, <2>3, <2>4 DEF Probed, Pos
<1> QED BY <1>2, <1>3, <1>4, <1>5, <1>6 DEF SelectInv

\* A taken position is passed.
LEMMA ProbeKeeps == SelectInv /\ Probe => SelectInv'
<1> SUFFICES ASSUME SelectInv, Probe PROVE SelectInv'
    OBVIOUS
<1> DEFINE n == Len(cumulative)
<1>1. /\ UNCHANGED <<cumulative, count, drawn, selected, pc>> /\ pc = "probe"
      /\ attempts' = attempts + 1 /\ idx' = (idx % n) + 1
      /\ idx \in Range(selected) /\ attempts < n
      /\ attempts \in Nat /\ cumulative \in Seq(Nat) /\ n \in Nat
    BY DEF Probe, Occupied, SelectInv
<1>2. PICK h \in BinarySearch(cumulative, drawn[Len(drawn)]) :
          idx = Pos(h, attempts) /\ \A k \in 0..(attempts - 1) : Pos(h, k) \in Range(selected)
    BY <1>1 DEF SelectInv, Probed
<1>3. h \in 1..n
    BY DEF BinarySearch
<1>4. idx' = Pos(h, attempts + 1)
  <2>1. attempts \in 0..(n - 1)
      BY <1>1
  <2> QED BY <1>1, <1>2, <1>3, <2>1, Probing
<1>5. \A k \in 0..(attempts' - 1) : Pos(h, k) \in Range(selected)
  <2>1. \A k \in 0..(attempts' - 1) : k = attempts \/ k \in 0..(attempts - 1)
      BY <1>1
  <2> QED BY <1>1, <1>2, <2>1
<1>6. Probed'
    BY <1>1, <1>4, <1>5 DEF Probed, Pos
<1>7. attempts' \in Nat /\ attempts' <= n
    BY <1>1
<1>8. Len(drawn) = Len(selected) + 1 /\ Len(selected) < count
    BY <1>1 DEF SelectInv
<1> QED BY <1>1, <1>6, <1>7, <1>8, SeatsStay DEF SelectInv

\* A full round of probes has met everybody.
LEMMA GiveUpKeeps == SelectInv /\ GiveUp => SelectInv'
<1> SUFFICES ASSUME SelectInv, GiveUp PROVE SelectInv'
    OBVIOUS
<1> DEFINE n == Len(cumulative)
<1>1. /\ UNCHANGED <<cumulative, count, drawn, selected, attempts>>
      /\ pc = "probe" /\ pc' = "done" /\ attempts = n /\ cumulative \in Seq(Nat)
      /\ attempts \in Nat /\ Len(selected) < count
    BY DEF GiveUp, SelectInv
<1>2. PICK h \in BinarySearch(cumulative, drawn[Len(drawn)]) :
          \A k \in 0..(n - 1) : Pos(h, k) \in Range(selected)
    BY <1>1 DEF SelectInv, Probed
<1>3. h \in 1..n
    BY DEF BinarySearch
<1>4. 1..n \subseteq Range(selected)
    BY <1>1, <1>2, <1>3, Probing
<1> QED BY <1>1, <1>4, SeatsStay DEF SelectInv

\* The seat goes to the first free position.
LEMMA PlaceKeeps == SelectInv /\ Place => SelectInv'
<1> SUFFICES ASSUME SelectInv, Place PROVE SelectInv'
    OBVIOUS
<1> DEFINE n == Len(cumulative)
           m == Len(selected)
<1>1. /\ UNCHANGED <<cumulative, count, drawn, attempts>>
      /\ pc = "probe" /\ pc' = "draw" /\ attempts < n /\ idx \notin Range(selected)
      /\ selected' = Append(selected, idx)
      /\ cumulative \in Seq(Nat) /\ selected \in Seq(1..n) /\ attempts \in Nat
      /\ Len(drawn) = m + 1 /\ m < count /\ m \in Nat /\ n \in Nat
    BY DEF Place, Occupied, SelectInv
<1>2. PICK h \in BinarySearch(cumulative, drawn[m + 1]) :
          idx = Pos(h, attempts) /\ \A k \in 0..(attempts - 1) : Pos(h, k) \in Range(selected)
    BY <1>1 DEF SelectInv, Probed
<1>3. h \in 1..n /\ attempts \in 0..(n - 1) /\ attempts \in 0..n
    BY <1>1 DEF BinarySearch
<1>4. idx \in 1..n
    BY <1>1, <1>2, <1>3, Probing
<1>5. /\ selected' \in Seq(1..n) /\ Len(selected') = m + 1 /\ selected'[m + 1] = idx
      /\ \A i \in 1..m : selected'[i] = selected[i]
    BY <1>1, <1>4
<1>6. NextFree(n, Range(selected), h) = idx
    BY <1>1, <1>2, <1>3, ProbeFindsNextFree
<1>7. \A i \in 1..(m + 1) : {selected'[j] : j \in 1..(i - 1)} = {selected[j] : j \in 1..(i - 1)}
  <2>m. m \in Nat
      BY <1>1
  <2>0. \A i \in 1..(m + 1) : \A j \in 1..(i - 1) : j \in 1..m
    <3> HIDE DEF m
    <3> QED BY <2>m
  <2>1. \A i \in 1..(m + 1) : \A j \in 1..(i - 1) : selected'[j] = selected[j]
      BY <1>5, <2>0, Zenon
  <2> QED BY <2>1
<1>8. {selected[j] : j \in 1..m} = Range(selected)
  <2>1. DOMAIN selected = 1..m
      BY <1>1
  <2>2. Range(selected) = {selected[j] : j \in DOMAIN selected}
      BY DEF Range
  <2> QED BY <2>1, <2>2, Zenon
<1>9. ASSUME NEW i \in 1..(m + 1) PROVE Seated(i)'
  <2>1. CASE i = m + 1
    <3>1. {selected'[j] : j \in 1..(i - 1)} = Range(selected)
      <4>m. m \in Nat
          BY <1>1
      <4>1. i - 1 = m
        <5> HIDE DEF m
        <5> QED BY <2>1, <4>m
      <4> QED BY <1>7, <1>8, <1>9, <4>1
    <3>2. selected'[i] = idx
        BY <1>5, <2>1
    <3>3. h \in BinarySearch(cumulative, drawn[i])
        BY <2>1
    <3> QED BY <1>1, <1>6, <3>1, <3>2, <3>3 DEF Seated
  <2>2. CASE i # m + 1
    <3>m. m \in Nat
        BY <1>1
    <3>i. i \in 1..m
      <4> HIDE DEF m
      <4> QED BY <2>2, <3>m
    <3>1. i \in 1..m /\ selected'[i] = selected[i]
        BY <1>5, <3>i
    <3>2. Seated(i)
        BY <3>1 DEF SelectInv
    <3>3. {selected'[j] : j \in 1..(i - 1)} = {selected[j] : j \in 1..(i - 1)}
        BY <1>7, <1>9
    <3> QED BY <1>1, <3>1, <3>2, <3>3 DEF Seated
  <2> QED BY <2>1, <2>2
<1>10. IsInjective(selected')
  <2>1. \A i, j \in 1..m : selected[i] = selected[j] => i = j
    <3>1. DOMAIN selected = 1..m
        BY <1>1
    <3> QED BY <3>1 DEF SelectInv, IsInjective
  <2>2. \A i \in 1..m : selected[i] # idx
      BY <1>1 DEF Range
  <2>3. DOMAIN selected' = 1..(m + 1)
      BY <1>5
  <2>4. ASSUME NEW i \in 1..(m + 1), NEW j \in 1..(m + 1), selected'[i] = selected'[j]
        PROVE  i = j
    <3>1. (i \in 1..m \/ i = m + 1) /\ (j \in 1..m \/ j = m + 1)
        BY <1>1
    <3> HIDE DEF m
    <3> QED BY <1>5, <2>1, <2>2, <2>4, <3>1
  <2> QED BY <2>3, <2>4 DEF IsInjective
<1> QED BY <1>1, <1>5, <1>9, <1>10 DEF SelectInv

\* Every step of the loops keeps the invariant.
LEMMA StepSelect == SelectInv /\ [SelectNext]_selectVars => SelectInv'
<1> SUFFICES ASSUME SelectInv, [SelectNext]_selectVars PROVE SelectInv'
    OBVIOUS
<1>1. CASE ReturnNothing
  <2>1. /\ UNCHANGED <<cumulative, count, drawn, selected, attempts>>
        /\ pc' = "done" /\ Refused' /\ attempts \in Nat
      BY <1>1 DEF ReturnNothing, Refused, SelectInv
  <2> QED BY <2>1, SeatsStay DEF SelectInv
<1>2. CASE Finish
  <2>1. /\ UNCHANGED <<cumulative, count, drawn, selected, attempts>>
        /\ pc' = "done" /\ Len(selected) = count /\ attempts \in Nat
      BY <1>2 DEF Finish, SelectInv
  <2> QED BY <2>1, SeatsStay DEF SelectInv
<1>3. CASE UNCHANGED selectVars
  <2>1. UNCHANGED <<cumulative, count, drawn, selected, idx, attempts, pc>>
      BY <1>3 DEF selectVars
  <2> QED BY <2>1 DEF SelectInv, Seated, Probed, Pos, Refused
<1> QED BY <1>1, <1>2, <1>3, DrawKeeps, ProbeKeeps, GiveUpKeeps, PlaceKeeps DEF SelectNext

LEMMA SelectInvariant == SelectSpec => []SelectInv
BY InitSelect, StepSelect, PTL DEF SelectSpec

\* weighted_select seats different members, for pools of any length: as many as
\* asked for, or all of them when there are fewer.
LEMMA SelectionSeatsAll ==
    ASSUME SelectInv, pc = "done", ~Refused
    PROVE  Len(selected) = IF count <= Len(cumulative) THEN count ELSE Len(cumulative)
<1> DEFINE n == Len(cumulative)
           m == Len(selected)
<1>0. /\ cumulative \in Seq(Nat) /\ selected \in Seq(1..Len(cumulative))
      /\ count \in Nat
    BY DEF SelectInv
<1>1. n \in Nat /\ m \in Nat /\ count \in Nat /\ selected \in [1..m -> 1..n]
    BY <1>0
<1>2. m <= n
    BY <1>1, SeatsBounded DEF SelectInv
<1>3. m = count \/ (m < count /\ n <= m)
    BY <1>1, SeatsBounded DEF SelectInv
<1>4. n \in Nat /\ m \in Nat /\ count \in Nat
    BY <1>1
<1> HIDE DEF n, m
<1>5. m = IF count <= n THEN count ELSE n
    BY <1>2, <1>3, <1>4
<1> QED BY <1>5 DEF n, m

\* The running sums of the pool never decrease.
SumsOrdered ==
    \A i, j \in 1..Len(cumulative) : i <= j => cumulative[i] <= cumulative[j]

LEMMA AlwaysOrdered == SelectSpec => []SumsOrdered
<1>1. SelectInit => SumsOrdered
  <2> SUFFICES ASSUME SelectInit PROVE SumsOrdered
      OBVIOUS
  <2>1. PICK s \in UNION {[1..n -> Stakes] : n \in 0..MaxPool} : cumulative = CumulativeStakes(s)
      BY DEF SelectInit
  <2>2. s \in Seq(Nat)
    <3>1. PICK n \in 0..MaxPool : s \in [1..n -> Stakes]
        BY <2>1
    <3>2. n \in Nat
        BY SelectAssumption
    <3>3. s \in [1..n -> Nat]
        BY <3>1, SelectAssumption, Zenon
    <3> QED BY <3>2, <3>3
  <2> QED BY <2>1, <2>2, SumsGrow DEF SumsOrdered
<1>2. SumsOrdered /\ [SelectNext]_selectVars => SumsOrdered'
  <2> SUFFICES ASSUME SumsOrdered, [SelectNext]_selectVars PROVE SumsOrdered'
      OBVIOUS
  <2>1. cumulative' = cumulative
      BY DEF SelectNext, ReturnNothing, Draw, Probe, GiveUp, Place, Finish, selectVars
  <2> QED BY <2>1 DEF SumsOrdered
<1> QED BY <1>1, <1>2, PTL DEF SelectSpec

\* Where the binary search lands, the running sums first reach the offset.
LEMMA SearchFindsFirst ==
    ASSUME cumulative \in Seq(Nat), SumsOrdered, NEW r \in Int,
           NEW h \in BinarySearch(cumulative, r)
    PROVE  h \in DOMAIN cumulative /\ FirstToReach(r, h)
<1> DEFINE n == Len(cumulative)
<1>1. DOMAIN cumulative = 1..n /\ n \in Nat /\ \A k \in 1..n : cumulative[k] \in Nat
    OBVIOUS
<1>2. /\ h \in 1..n
      /\ \/ cumulative[h] = r
         \/ cumulative[h] > r /\ \A j \in 1..(h - 1) : cumulative[j] < r
    BY DEF BinarySearch
<1>3. \A i, j \in 1..n : i <= j => cumulative[i] <= cumulative[j]
    BY DEF SumsOrdered
<1> HIDE DEF n
<1>4. cumulative[h] >= r
    BY <1>1, <1>2
<1>5. ASSUME NEW j \in 1..n, cumulative[j] >= r PROVE cumulative[h] <= cumulative[j]
  <2>0. cumulative[j] \in Nat /\ cumulative[h] \in Nat
      BY <1>1, <1>2
  <2>1. CASE cumulative[h] = r
      BY <1>5, <2>0, <2>1
  <2>2. CASE cumulative[h] # r
    <3>1. j \notin 1..(h - 1)
        BY <1>2, <1>5, <2>0, <2>2
    <3>2. h <= j
        BY <1>1, <1>2, <3>1
    <3> QED BY <1>2, <1>3, <3>2
  <2> QED BY <2>1, <2>2
<1> QED BY <1>1, <1>2, <1>4, <1>5 DEF FirstToReach

\* The loops of weighted_select fill the seats as ArbitratorSelection says, for
\* every pool and every VRF result: with different members, as many as asked for
\* or all there are, seat by seat the first free member from the one whose running
\* stake first reaches the offset. Where the binary search lands needs the sums to
\* be ordered.
THEOREM SelectionAlwaysExplained == SelectSpec => []SelectionExplained
<1>1. SelectInv /\ SumsOrdered => SelectionExplained
  <2> SUFFICES ASSUME SelectInv, SumsOrdered, pc = "done", ~Refused
               PROVE  /\ IsInjective(selected)
                      /\ Len(selected) = IF count <= Len(cumulative) THEN count ELSE Len(cumulative)
                      /\ selected \in Selections(cumulative, Len(selected))
                      /\ \A i \in 1..Len(selected) : \E h \in DOMAIN cumulative :
                            /\ FirstToReach(drawn[i], h)
                            /\ selected[i] = NextFree(Len(cumulative), {selected[j] : j \in 1..(i - 1)}, h)
      BY DEF SelectionExplained
  <2>0. /\ cumulative \in Seq(Nat) /\ selected \in Seq(1..Len(cumulative))
        /\ IsInjective(selected)
      BY DEF SelectInv
  <2>1. PICK m \in Nat : m = Len(selected)
      BY <2>0
  <2>2. selected \in [1..m -> 1..Len(cumulative)]
      BY <2>0, <2>1
  <2>4. \A i \in 1..m : Seated(i) /\ drawn[i] \in 0..(TotalStake(cumulative) - 1)
      BY <2>1 DEF SelectInv
  <2>6. selected \in Selections(cumulative, m)
      BY <2>2, <2>4 DEF Selections, Seated
  <2>7. ASSUME NEW i \in 1..m
        PROVE  \E h \in DOMAIN cumulative :
                  /\ FirstToReach(drawn[i], h)
                  /\ selected[i] = NextFree(Len(cumulative), {selected[j] : j \in 1..(i - 1)}, h)
    <3>1. PICK h \in BinarySearch(cumulative, drawn[i]) :
              selected[i] = NextFree(Len(cumulative), {selected[j] : j \in 1..(i - 1)}, h)
        BY <2>4 DEF Seated
    <3>2. drawn[i] \in Int
        BY <2>4
    <3>3. h \in DOMAIN cumulative /\ FirstToReach(drawn[i], h)
        BY <2>0, <3>2, SearchFindsFirst
    <3> QED BY <3>1, <3>3
  <2> QED BY <2>0, <2>1, <2>6, <2>7, SelectionSeatsAll
<1> QED BY <1>1, SelectInvariant, AlwaysOrdered, PTL

-----------------------------------------------------------------------------
(* Types *)

\* The pool has one running sum per member, so that a selected position always
\* names a member.
PoolAligned == Len(pool.arbs) = Len(pool.cum)

TypeInv == TypeOK /\ PoolAligned

\* What reveal_vote writes: the ballot it reveals, and no other.
LEMMA RevealedBallot ==
    ASSUME TypeInv, NEW c \in Cases, NEW a \in Arbitrators, RevealVote(c, a)
    PROVE  /\ vote'[c][dc[c].round][a] = [vote[c][dc[c].round][a] EXCEPT !.revealed = TRUE,
                                                                        !.weight = arb[a].stake]
           /\ \A x \in Cases \ {c} : vote'[x] = vote[x]
           /\ \A r \in Rounds : \A b \in Arbitrators :
                  (r # dc[c].round \/ b # a) => vote'[c][r][b] = vote[c][r][b]
<1> DEFINE k == dc[c].round
           w == arb[a].stake
<1>1. vote' = [vote EXCEPT ![c][k][a].revealed = TRUE, ![c][k][a].weight = w]
    BY Zenon DEF RevealVote
<1>2. vote \in [Cases -> [Rounds -> [Arbitrators -> DisputeVoteRecord]]]
    BY DEF TypeInv, TypeOK
<1>3. k \in Rounds
    BY DEF TypeInv, TypeOK, DisputeCase
<1> HIDE DEF k, w
<1>4. \A x \in Cases \ {c} : vote'[x] = vote[x]
    BY <1>1, <1>2
<1> DEFINE ballots == vote[c]
<1>5. ballots \in [Rounds -> [Arbitrators -> DisputeVoteRecord]]
    BY <1>2
<1>6. vote'[c] = [ballots EXCEPT ![k][a].revealed = TRUE, ![k][a].weight = w]
    BY <1>1, <1>2
<1> HIDE DEF ballots
<1>7. \A r \in Rounds \ {k} : vote'[c][r] = ballots[r]
    BY <1>5, <1>6
<1> DEFINE row == ballots[k]
<1>8. row \in [Arbitrators -> DisputeVoteRecord]
    BY <1>3, <1>5
<1>9. vote'[c][k] = [row EXCEPT ![a].revealed = TRUE, ![a].weight = w]
    BY <1>3, <1>5, <1>6
<1> HIDE DEF row
<1>10. /\ \A b \in Arbitrators \ {a} : vote'[c][k][b] = row[b]
       /\ vote'[c][k][a] = [row[a] EXCEPT !.revealed = TRUE, !.weight = w]
    BY <1>8, <1>9
<1>11. \A r \in Rounds : \A b \in Arbitrators :
           (r # k \/ b # a) => vote'[c][r][b] = vote[c][r][b]
    BY <1>7, <1>10 DEF row, ballots
<1>12. vote'[c][k][a] = [vote[c][k][a] EXCEPT !.revealed = TRUE, !.weight = w]
    BY <1>10 DEF row, ballots
<1> QED BY <1>4, <1>11, <1>12 DEF k, w

\* The same field by field.
LEMMA RevealedFields ==
    ASSUME TypeInv, NEW c \in Cases, NEW a \in Arbitrators, RevealVote(c, a)
    PROVE  /\ vote'[c][dc[c].round][a].live = vote[c][dc[c].round][a].live
           /\ vote'[c][dc[c].round][a].commit = vote[c][dc[c].round][a].commit
           /\ vote'[c][dc[c].round][a].revealed = TRUE
           /\ vote'[c][dc[c].round][a].weight = arb[a].stake
<1> DEFINE old == vote[c][dc[c].round][a]
           w == arb[a].stake
<1>1. old \in DisputeVoteRecord
  <2>1. dc[c].round \in Rounds
      BY DEF TypeInv, TypeOK, DisputeCase
  <2> QED BY <2>1 DEF TypeInv, TypeOK
<1>2. vote'[c][dc[c].round][a] = [old EXCEPT !.revealed = TRUE, !.weight = w]
    BY RevealedBallot, Zenon
<1>3. \A r \in DisputeVoteRecord :
          /\ [r EXCEPT !.revealed = TRUE, !.weight = w].live = r.live
          /\ [r EXCEPT !.revealed = TRUE, !.weight = w].commit = r.commit
          /\ [r EXCEPT !.revealed = TRUE, !.weight = w].revealed = TRUE
          /\ [r EXCEPT !.revealed = TRUE, !.weight = w].weight = w
    BY DEF DisputeVoteRecord
<1> HIDE DEF old, w
<1>4. /\ vote'[c][dc[c].round][a].live = old.live
      /\ vote'[c][dc[c].round][a].commit = old.commit
      /\ vote'[c][dc[c].round][a].revealed = TRUE
      /\ vote'[c][dc[c].round][a].weight = w
    BY <1>1, <1>2, <1>3
<1> QED BY <1>4 DEF old, w

\* The case that reveal_vote counts the ballot in.
LEMMA RevealedCase ==
    ASSUME TypeInv, NEW c \in Cases, NEW a \in Arbitrators, RevealVote(c, a)
    PROVE  /\ dc'[c].status = "Revealing"
           /\ dc'[c].round = dc[c].round /\ dc'[c].arbs = dc[c].arbs
           /\ dc'[c].votes = [dc[c].votes EXCEPT ![vote[c][dc[c].round][a].commit] =
                                                     @ + arb[a].stake]
           /\ dc'[c].total = dc[c].total + arb[a].stake
<1> DEFINE v == vote[c][dc[c].round][a].commit
           w == arb[a].stake
           old == dc[c]
           q == [old.votes EXCEPT ![v] = old.votes[v] + w]
           n == old.total + w
<1>1. dc' = [dc EXCEPT ![c].status = "Revealing", ![c].votes[v] = @ + w, ![c].total = @ + w]
    BY Zenon DEF RevealVote
<1>2. dc \in [Cases -> DisputeCase]
    BY DEF TypeInv, TypeOK
<1> HIDE DEF v, w
<1>3. old \in DisputeCase
    BY <1>2
<1>4. dc'[c] = [old EXCEPT !.status = "Revealing", !.votes = q, !.total = n]
    BY <1>1, <1>2
<1>5. \A r \in DisputeCase : \A m, z :
          /\ [r EXCEPT !.status = "Revealing", !.votes = m, !.total = z].status = "Revealing"
          /\ [r EXCEPT !.status = "Revealing", !.votes = m, !.total = z].round = r.round
          /\ [r EXCEPT !.status = "Revealing", !.votes = m, !.total = z].arbs = r.arbs
          /\ [r EXCEPT !.status = "Revealing", !.votes = m, !.total = z].votes = m
          /\ [r EXCEPT !.status = "Revealing", !.votes = m, !.total = z].total = z
    BY DEF DisputeCase
<1> HIDE DEF old, q, n
<1>6. /\ dc'[c].status = "Revealing" /\ dc'[c].round = old.round /\ dc'[c].arbs = old.arbs
      /\ dc'[c].votes = q /\ dc'[c].total = n
    BY <1>3, <1>4, <1>5
<1>7. q = [dc[c].votes EXCEPT ![v] = @ + w] /\ n = dc[c].total + w
    BY DEF old, q, n
<1>8. /\ dc'[c].status = "Revealing" /\ dc'[c].round = dc[c].round /\ dc'[c].arbs = dc[c].arbs
      /\ dc'[c].votes = [dc[c].votes EXCEPT ![v] = @ + w] /\ dc'[c].total = dc[c].total + w
    BY <1>6, <1>7, Zenon DEF old
<1> QED BY <1>8, Zenon DEF v, w

\* A share of the stake in basis points is a natural.
LEMMA ShareType == \A x, y \in Nat : (x * y) \div BPS_DENOMINATOR \in Nat
<1> SUFFICES ASSUME NEW x \in Nat, NEW y \in Nat
             PROVE  (x * y) \div BPS_DENOMINATOR \in Nat
    OBVIOUS
<1> DEFINE z == x * y
<1>1. z \in Nat
    OBVIOUS
<1> HIDE DEF z
<1>2. z \div 10000 \in Nat
    BY <1>1
<1> QED BY <1>2 DEF z, BPS_DENOMINATOR

LEMMA EmptyTypes ==
    /\ NoArbitrator \in ArbitratorAccount
    /\ NoCase \in DisputeCase
    /\ NoVote \in DisputeVoteRecord
    /\ NoSlash \in PendingSlash
<1>1. NoArbitrator \in ArbitratorAccount
    BY DEF NoArbitrator, ArbitratorAccount, ArbitratorStatus
<1>2. NoVotes \in [Verdicts -> Nat]
    BY DEF NoVotes
<1>3. NoCase \in DisputeCase
    BY <1>2 DEF NoCase, DisputeCase, DisputeStatus, Rounds
<1>4. NoVote \in DisputeVoteRecord
    BY DEF NoVote, DisputeVoteRecord
<1>5. NoSlash \in PendingSlash
    BY DEF NoSlash, PendingSlash
<1> QED BY <1>1, <1>3, <1>4, <1>5

LEMMA InitType == Init => TypeInv
<1> SUFFICES ASSUME Init PROVE TypeInv
    OBVIOUS
<1> USE DisputeAssumption
<1>1. pool \in DisputePool /\ PoolAligned
    BY DEF Init, DisputePool, PoolAligned
<1>2. TypeOK
    BY <1>1, EmptyTypes DEF Init, NothingRaised, TypeOK
<1> QED BY <1>1, <1>2 DEF TypeInv

\* The registry keeps the types.
LEMMA ArbitratorType ==
    ASSUME TypeInv, NEW a \in Arbitrators, ArbitratorStep(a)
    PROVE  TypeInv'
<1> USE DisputeAssumption
<1>0. arb[a] \in ArbitratorAccount /\ now \in Nat
    BY DEF TypeInv, TypeOK
<1>1. ASSUME NEW s \in StakeClaims, NEW l \in LockClaims, RegisterArbitrator(a, s, l)
      PROVE  arb' \in [Arbitrators -> ArbitratorAccount]
  <2>1. [NoArbitrator EXCEPT !.status = "Active", !.stake = s] \in ArbitratorAccount
      BY DEF NoArbitrator, ArbitratorAccount, ArbitratorStatus
  <2> QED BY <1>1, <2>1 DEF RegisterArbitrator, TypeInv, TypeOK
<1>2. ASSUME NEW s \in StakeClaims, RefreshStake(a, s)
      PROVE  arb' \in [Arbitrators -> ArbitratorAccount]
  <2>1. \A r \in ArbitratorAccount, b \in BOOLEAN :
            [r EXCEPT !.stake = s, !.status = IF b THEN "Paused" ELSE @] \in ArbitratorAccount
      BY DEF ArbitratorAccount, ArbitratorStatus
  <2> QED BY <1>0, <1>2, <2>1 DEF RefreshStake, TypeInv, TypeOK
<1>3. ASSUME BeginWithdraw(a)
      PROVE  arb' \in [Arbitrators -> ArbitratorAccount]
  <2>1. \A r \in ArbitratorAccount, n \in Nat :
            [r EXCEPT !.status = "Withdrawing", !.unlock = n] \in ArbitratorAccount
      BY DEF ArbitratorAccount, ArbitratorStatus
  <2>2. now + ROUND2_WINDOW_SECS \in Nat
      BY <1>0
  <2>3. [arb[a] EXCEPT !.status = "Withdrawing", !.unlock = now + ROUND2_WINDOW_SECS]
            \in ArbitratorAccount
      BY <1>0, <2>1, <2>2
  <2> QED BY <1>3, <2>3 DEF BeginWithdraw, TypeInv, TypeOK
<1>4. ASSUME CompleteWithdraw(a)
      PROVE  arb' \in [Arbitrators -> ArbitratorAccount]
    BY <1>4, EmptyTypes DEF CompleteWithdraw, TypeInv, TypeOK
<1>5. arb' \in [Arbitrators -> ArbitratorAccount] /\ UnchangedByRegistry
    BY <1>1, <1>2, <1>3, <1>4
       DEF ArbitratorStep, RegisterArbitrator, RefreshStake, BeginWithdraw, CompleteWithdraw
<1> QED BY <1>5 DEF UnchangedByRegistry, TypeInv, TypeOK, PoolAligned

\* What may happen to a case; the parties that raise_dispute names are keys.
CaseSteps(c) ==
    \/ \E client, operator \in Parties : RaiseDispute(c, client, operator)
    \/ ConsumeVrf(c)
    \/ CancelStaleVrf(c)
    \/ \E a \in Arbitrators, v \in Verdicts : CommitVote(c, a, v)
    \/ \E a \in Arbitrators : RevealVote(c, a)
    \/ TallyRound(c)
    \/ \E p \in Parties : EscalateAppeal(c, p)
    \/ ResolveDispute(c)

LEMMA StepsOfCase ==
    ASSUME NEW c \in Cases, CaseStep(c)
    PROVE  CaseSteps(c)
<1>1. \A p \in PartyChoices : p[1] \in Parties /\ p[2] \in Parties
    BY DisputeAssumption
<1>2. ASSUME NEW p \in PartyChoices, RaiseDispute(c, p[1], p[2])
      PROVE  \E client, operator \in Parties : RaiseDispute(c, client, operator)
    BY <1>1, <1>2, Zenon
<1> QED BY <1>2, Zenon DEF CaseStep, CaseSteps

\* The members a draw seats are arbitrators.
LEMMA BenchType ==
    ASSUME TypeInv, NEW n, NEW sel \in Selections(pool.cum, n)
    PROVE  {pool.arbs[sel[i]] : i \in DOMAIN sel} \subseteq Arbitrators
<1>1. sel \in [1..n -> 1..Len(pool.cum)]
    BY DEF Selections
<1>2. pool.arbs \in Seq(Arbitrators) /\ Len(pool.arbs) = Len(pool.cum)
    BY DEF TypeInv, TypeOK, DisputePool, PoolAligned
<1> QED BY <1>1, <1>2

\* Everything that happens to a case keeps the types.
LEMMA CaseType ==
    ASSUME TypeInv, NEW c \in Cases, CaseStep(c)
    PROVE  TypeInv'
<1> USE DisputeAssumption
<1>0. /\ dc[c] \in DisputeCase /\ dc[c].round \in Rounds
      /\ dc[c].votes \in [Verdicts -> Nat] /\ dc[c].total \in Nat
      /\ now \in Nat /\ nextCase \in Nat /\ params \in ParamRecord
      /\ vote[c] \in [Rounds -> [Arbitrators -> DisputeVoteRecord]]
    BY DEF TypeInv, TypeOK, DisputeCase
<1>p. params.commitWindow \in Int /\ params.revealWindow \in Int
    BY <1>0 DEF ParamRecord
<1> DEFINE CasesTyped == /\ dc' \in [Cases -> DisputeCase]
                         /\ vote' \in [Cases -> [Rounds -> [Arbitrators -> DisputeVoteRecord]]]
                         /\ appeal' \in [Cases -> Parties \cup {None}]
                         /\ nextCase' \in Nat
                         /\ UnchangedByCase
<1>s. \A s \in DisputeStatus : [dc[c] EXCEPT !.status = s] \in DisputeCase
    BY <1>0 DEF DisputeCase
<1>1. ASSUME NEW client \in Parties, NEW operator \in Parties, RaiseDispute(c, client, operator)
      PROVE  CasesTyped
  <2>1. [NoCase EXCEPT !.status = "RequestedVrf", !.client = client, !.operator = operator,
                       !.createdAt = now] \in DisputeCase
      BY <1>0, EmptyTypes DEF DisputeCase, DisputeStatus
  <2> QED BY <1>0, <1>1, <2>1 DEF RaiseDispute, TypeInv, TypeOK
<1>2. ASSUME ConsumeVrf(c)
      PROVE  CasesTyped
  <2>1. PICK sel \in Selections(pool.cum, RoundSize(c)) :
            dc' = [dc EXCEPT ![c].status = "Committing",
                             ![c].arbs = {pool.arbs[sel[i]] : i \in DOMAIN sel},
                             ![c].commitDeadline = now + params.commitWindow,
                             ![c].revealDeadline = now + params.commitWindow
                                                       + params.revealWindow,
                             ![c].votes = NoVotes,
                             ![c].total = 0,
                             ![c].verdict = None]
      BY <1>2 DEF ConsumeVrf
  <2> DEFINE bench == {pool.arbs[sel[i]] : i \in DOMAIN sel}
  <2>2. bench \in SUBSET Arbitrators
      BY BenchType
  <2>3. NoVotes \in [Verdicts -> Nat]
      BY DEF NoVotes
  <2> HIDE DEF bench
  <2>4. \A r \in DisputeCase, m, n \in Int :
            [r EXCEPT !.status = "Committing", !.arbs = bench, !.commitDeadline = m,
                      !.revealDeadline = n, !.votes = NoVotes, !.total = 0,
                      !.verdict = None] \in DisputeCase
    <3>1. \A r \in DisputeCase : \A m, n \in Int :
              [r EXCEPT !.status = "Committing", !.arbs = bench, !.commitDeadline = m,
                        !.revealDeadline = n] \in DisputeCase
        BY <2>2 DEF DisputeCase, DisputeStatus
    <3>2. \A r \in DisputeCase :
              [r EXCEPT !.votes = NoVotes, !.total = 0, !.verdict = None] \in DisputeCase
        BY <2>3 DEF DisputeCase
    <3> SUFFICES ASSUME NEW r \in DisputeCase, NEW m \in Int, NEW n \in Int
                 PROVE  [r EXCEPT !.status = "Committing", !.arbs = bench, !.commitDeadline = m,
                                  !.revealDeadline = n, !.votes = NoVotes, !.total = 0,
                                  !.verdict = None] \in DisputeCase
        OBVIOUS
    <3> DEFINE called == [r EXCEPT !.status = "Committing", !.arbs = bench,
                                   !.commitDeadline = m, !.revealDeadline = n]
    <3>3. called \in DisputeCase
        BY <3>1, Zenon
    <3>4. [called EXCEPT !.votes = NoVotes, !.total = 0, !.verdict = None] \in DisputeCase
      <4> HIDE DEF called
      <4> QED BY <3>2, <3>3, Zenon
    <3> QED BY <3>4
  <2> DEFINE m == now + params.commitWindow
             n == now + params.commitWindow + params.revealWindow
             new == [dc[c] EXCEPT !.status = "Committing", !.arbs = bench,
                                  !.commitDeadline = m, !.revealDeadline = n,
                                  !.votes = NoVotes, !.total = 0, !.verdict = None]
  <2>6. m \in Int /\ n \in Int
      BY <1>0, <1>p
  <2>7. dc' = [dc EXCEPT ![c] = new]
      BY <2>1 DEF bench, TypeInv, TypeOK
  <2> HIDE DEF m, n
  <2>8. new \in DisputeCase
      BY <1>0, <2>4, <2>6
  <2>5. dc' \in [Cases -> DisputeCase]
      BY <2>7, <2>8 DEF TypeInv, TypeOK
  <2> QED BY <1>0, <1>2, <2>5 DEF ConsumeVrf, TypeInv, TypeOK
<1>3. ASSUME CancelStaleVrf(c)
      PROVE  CasesTyped
    BY <1>0, <1>3, <1>s DEF CancelStaleVrf, DisputeStatus, TypeInv, TypeOK
<1>4. ASSUME NEW a \in Arbitrators, NEW v \in Verdicts, CommitVote(c, a, v)
      PROVE  CasesTyped
  <2>2. [NoVote EXCEPT !.live = TRUE, !.commit = v] \in DisputeVoteRecord
      BY DEF NoVote, DisputeVoteRecord
  <2>3. vote' \in [Cases -> [Rounds -> [Arbitrators -> DisputeVoteRecord]]]
      BY <1>0, <1>4, <2>2 DEF CommitVote, TypeInv, TypeOK
  <2> QED BY <1>0, <1>4, <2>3 DEF CommitVote, TypeInv, TypeOK
<1>5. ASSUME NEW a \in Arbitrators, RevealVote(c, a)
      PROVE  CasesTyped
  <2> DEFINE rec == vote[c][dc[c].round][a]
             w == arb[a].stake
  <2>1. w \in Nat
      BY DEF TypeInv, TypeOK, ArbitratorAccount
  <2>2. rec \in DisputeVoteRecord
      BY <1>0
  <2>3. [rec EXCEPT !.revealed = TRUE, !.weight = w] \in DisputeVoteRecord
      BY <2>1, <2>2 DEF DisputeVoteRecord
  <2>4. vote' = [vote EXCEPT ![c][dc[c].round][a] =
                                 [rec EXCEPT !.revealed = TRUE, !.weight = w]]
    <3>1. vote' = [vote EXCEPT ![c][dc[c].round][a].revealed = TRUE,
                               ![c][dc[c].round][a].weight = w]
        BY <1>5, Zenon DEF RevealVote
    <3>2. vote \in [Cases -> [Rounds -> [Arbitrators -> DisputeVoteRecord]]]
        BY DEF TypeInv, TypeOK
    <3> HIDE DEF w
    <3> QED BY <1>0, <3>1, <3>2
  <2>5. vote' \in [Cases -> [Rounds -> [Arbitrators -> DisputeVoteRecord]]]
      BY <1>0, <2>3, <2>4 DEF TypeInv, TypeOK
  <2>6. [dc[c].votes EXCEPT ![rec.commit] = @ + w] \in [Verdicts -> Nat]
    <3>1. ASSUME NEW q \in [Verdicts -> Nat], NEW v, NEW n \in Nat
          PROVE  [q EXCEPT ![v] = q[v] + n] \in [Verdicts -> Nat]
      <4>1. \A u \in Verdicts : [q EXCEPT ![v] = q[v] + n][u] \in Nat
          OBVIOUS
      <4> QED BY <4>1
    <3> QED BY <1>0, <2>1, <3>1
  <2>7. \A q \in [Verdicts -> Nat], n \in Nat :
            [dc[c] EXCEPT !.status = "Revealing", !.votes = q, !.total = n] \in DisputeCase
      BY <1>0 DEF DisputeCase, DisputeStatus
  <2>8. dc' = [dc EXCEPT ![c] =
                  [dc[c] EXCEPT !.status = "Revealing",
                                !.votes = [dc[c].votes EXCEPT ![rec.commit] = @ + w],
                                !.total = dc[c].total + w]]
    <3>1. dc' = [dc EXCEPT ![c].status = "Revealing", ![c].votes[rec.commit] = @ + w,
                           ![c].total = @ + w]
        BY <1>5 DEF RevealVote
    <3> HIDE DEF rec, w
    <3>2. dc \in [Cases -> DisputeCase]
        BY DEF TypeInv, TypeOK
    <3> QED BY <3>1, <3>2
  <2>9. dc' \in [Cases -> DisputeCase]
    <3>1. dc[c].total + w \in Nat
        BY <1>0, <2>1
    <3>2. [dc[c] EXCEPT !.status = "Revealing",
                        !.votes = [dc[c].votes EXCEPT ![rec.commit] = @ + w],
                        !.total = dc[c].total + w] \in DisputeCase
        BY <2>6, <2>7, <3>1
    <3> QED BY <2>8, <3>2 DEF TypeInv, TypeOK
  <2> QED BY <1>0, <1>5, <2>5, <2>9 DEF RevealVote, TypeInv, TypeOK
<1>6. ASSUME TallyRound(c)
      PROVE  CasesTyped
  <2>1. \A v \in Verdicts \cup {None} :
            [dc[c] EXCEPT !.verdict = v, !.status = "Tallied"] \in DisputeCase
      BY <1>0 DEF DisputeCase, DisputeStatus
  <2>2. [dc[c] EXCEPT !.round = 2, !.status = "Appealed"] \in DisputeCase
      BY <1>0 DEF DisputeCase, DisputeStatus, Rounds
  <2>3. Winners(c) \subseteq Verdicts
      BY DEF Winners
  <2>4. dc' \in [Cases -> DisputeCase]
    <3>1. \/ \E v \in Verdicts \cup {None} :
                dc' = [dc EXCEPT ![c] = [dc[c] EXCEPT !.verdict = v, !.status = "Tallied"]]
          \/ dc' = [dc EXCEPT ![c] = [dc[c] EXCEPT !.round = 2, !.status = "Appealed"]]
        BY <1>6, <2>3 DEF TallyRound, TypeInv, TypeOK
    <3> QED BY <2>1, <2>2, <3>1 DEF TypeInv, TypeOK
  <2> QED BY <1>0, <1>6, <2>4 DEF TallyRound, TypeInv, TypeOK
<1>7. ASSUME NEW p \in Parties, EscalateAppeal(c, p)
      PROVE  CasesTyped
  <2>1. [dc[c] EXCEPT !.status = "Appealed", !.round = 2] \in DisputeCase
      BY <1>0 DEF DisputeCase, DisputeStatus, Rounds
  <2> QED BY <1>0, <1>7, <2>1 DEF EscalateAppeal, TypeInv, TypeOK
<1>8. ASSUME ResolveDispute(c)
      PROVE  CasesTyped
    BY <1>0, <1>8, <1>s DEF ResolveDispute, DisputeStatus, TypeInv, TypeOK
<1>9. CasesTyped
    BY <1>1, <1>2, <1>3, <1>4, <1>5, <1>6, <1>7, <1>8, StepsOfCase DEF CaseSteps
<1> QED BY <1>9 DEF UnchangedByCase, TypeInv, TypeOK, PoolAligned

\* Slashing keeps the types.
LEMMA SlashType ==
    ASSUME TypeInv, NEW a \in Arbitrators, SlashStep(a)
    PROVE  TypeInv'
<1> USE DisputeAssumption
<1>0. /\ arb[a] \in ArbitratorAccount /\ arb[a].stake \in Nat /\ arb[a].strikes \in Nat
      /\ params.maxSlashBps \in Nat /\ params.slashTimelock \in Int
      /\ now \in Nat /\ slashes \in Nat
      /\ pending[a] \in PendingSlash /\ pending[a].amount \in Nat
    BY DEF TypeInv, TypeOK, ArbitratorAccount, ParamRecord, PendingSlash
<1>a. \A s \in ArbitratorStatus, n \in Nat :
          /\ [arb[a] EXCEPT !.status = s] \in ArbitratorAccount
          /\ [arb[a] EXCEPT !.status = s, !.strikes = n] \in ArbitratorAccount
    BY <1>0 DEF ArbitratorAccount
<1> DEFINE SlashTyped == /\ arb' \in [Arbitrators -> ArbitratorAccount]
                         /\ pending' \in [Arbitrators -> PendingSlash]
                         /\ slashes' \in Nat
                         /\ UnchangedBySlash
<1>1. ASSUME NEW c \in Cases, SlashArbitrator(a, c)
      PROVE  SlashTyped
  <2>1. SlashAmount(a) \in Nat
    <3>1. (arb[a].stake * params.maxSlashBps) \div BPS_DENOMINATOR \in Nat
        BY <1>0, ShareType
    <3> QED BY <1>0, <3>1 DEF SlashAmount
  <2>2. c \in Nat
      BY DEF Cases
  <2>3. [live |-> TRUE, case |-> c, amount |-> SlashAmount(a),
         executableAt |-> now + params.slashTimelock] \in PendingSlash
      BY <1>0, <2>1, <2>2 DEF PendingSlash
  <2>4. arb' \in [Arbitrators -> ArbitratorAccount]
    <3>1. \A n \in Nat : (IF n < MAX_STRIKES THEN n + 1 ELSE n) \in Nat
        OBVIOUS
    <3>2. arb' = [arb EXCEPT ![a] = [arb[a] EXCEPT !.status = "Paused",
                     !.strikes = IF arb[a].strikes < MAX_STRIKES THEN arb[a].strikes + 1
                                                                  ELSE arb[a].strikes]]
        BY <1>0, <1>1 DEF SlashArbitrator, TypeInv, TypeOK
    <3> DEFINE more == IF arb[a].strikes < MAX_STRIKES THEN arb[a].strikes + 1
                                                        ELSE arb[a].strikes
    <3>3. more \in Nat
        BY <1>0, <3>1
    <3>4. "Paused" \in ArbitratorStatus
        BY DEF ArbitratorStatus
    <3> HIDE DEF more
    <3>5. [arb[a] EXCEPT !.status = "Paused", !.strikes = more] \in ArbitratorAccount
        BY <1>a, <3>3, <3>4
    <3>6. arb' = [arb EXCEPT ![a] = [arb[a] EXCEPT !.status = "Paused", !.strikes = more]]
        BY <3>2 DEF more
    <3>7. arb \in [Arbitrators -> ArbitratorAccount]
        BY DEF TypeInv, TypeOK
    <3> QED BY <3>5, <3>6, <3>7
  <2> DEFINE held == [live |-> TRUE, case |-> c, amount |-> SlashAmount(a),
                      executableAt |-> now + params.slashTimelock]
  <2>5. pending' = [pending EXCEPT ![a] = held] /\ UnchangedBySlash /\ slashes' = slashes + 1
      BY <1>1 DEF SlashArbitrator
  <2>6. pending \in [Arbitrators -> PendingSlash]
      BY DEF TypeInv, TypeOK
  <2>7. held \in PendingSlash
      BY <2>3
  <2> HIDE DEF held
  <2>8. pending' \in [Arbitrators -> PendingSlash]
      BY <2>5, <2>6, <2>7
  <2>9. slashes' \in Nat
      BY <1>0, <2>5
  <2> QED BY <2>4, <2>5, <2>8, <2>9
<1>2. ASSUME ExecuteSlash(a)
      PROVE  SlashTyped
  <2>1. arb' \in [Arbitrators -> ArbitratorAccount]
      BY <1>2, <1>a DEF ExecuteSlash, ArbitratorStatus, TypeInv, TypeOK
  <2> QED BY <1>0, <1>2, <2>1, EmptyTypes DEF ExecuteSlash, TypeInv, TypeOK
<1>3. ASSUME CancelSlash(a)
      PROVE  SlashTyped
  <2>1. arb' \in [Arbitrators -> ArbitratorAccount]
    <3>1. \A n \in Nat : (IF n > 0 THEN n - 1 ELSE 0) \in Nat
        OBVIOUS
    <3>2. arb' = [arb EXCEPT ![a] = [arb[a] EXCEPT !.status = "Active",
                     !.strikes = IF arb[a].strikes > 0 THEN arb[a].strikes - 1 ELSE 0]]
        BY <1>0, <1>3 DEF CancelSlash, TypeInv, TypeOK
    <3> QED BY <1>0, <1>a, <3>1, <3>2 DEF ArbitratorStatus, TypeInv, TypeOK
  <2> QED BY <1>0, <1>3, <2>1, EmptyTypes DEF CancelSlash, TypeInv, TypeOK
<1>4. SlashTyped
    BY <1>1, <1>2, <1>3 DEF SlashStep
<1> QED BY <1>4 DEF UnchangedBySlash, TypeInv, TypeOK, PoolAligned

\* So do governance and the clock.
LEMMA GovernanceType ==
    ASSUME TypeInv, GovernanceStep \/ Tick
    PROVE  TypeInv'
<1> USE DisputeAssumption
<1>1. ASSUME NEW members \in PoolChoices, SnapshotPool(members)
      PROVE  TypeInv'
  <2> DEFINE Member == [arb : Arbitrators, stake : Nat]
  <2>0. PoolChoices \subseteq Seq(Member)
      BY DisputeAssumption
  <2>m. \A x \in Member : x.stake \in Nat /\ x.arb \in Arbitrators
      OBVIOUS
  <2> HIDE DEF Member
  <2>1. members \in Seq(Member) /\ Len(members) \in Nat
    <3>1. members \in Seq(Member)
        BY <2>0
    <3> QED BY <3>1
  <2> DEFINE stakes == [i \in 1..Len(members) |-> members[i].stake]
             names == [i \in 1..Len(members) |-> members[i].arb]
  <2>2. \A i \in 1..Len(members) : members[i].stake \in Nat /\ members[i].arb \in Arbitrators
      BY <2>1, <2>m
  <2>3. stakes \in Seq(Nat) /\ Len(stakes) = Len(members)
      BY <2>1, <2>2
  <2>4. names \in Seq(Arbitrators) /\ Len(names) = Len(members)
      BY <2>1, <2>2
  <2> HIDE DEF stakes, names
  <2>5. CumulativeStakes(stakes) \in Seq(Nat) /\ Len(CumulativeStakes(stakes)) = Len(stakes)
      BY <2>3, CumulativeSums
  <2>6. pool' = [arbs |-> names, cum |-> CumulativeStakes(stakes)]
      BY <1>1 DEF SnapshotPool, stakes, names
  <2>7. pool' \in DisputePool /\ PoolAligned'
      BY <2>3, <2>4, <2>5, <2>6 DEF DisputePool, PoolAligned
  <2> QED BY <1>1, <2>7 DEF SnapshotPool, TypeInv, TypeOK
<1>2. ASSUME NEW p \in Params, SetParams(p)
      PROVE  TypeInv'
    BY <1>2 DEF SetParams, TypeInv, TypeOK, PoolAligned
<1>3. ASSUME NEW v \in PauseChoices, SetPaused(v)
      PROVE  TypeInv'
    BY <1>3 DEF SetPaused, TypeInv, TypeOK, PoolAligned
<1>4. ASSUME Tick
      PROVE  TypeInv'
    BY <1>4 DEF Tick, TypeInv, TypeOK, PoolAligned
<1> QED BY <1>1, <1>2, <1>3, <1>4 DEF GovernanceStep

\* TypeInv is inductive.
LEMMA StepType == TypeInv /\ [Next]_vars => TypeInv'
<1> SUFFICES ASSUME TypeInv, [Next]_vars PROVE TypeInv'
    OBVIOUS
<1>1. CASE UNCHANGED vars
    BY <1>1 DEF vars, TypeInv, TypeOK, PoolAligned
<1>2. CASE Next
    BY <1>2, ArbitratorType, SlashType, CaseType, GovernanceType DEF Next
<1> QED BY <1>1, <1>2

\* Type correctness of dispute_arbitration for every pool, bench size and
\* number of cases. A draw never reads past the members of the pool, which takes
\* PoolAligned, and there is no third round. Whether the keys on a bench are
\* registered is not part of it: the code does not ask.
THEOREM TypeCorrect == Spec => []TypeOK
<1>1. TypeInv => TypeOK
    BY DEF TypeInv
<1> QED BY InitType, StepType, <1>1, PTL DEF Spec

-----------------------------------------------------------------------------
(* The inductive invariant, case by case *)

NoLiveVote(c, r) == \A a \in Arbitrators : ~vote[c][r][a].live

\* A case that was not raised yet has left no trace.
Untouched(c) ==
    c >= nextCase => /\ dc[c] = NoCase
                     /\ appeal[c] = None
                     /\ \A r \in Rounds : NoLiveVote(c, r)

\* A first round waits for its first draw, and nobody has voted in a second
\* round before there is one.
RoundsInOrder(c) ==
    /\ dc[c].status = "RequestedVrf" => dc[c].round = 1
    /\ dc[c].round = 1 => NoLiveVote(c, 2)

\* A committed vote is for a verdict.
Ballots(c) ==
    \A r \in Rounds, a \in Arbitrators :
        vote[c][r][a].live => vote[c][r][a].commit \in Verdicts

\* The parts of VotesFromBench, AppealHasGround and VerdictHasMajority.
BenchVotes(c) ==
    \A a \in Arbitrators :
        vote[c][dc[c].round][a].live => dc[c].status \in Heard /\ a \in dc[c].arbs

Ground(c) ==
    /\ (dc[c].status = "Tallied" /\ dc[c].round = 1) => dc[c].verdict # None
    /\ appeal[c] # None => dc[c].round = 2

Majority(c) ==
    /\ dc[c].total = dc[c].votes["AgentWins"] + dc[c].votes["ClientWins"] + dc[c].votes["Split"]
    /\ (dc[c].status \in {"Tallied", "Resolved"} /\ dc[c].verdict # None)
          => 2 * dc[c].votes[dc[c].verdict] > dc[c].total

CaseInv(c) ==
    /\ Untouched(c)
    /\ RoundsInOrder(c)
    /\ Ballots(c)
    /\ BenchVotes(c)
    /\ Ground(c)
    /\ Majority(c)

Inv == TypeInv /\ \A c \in Cases : CaseInv(c)

LEMMA InitInv == Init => Inv
<1> SUFFICES ASSUME Init PROVE Inv
    OBVIOUS
<1>1. TypeInv
    BY InitType
<1>2. ASSUME NEW c \in Cases PROVE CaseInv(c)
  <2>1. /\ dc[c] = NoCase /\ appeal[c] = None
        /\ \A r \in Rounds, a \in Arbitrators : ~vote[c][r][a].live
      BY DEF Init, NothingRaised, NoVote
  <2>2. /\ dc[c].status = "Absent" /\ dc[c].round = 1 /\ dc[c].total = 0
        /\ dc[c].votes = NoVotes
      BY <2>1 DEF NoCase
  <2>3. Untouched(c) /\ RoundsInOrder(c) /\ Ballots(c) /\ BenchVotes(c) /\ Ground(c)
      BY <2>1, <2>2 DEF Untouched, RoundsInOrder, Ballots, BenchVotes, Ground, NoLiveVote, Rounds
  <2>4. Majority(c)
      BY <2>2 DEF Majority, NoVotes, Verdicts
  <2> QED BY <2>3, <2>4 DEF CaseInv
<1> QED BY <1>1, <1>2 DEF Inv

\* A step that leaves a case and its votes alone keeps its invariant.
LEMMA OtherCase ==
    ASSUME NEW c \in Cases, CaseInv(c), TypeInv,
           dc'[c] = dc[c], vote'[c] = vote[c], appeal'[c] = appeal[c],
           nextCase' \in Nat, nextCase' >= nextCase
    PROVE  CaseInv(c)'
<1>0. nextCase \in Nat /\ c \in Nat
    BY DEF TypeInv, TypeOK, Cases
<1>1. Untouched(c)'
    BY <1>0 DEF CaseInv, Untouched, NoLiveVote
<1>2. RoundsInOrder(c)' /\ Ballots(c)' /\ BenchVotes(c)' /\ Ground(c)' /\ Majority(c)'
    BY DEF CaseInv, RoundsInOrder, Ballots, BenchVotes, Ground, Majority, NoLiveVote
<1> QED BY <1>1, <1>2 DEF CaseInv

\* What consume_vrf and tally_round make of a case, field by field.
LEMMA ConsumeEffect ==
    ASSUME TypeInv, NEW c \in Cases, ConsumeVrf(c)
    PROVE  /\ dc'[c].status = "Committing" /\ dc'[c].round = dc[c].round /\ dc'[c].total = 0
           /\ dc'[c].votes = NoVotes /\ dc'[c].verdict = None
           /\ \A d \in Cases : d # c => dc'[d] = dc[d]
           /\ vote' = vote /\ appeal' = appeal /\ nextCase' = nextCase
<1>1. PICK sel \in Selections(pool.cum, RoundSize(c)) :
          dc' = [dc EXCEPT ![c].status = "Committing",
                           ![c].arbs = {pool.arbs[sel[i]] : i \in DOMAIN sel},
                           ![c].commitDeadline = now + params.commitWindow,
                           ![c].revealDeadline = now + params.commitWindow
                                                     + params.revealWindow,
                           ![c].votes = NoVotes,
                           ![c].total = 0,
                           ![c].verdict = None]
    BY DEF ConsumeVrf
<1>2. dc[c] \in DisputeCase /\ dc \in [Cases -> DisputeCase]
    BY DEF TypeInv, TypeOK
<1>3. /\ dc'[c].status = "Committing" /\ dc'[c].round = dc[c].round /\ dc'[c].total = 0
      /\ dc'[c].votes = NoVotes /\ dc'[c].verdict = None
      /\ \A d \in Cases : d # c => dc'[d] = dc[d]
    BY <1>1, <1>2 DEF DisputeCase
<1> QED BY <1>3 DEF ConsumeVrf

LEMMA TallyEffect ==
    ASSUME TypeInv, NEW c \in Cases, TallyRound(c)
    PROVE  /\ dc'[c].total = dc[c].total /\ dc'[c].arbs = dc[c].arbs
           /\ dc'[c].votes = dc[c].votes
           /\ \A d \in Cases : d # c => dc'[d] = dc[d]
           /\ vote' = vote /\ appeal' = appeal /\ nextCase' = nextCase
           /\ \/ /\ dc'[c].status = "Tallied" /\ dc'[c].round = dc[c].round
                 /\ dc'[c].verdict \in Winners(c)
              \/ /\ dc[c].round = 1 /\ dc'[c].round = 2 /\ dc'[c].status = "Appealed"
              \/ /\ dc[c].round = 2 /\ dc'[c].round = 2
                 /\ dc'[c].status = "Tallied" /\ dc'[c].verdict = None
<1>0. dc[c] \in DisputeCase /\ dc \in [Cases -> DisputeCase]
    BY DEF TypeInv, TypeOK
<1>f. vote' = vote /\ appeal' = appeal /\ nextCase' = nextCase
    BY DEF TallyRound
<1>1. ASSUME NEW v \in Winners(c),
             dc' = [dc EXCEPT ![c].verdict = v, ![c].status = "Tallied"]
      PROVE  /\ dc'[c].total = dc[c].total /\ dc'[c].arbs = dc[c].arbs
             /\ dc'[c].votes = dc[c].votes
             /\ \A d \in Cases : d # c => dc'[d] = dc[d]
             /\ dc'[c].status = "Tallied" /\ dc'[c].round = dc[c].round
             /\ dc'[c].verdict = v
    BY <1>0, <1>1 DEF DisputeCase
<1>2. ASSUME dc[c].round = 1,
             dc' = [dc EXCEPT ![c].round = 2, ![c].status = "Appealed"]
      PROVE  /\ dc'[c].total = dc[c].total /\ dc'[c].arbs = dc[c].arbs
             /\ dc'[c].votes = dc[c].votes
             /\ \A d \in Cases : d # c => dc'[d] = dc[d]
             /\ dc'[c].status = "Appealed" /\ dc'[c].round = 2
    BY <1>0, <1>2 DEF DisputeCase
<1>3. ASSUME dc[c].round = 2,
             dc' = [dc EXCEPT ![c].verdict = None, ![c].status = "Tallied"]
      PROVE  /\ dc'[c].total = dc[c].total /\ dc'[c].arbs = dc[c].arbs
             /\ dc'[c].votes = dc[c].votes
             /\ \A d \in Cases : d # c => dc'[d] = dc[d]
             /\ dc'[c].status = "Tallied" /\ dc'[c].round = 2 /\ dc'[c].verdict = None
    BY <1>0, <1>3 DEF DisputeCase
<1> QED BY <1>f, <1>1, <1>2, <1>3 DEF TallyRound

\* A step on a case changes no other.
LEMMA CaseFrame ==
    ASSUME TypeInv, NEW c \in Cases, CaseStep(c), NEW d \in Cases, d # c
    PROVE  /\ dc'[d] = dc[d] /\ vote'[d] = vote[d] /\ appeal'[d] = appeal[d]
           /\ nextCase' \in Nat /\ nextCase' >= nextCase
<1>0. nextCase \in Nat
    BY DEF TypeInv, TypeOK
<1>1. ASSUME NEW client \in Parties, NEW operator \in Parties, RaiseDispute(c, client, operator)
      PROVE  /\ dc'[d] = dc[d] /\ vote' = vote /\ appeal' = appeal
             /\ nextCase' \in Nat /\ nextCase' >= nextCase
    BY <1>0, <1>1 DEF RaiseDispute, TypeInv, TypeOK
<1>2. CASE ConsumeVrf(c)
    BY <1>0, <1>2, ConsumeEffect
<1>3. CASE CancelStaleVrf(c)
    BY <1>0, <1>3 DEF CancelStaleVrf, TypeInv, TypeOK
<1>4. ASSUME NEW a \in Arbitrators, NEW v \in Verdicts, CommitVote(c, a, v)
      PROVE  dc' = dc /\ vote'[d] = vote[d] /\ appeal' = appeal /\ nextCase' = nextCase
    BY <1>4 DEF CommitVote, TypeInv, TypeOK
<1>5. ASSUME NEW a \in Arbitrators, RevealVote(c, a)
      PROVE  dc'[d] = dc[d] /\ vote'[d] = vote[d] /\ appeal' = appeal /\ nextCase' = nextCase
    BY <1>5 DEF RevealVote, TypeInv, TypeOK
<1>6. CASE TallyRound(c)
    BY <1>0, <1>6, TallyEffect
<1>7. ASSUME NEW p \in Parties, EscalateAppeal(c, p)
      PROVE  dc'[d] = dc[d] /\ vote' = vote /\ appeal'[d] = appeal[d] /\ nextCase' = nextCase
    BY <1>7 DEF EscalateAppeal, TypeInv, TypeOK
<1>8. CASE ResolveDispute(c)
    BY <1>0, <1>8 DEF ResolveDispute, TypeInv, TypeOK
<1>s. CaseSteps(c)
    BY StepsOfCase
<1> QED BY <1>0, <1>1, <1>2, <1>3, <1>4, <1>5, <1>6, <1>7, <1>8, <1>s DEF CaseSteps

\* A case that has a status was raised.
LEMMA RaisedCase ==
    ASSUME NEW c \in Cases, TypeInv, CaseInv(c), dc[c].status # "Absent"
    PROVE  ~(c >= nextCase)
BY DEF CaseInv, Untouched, NoCase

\* A strict majority of the weight is what tally_round looks for.
LEMMA HalfOrMore == \A n, t \in Nat : n > t \div 2 => 2 * n > t
OBVIOUS

-----------------------------------------------------------------------------
(* Each instruction keeps the invariant of its case *)

LEMMA RaiseInv ==
    ASSUME TypeInv, NEW c \in Cases, CaseInv(c), NEW client \in Parties, NEW operator \in Parties,
           RaiseDispute(c, client, operator)
    PROVE  CaseInv(c)'
<1>0. nextCase \in Nat /\ c \in Nat /\ c = nextCase /\ nextCase' = nextCase + 1
    BY DEF TypeInv, TypeOK, Cases, RaiseDispute
<1>1. /\ dc'[c].status = "RequestedVrf" /\ dc'[c].round = 1 /\ dc'[c].total = 0
      /\ dc'[c].votes = NoVotes /\ vote' = vote /\ appeal' = appeal
    BY DEF RaiseDispute, NoCase, TypeInv, TypeOK
<1>2. appeal[c] = None /\ NoLiveVote(c, 1) /\ NoLiveVote(c, 2)
    BY <1>0 DEF CaseInv, Untouched, Rounds
<1>3. Untouched(c)'
    BY <1>0 DEF Untouched
<1>4. RoundsInOrder(c)' /\ Ballots(c)' /\ BenchVotes(c)' /\ Ground(c)'
    BY <1>1, <1>2 DEF CaseInv, RoundsInOrder, Ballots, BenchVotes, Ground, NoLiveVote
<1>5. Majority(c)'
    BY <1>1 DEF Majority, NoVotes, Verdicts
<1> QED BY <1>3, <1>4, <1>5 DEF CaseInv

LEMMA ConsumeInv ==
    ASSUME TypeInv, NEW c \in Cases, CaseInv(c), ConsumeVrf(c)
    PROVE  CaseInv(c)'
<1>0. dc[c].status \in {"RequestedVrf", "Appealed"} /\ ~(c >= nextCase)
    BY RaisedCase DEF ConsumeVrf
<1>1. /\ dc'[c].status = "Committing" /\ dc'[c].round = dc[c].round /\ dc'[c].total = 0
      /\ dc'[c].votes = NoVotes /\ vote' = vote /\ appeal' = appeal /\ nextCase' = nextCase
    BY ConsumeEffect
<1>2. NoLiveVote(c, dc[c].round)
    BY <1>0 DEF CaseInv, BenchVotes, Heard, NoLiveVote
<1>3. Untouched(c)' /\ RoundsInOrder(c)' /\ Ballots(c)'
    BY <1>0, <1>1 DEF CaseInv, Untouched, RoundsInOrder, Ballots, NoLiveVote
<1>4. BenchVotes(c)' /\ Ground(c)'
    BY <1>1, <1>2 DEF CaseInv, BenchVotes, Ground, NoLiveVote
<1>5. Majority(c)'
    BY <1>1 DEF Majority, NoVotes, Verdicts
<1> QED BY <1>3, <1>4, <1>5 DEF CaseInv

\* A case that is cancelled or resolved keeps everything but its status.
LEMMA CloseInv ==
    ASSUME TypeInv, NEW c \in Cases, CaseInv(c), CancelStaleVrf(c) \/ ResolveDispute(c)
    PROVE  CaseInv(c)'
<1>0. ~(c >= nextCase)
    BY RaisedCase DEF CancelStaleVrf, ResolveDispute
<1>1. /\ dc'[c].round = dc[c].round /\ dc'[c].total = dc[c].total /\ dc'[c].arbs = dc[c].arbs
      /\ dc'[c].votes = dc[c].votes /\ dc'[c].verdict = dc[c].verdict
      /\ vote' = vote /\ appeal' = appeal /\ nextCase' = nextCase
      /\ \/ dc[c].status = "RequestedVrf" /\ dc'[c].status = "Cancelled"
         \/ dc[c].status = "Tallied" /\ dc'[c].status = "Resolved"
    BY DEF CancelStaleVrf, ResolveDispute, TypeInv, TypeOK, DisputeCase
<1>2. Untouched(c)' /\ RoundsInOrder(c)' /\ Ballots(c)' /\ Ground(c)'
    BY <1>0, <1>1 DEF CaseInv, Untouched, RoundsInOrder, Ballots, Ground, NoLiveVote
<1>3. BenchVotes(c)'
    BY <1>1 DEF CaseInv, BenchVotes, Heard
<1>4. Majority(c)'
    BY <1>1 DEF CaseInv, Majority
<1> QED BY <1>2, <1>3, <1>4 DEF CaseInv

LEMMA CommitInv ==
    ASSUME TypeInv, NEW c \in Cases, CaseInv(c), NEW a \in Arbitrators, NEW v \in Verdicts,
           CommitVote(c, a, v)
    PROVE  CaseInv(c)'
<1>0. dc[c].status = "Committing" /\ a \in dc[c].arbs /\ ~(c >= nextCase)
    BY RaisedCase DEF CommitVote
<1>1. dc' = dc /\ appeal' = appeal /\ nextCase' = nextCase
    BY DEF CommitVote
<1>2. \A r \in Rounds, b \in Arbitrators :
          (r # dc[c].round \/ b # a) => vote'[c][r][b] = vote[c][r][b]
    BY DEF CommitVote, TypeInv, TypeOK
<1>3. dc[c].round \in Rounds
    BY DEF TypeInv, TypeOK, DisputeCase
<1>4. Untouched(c)' /\ RoundsInOrder(c)'
    BY <1>0, <1>1, <1>2, <1>3 DEF CaseInv, Untouched, RoundsInOrder, NoLiveVote, Rounds
<1>5. BenchVotes(c)'
    BY <1>0, <1>1, <1>2, <1>3 DEF CaseInv, BenchVotes, Heard
<1>7. Ballots(c)'
  <2>1. vote'[c][dc[c].round][a].commit = v
      BY <1>3 DEF CommitVote, NoVote, TypeInv, TypeOK
  <2> QED BY <1>2, <1>3, <2>1 DEF CaseInv, Ballots
<1>6. Ground(c)' /\ Majority(c)'
    BY <1>1 DEF CaseInv, Ground, Majority
<1> QED BY <1>4, <1>5, <1>6, <1>7 DEF CaseInv

LEMMA RevealInv ==
    ASSUME TypeInv, NEW c \in Cases, CaseInv(c), NEW a \in Arbitrators, RevealVote(c, a)
    PROVE  CaseInv(c)'
<1> DEFINE w == arb[a].stake
           v == vote[c][dc[c].round][a].commit
<1>0. dc[c].status \in {"Committing", "Revealing"} /\ ~(c >= nextCase)
    BY RaisedCase DEF RevealVote
<1>t. /\ dc[c].round \in Rounds /\ w \in Nat
      /\ dc[c].total \in Nat /\ dc[c].votes \in [Verdicts -> Nat]
    BY DEF TypeInv, TypeOK, DisputeCase, ArbitratorAccount
<1>v. v \in Verdicts
    BY <1>t DEF CaseInv, Ballots, RevealVote
<1>1. /\ dc'[c].status = "Revealing" /\ dc'[c].round = dc[c].round /\ dc'[c].arbs = dc[c].arbs
      /\ dc'[c].votes = [dc[c].votes EXCEPT ![v] = @ + w]
      /\ dc'[c].total = dc[c].total + w
      /\ appeal' = appeal /\ nextCase' = nextCase
  <2>1. appeal' = appeal /\ nextCase' = nextCase
      BY DEF RevealVote
  <2> QED BY <2>1, RevealedCase, Zenon
<1>2. \A r \in Rounds, b \in Arbitrators :
          /\ vote'[c][r][b].live = vote[c][r][b].live
          /\ vote'[c][r][b].commit = vote[c][r][b].commit
  <2>1. \A r \in Rounds : \A b \in Arbitrators :
            (r # dc[c].round \/ b # a) => vote'[c][r][b] = vote[c][r][b]
      BY RevealedBallot, Zenon
  <2>2. /\ vote'[c][dc[c].round][a].live = vote[c][dc[c].round][a].live
        /\ vote'[c][dc[c].round][a].commit = vote[c][dc[c].round][a].commit
      BY RevealedFields, Zenon
  <2> QED BY <2>1, <2>2, Zenon
<1>3. Untouched(c)' /\ RoundsInOrder(c)' /\ Ballots(c)' /\ Ground(c)'
  <2>1. Untouched(c)' /\ Ground(c)'
      BY <1>0, <1>1 DEF CaseInv, Untouched, Ground
  <2>2. RoundsInOrder(c)'
      BY <1>1, <1>2 DEF CaseInv, RoundsInOrder, NoLiveVote, Rounds
  <2>3. Ballots(c)'
      BY <1>2 DEF CaseInv, Ballots
  <2> QED BY <2>1, <2>2, <2>3
<1>4. BenchVotes(c)'
  <2>1. \A b \in Arbitrators : vote[c][dc[c].round][b].live => b \in dc[c].arbs
      BY DEF CaseInv, BenchVotes
  <2>3. dc'[c].round = dc[c].round
      BY <1>1
  <2>4. \A b \in Arbitrators : vote'[c][dc[c].round][b].live => vote[c][dc[c].round][b].live
      BY <1>t, <1>2, Zenon
  <2>2. \A b \in Arbitrators : vote'[c][dc'[c].round][b].live => vote[c][dc[c].round][b].live
      BY <2>3, <2>4, Zenon
  <2> QED BY <1>1, <2>1, <2>2 DEF BenchVotes, Heard
<1>5. Majority(c)'
  <2>1. dc[c].total = dc[c].votes["AgentWins"] + dc[c].votes["ClientWins"] + dc[c].votes["Split"]
      BY DEF CaseInv, Majority
  <2> HIDE DEF w, v
  <2>2. v \in {"AgentWins", "ClientWins", "Split"}
      BY <1>v DEF Verdicts
  <2>3. \A u \in Verdicts : dc'[c].votes[u] = IF u = v THEN dc[c].votes[u] + w ELSE dc[c].votes[u]
      BY <1>t, <1>1
  <2>4. dc[c].votes["AgentWins"] \in Nat /\ dc[c].votes["ClientWins"] \in Nat
        /\ dc[c].votes["Split"] \in Nat
      BY <1>t DEF Verdicts
  <2>5. dc'[c].total = dc'[c].votes["AgentWins"] + dc'[c].votes["ClientWins"]
                          + dc'[c].votes["Split"]
      BY <1>t, <1>1, <2>1, <2>2, <2>3, <2>4 DEF Verdicts
  <2> QED BY <1>1, <2>5 DEF Majority
<1> QED BY <1>3, <1>4, <1>5 DEF CaseInv

LEMMA TallyInv ==
    ASSUME TypeInv, NEW c \in Cases, CaseInv(c), TallyRound(c)
    PROVE  CaseInv(c)'
<1>0. dc[c].status = "Revealing" /\ ~(c >= nextCase)
    BY RaisedCase DEF TallyRound
<1>t. dc[c].round \in Rounds /\ dc[c].total \in Nat /\ dc[c].votes \in [Verdicts -> Nat]
    BY DEF TypeInv, TypeOK, DisputeCase
<1>1. /\ dc'[c].total = dc[c].total /\ dc'[c].arbs = dc[c].arbs /\ dc'[c].votes = dc[c].votes
      /\ vote' = vote /\ appeal' = appeal /\ nextCase' = nextCase
    BY TallyEffect
<1>2. \/ /\ dc'[c].status = "Tallied" /\ dc'[c].round = dc[c].round
         /\ dc'[c].verdict \in Winners(c)
      \/ /\ dc[c].round = 1 /\ dc'[c].round = 2 /\ dc'[c].status = "Appealed"
      \/ /\ dc[c].round = 2 /\ dc'[c].round = 2
         /\ dc'[c].status = "Tallied" /\ dc'[c].verdict = None
    BY TallyEffect
<1>3. \A u \in Winners(c) : u \in Verdicts /\ u # None /\ 2 * dc[c].votes[u] > dc[c].total
    BY <1>t, HalfOrMore DEF Winners, Verdicts, None
<1>4. Untouched(c)'
    BY <1>0, <1>1 DEF Untouched
<1>5. RoundsInOrder(c)' /\ Ballots(c)' /\ Ground(c)'
    BY <1>1, <1>2, <1>3 DEF CaseInv, RoundsInOrder, Ballots, Ground, NoLiveVote
<1>6. BenchVotes(c)'
    BY <1>1, <1>2 DEF CaseInv, RoundsInOrder, BenchVotes, NoLiveVote, Heard
<1>7. Majority(c)'
    BY <1>1, <1>2, <1>3 DEF CaseInv, Majority
<1> QED BY <1>4, <1>5, <1>6, <1>7 DEF CaseInv

LEMMA EscalateInv ==
    ASSUME TypeInv, NEW c \in Cases, CaseInv(c), NEW p \in Parties, EscalateAppeal(c, p)
    PROVE  CaseInv(c)'
<1>0. dc[c].status = "Tallied" /\ dc[c].round = 1 /\ ~(c >= nextCase)
    BY RaisedCase DEF EscalateAppeal
<1>1. /\ dc'[c].total = dc[c].total /\ dc'[c].votes = dc[c].votes
      /\ dc'[c].status = "Appealed" /\ dc'[c].round = 2
      /\ vote' = vote /\ nextCase' = nextCase
    BY DEF EscalateAppeal, TypeInv, TypeOK, DisputeCase
<1>2. Untouched(c)' /\ RoundsInOrder(c)' /\ Ballots(c)' /\ Ground(c)'
    BY <1>0, <1>1 DEF CaseInv, Untouched, RoundsInOrder, Ballots, Ground
<1>3. BenchVotes(c)' /\ Majority(c)'
    BY <1>0, <1>1 DEF CaseInv, RoundsInOrder, BenchVotes, Majority, NoLiveVote
<1> QED BY <1>2, <1>3 DEF CaseInv

\* A step either is a step of one case or leaves every case alone.
LEMMA StepsOfCases ==
    ASSUME [Next]_vars
    PROVE  \/ \E c \in Cases : CaseStep(c)
           \/ dc' = dc /\ vote' = vote /\ appeal' = appeal /\ nextCase' = nextCase
<1> DEFINE CasesAlone == dc' = dc /\ vote' = vote /\ appeal' = appeal /\ nextCase' = nextCase
<1>1. ASSUME NEW a \in Arbitrators, ArbitratorStep(a) PROVE CasesAlone
    BY <1>1 DEF ArbitratorStep, RegisterArbitrator, RefreshStake, BeginWithdraw,
       CompleteWithdraw, UnchangedByRegistry
<1>2. ASSUME NEW a \in Arbitrators, SlashStep(a) PROVE CasesAlone
    BY <1>2 DEF SlashStep, SlashArbitrator, ExecuteSlash, CancelSlash, UnchangedBySlash
<1>3. ASSUME GovernanceStep PROVE CasesAlone
    BY <1>3 DEF GovernanceStep, SnapshotPool, SetParams, SetPaused
<1>4. ASSUME Tick \/ UNCHANGED vars PROVE CasesAlone
    BY <1>4 DEF Tick, vars
<1> QED BY <1>1, <1>2, <1>3, <1>4 DEF Next

\* Inv is inductive.
LEMMA StepInv == Inv /\ [Next]_vars => Inv'
<1> SUFFICES ASSUME Inv, [Next]_vars PROVE Inv'
    OBVIOUS
<1>0. TypeInv /\ TypeInv'
    BY StepType DEF Inv
<1>1. ASSUME NEW c \in Cases, CaseStep(c), NEW d \in Cases
      PROVE  CaseInv(d)'
  <2>1. CASE d = c
      BY <1>0, <1>1, <2>1, RaiseInv, ConsumeInv, CloseInv, CommitInv, RevealInv, TallyInv,
         EscalateInv, StepsOfCase DEF CaseSteps, Inv
  <2>2. CASE d # c
      BY <1>0, <1>1, <2>2, CaseFrame, OtherCase DEF Inv
  <2> QED BY <2>1, <2>2
<1>2. ASSUME dc' = dc, vote' = vote, appeal' = appeal, nextCase' = nextCase, NEW d \in Cases
      PROVE  CaseInv(d)'
  <2>1. nextCase' \in Nat /\ nextCase' >= nextCase
      BY <1>0, <1>2 DEF TypeInv, TypeOK
  <2> QED BY <1>0, <1>2, <2>1, OtherCase DEF Inv
<1>3. \/ \E c \in Cases : CaseStep(c)
      \/ dc' = dc /\ vote' = vote /\ appeal' = appeal /\ nextCase' = nextCase
    BY StepsOfCases
<1> QED BY <1>0, <1>1, <1>2, <1>3 DEF Inv

LEMMA AlwaysInv == Spec => []Inv
<1> QED BY InitInv, StepInv, PTL DEF Spec

-----------------------------------------------------------------------------
(* The tallies are the sums over the vote records *)

\* The ballots of the round in progress.
Revealed(c, v) == RevealedFor(c, dc[c].round, v)
Weighed(c) == Weights(c, dc[c].round)

\* Only a vote that was cast is revealed, and what is revealed is counted.
Counted(c) ==
    /\ \A r \in Rounds, a \in Arbitrators : vote[c][r][a].revealed => vote[c][r][a].live
    /\ dc[c].status \in Heard =>
          \A v \in Verdicts : dc[c].votes[v] = SumOver(Weighed(c), Revealed(c, v))

CountInv == Inv /\ \A c \in Cases : Counted(c)

LEMMA FiniteBallots ==
    ASSUME TypeInv, NEW c \in Cases, NEW v
    PROVE  /\ IsFiniteSet(Revealed(c, v))
           /\ \A a \in Revealed(c, v) : Weighed(c)[a] \in Nat
<1>1. Revealed(c, v) \subseteq Arbitrators /\ IsFiniteSet(Arbitrators)
    BY DisputeAssumption DEF Revealed, RevealedFor
<1>2. dc[c].round \in Rounds
    BY DEF TypeInv, TypeOK, DisputeCase
<1>3. \A a \in Arbitrators : vote[c][dc[c].round][a].weight \in Nat
    BY <1>2 DEF TypeInv, TypeOK, DisputeVoteRecord
<1> QED BY <1>1, <1>3, FS_Subset DEF Weighed, Weights

\* A step that leaves the tallies, the round and the votes of a case alone, and
\* does not make it count again, keeps them counted.
LEMMA SameTallies ==
    ASSUME NEW c \in Cases, Counted(c), vote'[c] = vote[c],
           \/ dc'[c].status \notin Heard
           \/ /\ dc[c].status \in Heard
              /\ dc'[c].votes = dc[c].votes /\ dc'[c].round = dc[c].round
    PROVE  Counted(c)'
<1>1. \A r \in Rounds, a \in Arbitrators : vote'[c][r][a].revealed => vote'[c][r][a].live
    BY DEF Counted
<1>2. CASE dc'[c].status \notin Heard
    BY <1>1, <1>2 DEF Counted
<1>3. CASE dc[c].status \in Heard /\ dc'[c].votes = dc[c].votes /\ dc'[c].round = dc[c].round
  <2>1. Weighed(c)' = Weighed(c)
      BY <1>3 DEF Weighed, Weights
  <2>2. \A v \in Verdicts : Revealed(c, v)' = Revealed(c, v)
      BY <1>3 DEF Revealed, RevealedFor
  <2> QED BY <1>1, <1>3, <2>1, <2>2 DEF Counted
<1> QED BY <1>2, <1>3

\* The draw opens the window with no votes and empty tallies.
LEMMA ConsumeCounts ==
    ASSUME TypeInv, NEW c \in Cases, CaseInv(c), Counted(c), ConsumeVrf(c)
    PROVE  Counted(c)'
<1>0. dc[c].status \in {"RequestedVrf", "Appealed"}
    BY DEF ConsumeVrf
<1>1. dc'[c].round = dc[c].round /\ dc'[c].votes = NoVotes /\ vote' = vote
    BY ConsumeEffect
<1>2. NoLiveVote(c, dc[c].round) /\ dc[c].round \in Rounds
    BY <1>0 DEF CaseInv, BenchVotes, Heard, NoLiveVote, TypeInv, TypeOK, DisputeCase
<1>3. ASSUME NEW v \in Verdicts PROVE Revealed(c, v)' = {}
    BY <1>1, <1>2 DEF Counted, Revealed, RevealedFor, NoLiveVote
<1>4. ASSUME NEW v \in Verdicts PROVE dc'[c].votes[v] = SumOver(Weighed(c), Revealed(c, v))'
    BY <1>1, <1>3, SumEmpty DEF NoVotes
<1> QED BY <1>1, <1>4 DEF Counted

\* A new commitment is not revealed: nothing is counted for it yet.
LEMMA CommitCounts ==
    ASSUME TypeInv, NEW c \in Cases, Counted(c), NEW a \in Arbitrators, NEW u \in Verdicts,
           CommitVote(c, a, u)
    PROVE  Counted(c)'
<1>0. dc' = dc /\ dc[c].status \in Heard /\ dc[c].round \in Rounds
    BY DEF CommitVote, Heard, TypeInv, TypeOK, DisputeCase
<1>1. \A r \in Rounds, b \in Arbitrators :
          (r # dc[c].round \/ b # a) => vote'[c][r][b] = vote[c][r][b]
    BY DEF CommitVote, TypeInv, TypeOK
<1>2. ~vote[c][dc[c].round][a].revealed /\ ~vote'[c][dc[c].round][a].revealed
  <2>1. ~vote[c][dc[c].round][a].revealed
      BY <1>0 DEF Counted, CommitVote
  <2>2. vote'[c][dc[c].round][a].revealed = FALSE
      BY <1>0 DEF CommitVote, NoVote, TypeInv, TypeOK
  <2> QED BY <2>1, <2>2
<1>3. \A r \in Rounds, b \in Arbitrators : vote'[c][r][b].revealed => vote'[c][r][b].live
    BY <1>1, <1>2 DEF Counted
<1>4. ASSUME NEW v \in Verdicts PROVE dc'[c].votes[v] = SumOver(Weighed(c), Revealed(c, v))'
  <2>1. Revealed(c, v)' = Revealed(c, v)
      BY <1>0, <1>1, <1>2 DEF Revealed, RevealedFor
  <2>2. \A b \in Revealed(c, v) : Weighed(c)[b] = Weighed(c)'[b]
      BY <1>0, <1>1, <1>2 DEF Revealed, RevealedFor, Weighed, Weights
  <2>3. SumOver(Weighed(c), Revealed(c, v)) = SumOver(Weighed(c)', Revealed(c, v))
      BY <2>2, FiniteBallots, SumSame
  <2> QED BY <1>0, <2>1, <2>3 DEF Counted
<1> QED BY <1>3, <1>4 DEF Counted

\* A reveal adds the arbitrator to those of its verdict and its weight to that
\* tally, and touches no other tally.
LEMMA RevealCounts ==
    ASSUME TypeInv, NEW c \in Cases, CaseInv(c), Counted(c), NEW a \in Arbitrators,
           RevealVote(c, a)
    PROVE  Counted(c)'
<1> DEFINE w == arb[a].stake
           u == vote[c][dc[c].round][a].commit
<1>0. dc[c].status \in Heard /\ dc[c].round \in Rounds /\ w \in Nat /\ dc[c].votes \in [Verdicts -> Nat]
    BY DEF RevealVote, Heard, TypeInv, TypeOK, DisputeCase, ArbitratorAccount
<1>u. vote[c][dc[c].round][a].live /\ ~vote[c][dc[c].round][a].revealed /\ u \in Verdicts
    BY <1>0 DEF CaseInv, Ballots, RevealVote
<1>1. dc'[c].round = dc[c].round /\ dc'[c].votes = [dc[c].votes EXCEPT ![u] = @ + w]
    BY RevealedCase, Zenon
<1>2. /\ \A r \in Rounds, b \in Arbitrators :
             (r # dc[c].round \/ b # a) => vote'[c][r][b] = vote[c][r][b]
      /\ vote'[c][dc[c].round][a].live = vote[c][dc[c].round][a].live
      /\ vote'[c][dc[c].round][a].commit = u
      /\ vote'[c][dc[c].round][a].revealed = TRUE
      /\ vote'[c][dc[c].round][a].weight = w
  <2>5. /\ vote'[c][dc[c].round][a].live = vote[c][dc[c].round][a].live
        /\ vote'[c][dc[c].round][a].commit = u
        /\ vote'[c][dc[c].round][a].revealed = TRUE
        /\ vote'[c][dc[c].round][a].weight = w
      BY RevealedFields, Zenon
  <2>6. \A r \in Rounds, b \in Arbitrators :
            (r # dc[c].round \/ b # a) => vote'[c][r][b] = vote[c][r][b]
      BY RevealedBallot, Zenon
  <2> QED BY <2>5, <2>6
<1> HIDE DEF w, u
<1>3. \A r \in Rounds, b \in Arbitrators : vote'[c][r][b].revealed => vote'[c][r][b].live
    BY <1>u, <1>2 DEF Counted
<1>5. \A b \in Arbitrators \ {a} :
          vote'[c][dc'[c].round][b] = vote[c][dc[c].round][b]
  <2>1. \A b \in Arbitrators \ {a} : vote'[c][dc[c].round][b] = vote[c][dc[c].round][b]
      BY <1>0, <1>2
  <2> QED BY <1>1, <2>1
<1>4. ASSUME NEW v \in Verdicts PROVE dc'[c].votes[v] = SumOver(Weighed(c), Revealed(c, v))'
  <2> DEFINE S == Revealed(c, v)
             W == Weighed(c)'
  <2>1. a \notin S /\ IsFiniteSet(S) /\ \A b \in S : Weighed(c)[b] \in Nat
      BY <1>u, FiniteBallots DEF Revealed, RevealedFor
  <2>2. \A b \in S : Weighed(c)[b] = W[b]
    <3> SUFFICES ASSUME NEW b \in S PROVE Weighed(c)[b] = W[b]
        OBVIOUS
    <3>1. b \in Arbitrators /\ b # a
        BY <2>1 DEF Revealed, RevealedFor
    <3>2. vote'[c][dc'[c].round][b] = vote[c][dc[c].round][b]
        BY <1>0, <1>1, <1>2, <3>1
    <3> QED BY <3>1, <3>2 DEF Weighed, Weights
  <2>3. W[a] = w
      BY <1>1, <1>2 DEF Weighed, Weights
  <2>4. dc[c].votes[v] = SumOver(W, S)
    <3>1. dc[c].votes[v] = SumOver(Weighed(c), S)
        BY <1>0 DEF Counted
    <3> HIDE DEF S, W
    <3> QED BY <2>1, <2>2, <3>1, SumSame
  <2>5. CASE v = u
    <3>1. Revealed(c, v)' = S \cup {a}
      <4>1. a \in Revealed(c, v)'
          BY <1>0, <1>1, <1>2, <2>5 DEF Revealed, RevealedFor
      <4>2. \A b \in Arbitrators \ {a} : b \in Revealed(c, v)' <=> b \in Revealed(c, v)
          BY <1>5 DEF Revealed, RevealedFor
      <4>3. Revealed(c, v) \subseteq Arbitrators /\ Revealed(c, v)' \subseteq Arbitrators
          BY DEF Revealed, RevealedFor
      <4> QED BY <4>1, <4>2, <4>3
    <3>2. \A b \in S : W[b] \in Nat
        BY <2>1, <2>2
    <3>3. SumOver(W, S \cup {a}) = W[a] + SumOver(W, S)
      <4> HIDE DEF S, W
      <4> QED BY <1>0, <2>1, <2>3, <3>2, SumAdd
    <3>4. dc'[c].votes[v] = dc[c].votes[v] + w /\ dc[c].votes[v] \in Nat
        BY <1>0, <1>1, <1>u, <2>5
    <3>5. SumOver(Weighed(c), Revealed(c, v))' = SumOver(W, S \cup {a})
        BY <3>1
    <3> DEFINE x == SumOver(W, S)
               y == dc[c].votes[v]
    <3>6. y \in Nat /\ w \in Nat /\ y = x /\ dc'[c].votes[v] = y + w
        BY <1>0, <2>4, <3>4
    <3>7. SumOver(W, S \cup {a}) = w + x
        BY <2>3, <3>3
    <3> HIDE DEF S, W, x, y
    <3>8. dc'[c].votes[v] = w + x
        BY <3>6
    <3> QED BY <3>5, <3>7, <3>8
  <2>6. CASE v # u
    <3>1. Revealed(c, v)' = S
      <4>1. a \notin Revealed(c, v)' /\ a \notin Revealed(c, v)
          BY <1>0, <1>1, <1>2, <1>u, <2>6 DEF Revealed, RevealedFor
      <4>2. \A b \in Arbitrators \ {a} : b \in Revealed(c, v)' <=> b \in Revealed(c, v)
          BY <1>5 DEF Revealed, RevealedFor
      <4>3. Revealed(c, v) \subseteq Arbitrators /\ Revealed(c, v)' \subseteq Arbitrators
          BY DEF Revealed, RevealedFor
      <4> QED BY <4>1, <4>2, <4>3
    <3>2. dc'[c].votes[v] = dc[c].votes[v]
        BY <1>0, <1>1, <2>6
    <3> QED BY <2>4, <3>1, <3>2
  <2> QED BY <2>5, <2>6
<1> QED BY <1>3, <1>4 DEF Counted

LEMMA StepCounts == CountInv /\ [Next]_vars => CountInv'
<1> SUFFICES ASSUME CountInv, [Next]_vars PROVE CountInv'
    OBVIOUS
<1>0. TypeInv /\ Inv' /\ \A c \in Cases : CaseInv(c) /\ Counted(c)
    BY StepInv DEF CountInv, Inv
<1>1. ASSUME NEW c \in Cases, CaseStep(c) PROVE Counted(c)'
  <2>1. ASSUME NEW client \in Parties, NEW operator \in Parties,
               RaiseDispute(c, client, operator)
        PROVE  Counted(c)'
    <3>1. dc'[c].status = "RequestedVrf" /\ vote' = vote
        BY <1>0, <2>1 DEF RaiseDispute, NoCase, TypeInv, TypeOK
    <3> QED BY <1>0, <3>1, SameTallies DEF Heard
  <2>2. CASE ConsumeVrf(c)
      BY <1>0, <2>2, ConsumeCounts
  <2>3. CASE CancelStaleVrf(c) \/ ResolveDispute(c)
    <3>1. /\ dc'[c].round = dc[c].round /\ dc'[c].votes = dc[c].votes /\ vote' = vote
          /\ dc'[c].status = "Cancelled" \/ dc[c].status = "Tallied"
        BY <1>0, <2>3 DEF CancelStaleVrf, ResolveDispute, TypeInv, TypeOK, DisputeCase
    <3> QED BY <1>0, <3>1, SameTallies DEF Heard
  <2>4. ASSUME NEW a \in Arbitrators, NEW v \in Verdicts, CommitVote(c, a, v) PROVE Counted(c)'
      BY <1>0, <2>4, CommitCounts
  <2>5. ASSUME NEW a \in Arbitrators, RevealVote(c, a) PROVE Counted(c)'
      BY <1>0, <2>5, RevealCounts
  <2>6. CASE TallyRound(c)
    <3>1. /\ vote' = vote /\ dc'[c].votes = dc[c].votes /\ dc[c].status = "Revealing"
          /\ dc'[c].status = "Appealed" \/ dc'[c].round = dc[c].round
      <4>1. vote' = vote /\ dc'[c].votes = dc[c].votes
          BY <1>0, <2>6, TallyEffect
      <4>2. dc'[c].status = "Appealed" \/ dc'[c].round = dc[c].round
          BY <1>0, <2>6, TallyEffect
      <4> QED BY <2>6, <4>1, <4>2 DEF TallyRound
    <3> QED BY <1>0, <3>1, SameTallies DEF Heard
  <2>7. ASSUME NEW p \in Parties, EscalateAppeal(c, p) PROVE Counted(c)'
    <3>1. dc'[c].status = "Appealed" /\ vote' = vote
        BY <1>0, <2>7 DEF EscalateAppeal, TypeInv, TypeOK, DisputeCase
    <3> QED BY <1>0, <3>1, SameTallies DEF Heard
  <2>s. CaseSteps(c)
      BY <1>1, StepsOfCase
  <2> QED BY <2>1, <2>2, <2>3, <2>4, <2>5, <2>6, <2>7, <2>s DEF CaseSteps
<1>2. ASSUME NEW c \in Cases, dc'[c] = dc[c], vote'[c] = vote[c] PROVE Counted(c)'
    BY <1>0, <1>2, SameTallies
<1>3. ASSUME NEW c \in Cases, CaseStep(c), NEW d \in Cases PROVE Counted(d)'
  <2>1. CASE d = c
      BY <1>1, <1>3, <2>1
  <2>2. CASE d # c
      BY <1>0, <1>2, <1>3, <2>2, CaseFrame
  <2> QED BY <2>1, <2>2
<1>4. \/ \E c \in Cases : CaseStep(c)
      \/ dc' = dc /\ vote' = vote
    BY DEF CountInv, Next, vars, ArbitratorStep, SlashStep, GovernanceStep, RegisterArbitrator,
       RefreshStake, BeginWithdraw, CompleteWithdraw, UnchangedByRegistry, SlashArbitrator,
       ExecuteSlash, CancelSlash, UnchangedBySlash, SnapshotPool, SetParams, SetPaused, Tick
<1>5. CASE dc' = dc /\ vote' = vote
    BY <1>0, <1>2, <1>5 DEF CountInv
<1> QED BY <1>0, <1>3, <1>4, <1>5 DEF CountInv

LEMMA InitCounts == Init => CountInv
<1> SUFFICES ASSUME Init PROVE CountInv
    OBVIOUS
<1>1. ASSUME NEW c \in Cases PROVE Counted(c)
  <2>1. dc[c].status = "Absent" /\ \A r \in Rounds, a \in Arbitrators : vote[c][r][a] = NoVote
      BY DEF Init, NothingRaised, NoCase
  <2>2. \A r \in Rounds, a \in Arbitrators : ~vote[c][r][a].revealed
      BY <2>1 DEF NoVote
  <2> QED BY <2>1, <2>2 DEF Counted, Heard
<1> QED BY <1>1, InitInv DEF CountInv

-----------------------------------------------------------------------------
(* An appeal stands on the ballots of the first round *)

\* The ballots of the first round speak against the appellant.
Appellant(c) ==
    appeal[c] # None =>
        \E v \in {"AgentWins", "ClientWins"} :
            /\ appeal[c] = LosingParty(c, v)
            /\ 2 * Weight(c, 1, v) > Weight(c, 1, "AgentWins") + Weight(c, 1, "ClientWins")
                                       + Weight(c, 1, "Split")

AppealInv == CountInv /\ \A c \in Cases : Appellant(c)

\* Ballots that stay weigh the same.
LEMMA SameWeight ==
    ASSUME NEW c \in Cases, \A a \in Arbitrators : vote'[c][1][a] = vote[c][1][a], NEW v
    PROVE  Weight(c, 1, v)' = Weight(c, 1, v)
<1>1. RevealedFor(c, 1, v)' = RevealedFor(c, 1, v)
  <2>1. \A a \in Arbitrators : a \in RevealedFor(c, 1, v)' <=> a \in RevealedFor(c, 1, v)
      BY DEF RevealedFor
  <2>2. RevealedFor(c, 1, v)' \subseteq Arbitrators /\ RevealedFor(c, 1, v) \subseteq Arbitrators
      BY DEF RevealedFor
  <2> QED BY <2>1, <2>2
<1>2. Weights(c, 1)' = Weights(c, 1)
    BY DEF Weights
<1> QED BY <1>1, <1>2 DEF Weight

\* With its parties, its appeal and the ballots of its first round a case keeps
\* the ground of its appeal.
LEMMA SameGround ==
    ASSUME NEW c \in Cases, Appellant(c), appeal'[c] = appeal[c],
           \/ appeal[c] = None
           \/ /\ dc'[c].client = dc[c].client /\ dc'[c].operator = dc[c].operator
              /\ \A a \in Arbitrators : vote'[c][1][a] = vote[c][1][a]
    PROVE  Appellant(c)'
<1>1. CASE appeal[c] = None
    BY <1>1 DEF Appellant
<1>2. CASE appeal[c] # None
  <2>1. \A v : Weight(c, 1, v)' = Weight(c, 1, v)
      BY <1>2, SameWeight
  <2>2. \A v : LosingParty(c, v)' = LosingParty(c, v)
      BY <1>2 DEF LosingParty
  <2> QED BY <2>1, <2>2 DEF Appellant
<1> QED BY <1>1, <1>2

\* No instruction but raise_dispute names the parties of a case.
LEMMA PartiesStay ==
    ASSUME TypeInv, NEW c \in Cases,
           \/ ConsumeVrf(c) \/ CancelStaleVrf(c) \/ TallyRound(c) \/ ResolveDispute(c)
           \/ \E a \in Arbitrators, v \in Verdicts : CommitVote(c, a, v)
           \/ \E a \in Arbitrators : RevealVote(c, a)
           \/ \E p \in Parties : EscalateAppeal(c, p)
    PROVE  dc'[c].client = dc[c].client /\ dc'[c].operator = dc[c].operator
<1> DEFINE Same == dc'[c].client = dc[c].client /\ dc'[c].operator = dc[c].operator
<1>0. dc \in [Cases -> DisputeCase] /\ dc[c] \in DisputeCase
    BY DEF TypeInv, TypeOK
<1>1. ASSUME ConsumeVrf(c) PROVE Same
  <2>1. PICK sel \in Selections(pool.cum, RoundSize(c)) :
            dc' = [dc EXCEPT ![c].status = "Committing",
                             ![c].arbs = {pool.arbs[sel[i]] : i \in DOMAIN sel},
                             ![c].commitDeadline = now + params.commitWindow,
                             ![c].revealDeadline = now + params.commitWindow
                                                       + params.revealWindow,
                             ![c].votes = NoVotes,
                             ![c].total = 0,
                             ![c].verdict = None]
      BY <1>1 DEF ConsumeVrf
  <2> QED BY <1>0, <2>1 DEF DisputeCase
<1>2. ASSUME CancelStaleVrf(c) \/ ResolveDispute(c) PROVE Same
    BY <1>0, <1>2 DEF CancelStaleVrf, ResolveDispute, DisputeCase
<1>3. ASSUME TallyRound(c) PROVE Same
  <2>1. \/ \E v : dc' = [dc EXCEPT ![c].verdict = v, ![c].status = "Tallied"]
        \/ dc' = [dc EXCEPT ![c].round = 2, ![c].status = "Appealed"]
      BY <1>3, Zenon DEF TallyRound
  <2>2. ASSUME NEW v, dc' = [dc EXCEPT ![c].verdict = v, ![c].status = "Tallied"] PROVE Same
      BY <1>0, <2>2 DEF DisputeCase
  <2>3. ASSUME dc' = [dc EXCEPT ![c].round = 2, ![c].status = "Appealed"] PROVE Same
      BY <1>0, <2>3 DEF DisputeCase
  <2> QED BY <2>1, <2>2, <2>3
<1>4. ASSUME NEW a \in Arbitrators, NEW v \in Verdicts, CommitVote(c, a, v) PROVE Same
    BY <1>4 DEF CommitVote
<1>5. ASSUME NEW a \in Arbitrators, RevealVote(c, a) PROVE Same
  <2> DEFINE v == vote[c][dc[c].round][a].commit
             w == arb[a].stake
  <2>1. dc' = [dc EXCEPT ![c].status = "Revealing", ![c].votes[v] = @ + w, ![c].total = @ + w]
      BY <1>5, Zenon DEF RevealVote
  <2> HIDE DEF v, w
  <2> QED BY <1>0, <2>1 DEF DisputeCase
<1>6. ASSUME NEW p \in Parties, EscalateAppeal(c, p) PROVE Same
    BY <1>0, <1>6 DEF EscalateAppeal, DisputeCase
<1> QED BY <1>1, <1>2, <1>3, <1>4, <1>5, <1>6

\* escalate_appeal finds the first round tallied: the majority that the verdict
\* has is the one of its ballots.
LEMMA EscalateGround ==
    ASSUME TypeInv, NEW c \in Cases, CaseInv(c), Counted(c), NEW p \in Parties,
           EscalateAppeal(c, p)
    PROVE  Appellant(c)'
<1> DEFINE v == dc[c].verdict
<1>1. /\ dc[c].status = "Tallied" /\ dc[c].round = 1 /\ vote' = vote
      /\ appeal'[c] = p
      /\ \/ v = "AgentWins" /\ p = dc[c].client
         \/ v = "ClientWins" /\ p = dc[c].operator
    BY DEF EscalateAppeal, Loser, TypeInv, TypeOK
<1>2. dc'[c].client = dc[c].client /\ dc'[c].operator = dc[c].operator
    BY PartiesStay
<1>3. v \in {"AgentWins", "ClientWins"} /\ p = LosingParty(c, v) /\ v # None /\ v \in Verdicts
    BY <1>1 DEF LosingParty, None, Verdicts
<1>4. 2 * dc[c].votes[v] > dc[c].votes["AgentWins"] + dc[c].votes["ClientWins"] + dc[c].votes["Split"]
    BY <1>1, <1>3 DEF CaseInv, Majority
<1>5. \A u \in Verdicts : dc[c].votes[u] = Weight(c, 1, u)
    BY <1>1 DEF Counted, Heard, Weight, Revealed, Weighed
<1>6. 2 * Weight(c, 1, v) > Weight(c, 1, "AgentWins") + Weight(c, 1, "ClientWins") + Weight(c, 1, "Split")
  <2>1. "AgentWins" \in Verdicts /\ "ClientWins" \in Verdicts /\ "Split" \in Verdicts
      BY DEF Verdicts
  <2> HIDE DEF v
  <2> QED BY <1>3, <1>4, <1>5, <2>1
<1>7. \A u : Weight(c, 1, u)' = Weight(c, 1, u)
    BY <1>1, SameWeight
<1>8. PICK u \in {"AgentWins", "ClientWins"} : u = v
    BY <1>3
<1>9. /\ appeal'[c] = LosingParty(c, u)'
      /\ 2 * Weight(c, 1, u)' > Weight(c, 1, "AgentWins")' + Weight(c, 1, "ClientWins")'
                                  + Weight(c, 1, "Split")'
  <2>1. LosingParty(c, u)' = LosingParty(c, u)
      BY <1>2 DEF LosingParty
  <2>2. appeal'[c] = LosingParty(c, u)
      BY <1>1, <1>3, <1>8
  <2>3. 2 * Weight(c, 1, u) > Weight(c, 1, "AgentWins") + Weight(c, 1, "ClientWins") + Weight(c, 1, "Split")
    <3> HIDE DEF v
    <3> QED BY <1>6, <1>8
  <2> QED BY <1>7, <2>1, <2>2, <2>3
<1> QED BY <1>9 DEF Appellant

LEMMA StepAppeal == AppealInv /\ [Next]_vars => AppealInv'
<1> SUFFICES ASSUME AppealInv, [Next]_vars PROVE AppealInv'
    OBVIOUS
<1>0. CountInv' /\ TypeInv /\ \A c \in Cases : CaseInv(c) /\ Counted(c) /\ Appellant(c)
    BY StepCounts DEF AppealInv, CountInv, Inv
<1>1. ASSUME NEW c \in Cases, CaseStep(c) PROVE Appellant(c)'
  <2>1. ASSUME NEW client \in Parties, NEW operator \in Parties,
               RaiseDispute(c, client, operator)
        PROVE  Appellant(c)'
    <3>1. c = nextCase /\ nextCase \in Nat /\ appeal' = appeal
        BY <1>0, <2>1 DEF RaiseDispute, TypeInv, TypeOK
    <3>2. appeal[c] = None
        BY <1>0, <3>1 DEF CaseInv, Untouched
    <3> QED BY <1>0, <3>1, <3>2, SameGround
  <2>2. CASE ConsumeVrf(c) \/ CancelStaleVrf(c) \/ TallyRound(c) \/ ResolveDispute(c)
    <3>1. appeal' = appeal /\ vote' = vote
        BY <2>2 DEF ConsumeVrf, CancelStaleVrf, TallyRound, ResolveDispute
    <3>2. dc'[c].client = dc[c].client /\ dc'[c].operator = dc[c].operator
        BY <1>0, <2>2, PartiesStay
    <3> QED BY <1>0, <3>1, <3>2, SameGround
  <2>3. ASSUME NEW a \in Arbitrators, NEW v \in Verdicts, CommitVote(c, a, v) PROVE Appellant(c)'
    <3>1. appeal' = appeal /\ dc' = dc
        BY <2>3 DEF CommitVote
    <3>2. \A b \in Arbitrators : dc[c].round # 1 => vote'[c][1][b] = vote[c][1][b]
        BY <1>0, <2>3 DEF CommitVote, TypeInv, TypeOK, Rounds
    <3>3. appeal[c] # None => dc[c].round = 2
        BY <1>0 DEF CaseInv, Ground
    <3> QED BY <1>0, <3>1, <3>2, <3>3, SameGround
  <2>4. ASSUME NEW a \in Arbitrators, RevealVote(c, a) PROVE Appellant(c)'
    <3>1. appeal' = appeal
        BY <2>4 DEF RevealVote
    <3>2. \A r \in Rounds : \A b \in Arbitrators :
              (r # dc[c].round \/ b # a) => vote'[c][r][b] = vote[c][r][b]
        BY <1>0, <2>4, RevealedBallot, Zenon
    <3>3. appeal[c] # None => dc[c].round = 2
        BY <1>0 DEF CaseInv, Ground
    <3>4. dc'[c].client = dc[c].client /\ dc'[c].operator = dc[c].operator
        BY <1>0, <2>4, PartiesStay
    <3>5. \A b \in Arbitrators : dc[c].round = 2 => vote'[c][1][b] = vote[c][1][b]
        BY <3>2 DEF Rounds
    <3> QED BY <1>0, <3>1, <3>3, <3>4, <3>5, SameGround
  <2>5. ASSUME NEW p \in Parties, EscalateAppeal(c, p) PROVE Appellant(c)'
      BY <1>0, <2>5, EscalateGround
  <2>s. CaseSteps(c)
      BY <1>1, StepsOfCase
  <2> QED BY <2>1, <2>2, <2>3, <2>4, <2>5, <2>s DEF CaseSteps
<1>2. ASSUME NEW c \in Cases, dc'[c] = dc[c], vote'[c] = vote[c], appeal'[c] = appeal[c]
      PROVE  Appellant(c)'
    BY <1>0, <1>2, SameGround
<1>3. ASSUME NEW c \in Cases, CaseStep(c), NEW d \in Cases PROVE Appellant(d)'
  <2>1. CASE d = c
      BY <1>1, <1>3, <2>1
  <2>2. CASE d # c
      BY <1>0, <1>2, <1>3, <2>2, CaseFrame
  <2> QED BY <2>1, <2>2
<1>4. \/ \E c \in Cases : CaseStep(c)
      \/ dc' = dc /\ vote' = vote /\ appeal' = appeal /\ nextCase' = nextCase
    BY StepsOfCases
<1>5. ASSUME dc' = dc, vote' = vote, appeal' = appeal, NEW d \in Cases PROVE Appellant(d)'
    BY <1>2, <1>5
<1>6. \A d \in Cases : Appellant(d)'
    BY <1>3, <1>4, <1>5
<1> QED BY <1>0, <1>6 DEF AppealInv

LEMMA InitAppeal == Init => AppealInv
<1> SUFFICES ASSUME Init PROVE AppealInv
    OBVIOUS
<1>1. \A c \in Cases : appeal[c] = None
    BY DEF Init, NothingRaised
<1> QED BY <1>1, InitCounts DEF AppealInv, Appellant

-----------------------------------------------------------------------------
(* What lifts a bar *)

\* Nobody is barred while a slash is pending against it.
BarInv ==
    /\ TypeInv
    /\ \A a \in Arbitrators : arb[a].status = "Slashed" => ~pending[a].live

\* What a step may do to an arbitrator that is barred.
BarKept(b) ==
    \/ arb'[b].status = "Slashed" /\ pending'[b] = pending[b]
    \/ arb'[b].status = "Paused" /\ arb'[b].stake < params.minStake
    \/ arb'[b].status = "Paused" /\ pending'[b].live /\ ~pending[b].live

\* The registry bars nobody, and lifts a bar by too small a stake only.
LEMMA RegistryBars ==
    ASSUME TypeInv, NEW a \in Arbitrators, ArbitratorStep(a), NEW b \in Arbitrators
    PROVE  /\ arb'[b].status = "Slashed" => arb[b].status = "Slashed" /\ pending'[b] = pending[b]
           /\ arb[b].status = "Slashed" => BarKept(b)
<1>t. arb \in [Arbitrators -> ArbitratorAccount] /\ arb[b] \in ArbitratorAccount
    BY DEF TypeInv, TypeOK
<1>0. pending' = pending
    BY DEF ArbitratorStep, RegisterArbitrator, RefreshStake, BeginWithdraw, CompleteWithdraw,
       UnchangedByRegistry
<1>1. CASE b # a
  <2>1. arb'[b] = arb[b]
      BY <1>1, <1>t DEF ArbitratorStep, RegisterArbitrator, RefreshStake, BeginWithdraw,
         CompleteWithdraw
  <2> QED BY <1>0, <2>1 DEF BarKept
<1>2. CASE b = a
  <2>1. ASSUME NEW s \in StakeClaims, NEW l \in LockClaims, RegisterArbitrator(a, s, l)
        PROVE  arb[b].status = "Absent" /\ arb'[b].status = "Active"
      BY <1>2, <1>t, <2>1 DEF RegisterArbitrator, NoArbitrator
  <2>2. ASSUME NEW s \in StakeClaims, RefreshStake(a, s)
        PROVE  \/ arb'[b].status = arb[b].status
               \/ arb'[b].status = "Paused" /\ arb'[b].stake < params.minStake
      BY <1>2, <1>t, <2>2 DEF RefreshStake, ArbitratorAccount
  <2>3. ASSUME BeginWithdraw(a)
        PROVE  arb[b].status \in {"Active", "Paused"} /\ arb'[b].status = "Withdrawing"
      BY <1>2, <1>t, <2>3 DEF BeginWithdraw, ArbitratorAccount
  <2>4. ASSUME CompleteWithdraw(a)
        PROVE  arb[b].status = "Withdrawing" /\ arb'[b].status = "Absent"
      BY <1>2, <1>t, <2>4 DEF CompleteWithdraw, NoArbitrator
  <2> QED BY <1>0, <2>1, <2>2, <2>3, <2>4 DEF ArbitratorStep, BarKept
<1> QED BY <1>1, <1>2

\* A slash bars only when it is executed, and then it is gone.
LEMMA SlashBars ==
    ASSUME BarInv, NEW a \in Arbitrators, SlashStep(a), NEW b \in Arbitrators
    PROVE  /\ arb'[b].status = "Slashed" => ~pending'[b].live
           /\ arb[b].status = "Slashed" => BarKept(b)
<1>t. /\ arb \in [Arbitrators -> ArbitratorAccount] /\ arb[b] \in ArbitratorAccount
      /\ pending \in [Arbitrators -> PendingSlash]
    BY DEF BarInv, TypeInv, TypeOK
<1>0. arb[b].status = "Slashed" => ~pending[b].live
    BY DEF BarInv
<1>1. CASE b # a
  <2>1. arb'[b] = arb[b] /\ pending'[b] = pending[b]
      BY <1>1, <1>t DEF SlashStep, SlashArbitrator, ExecuteSlash, CancelSlash
  <2> QED BY <1>0, <2>1 DEF BarKept
<1>2. CASE b = a
  <2>1. ASSUME NEW c \in Cases, SlashArbitrator(a, c)
        PROVE  arb'[b].status = "Paused" /\ pending'[b].live /\ ~pending[b].live
      BY <1>2, <1>t, <2>1 DEF SlashArbitrator, ArbitratorAccount
  <2>2. ASSUME ExecuteSlash(a) \/ CancelSlash(a)
        PROVE  pending[b].live /\ pending'[b] = NoSlash
      BY <1>2, <1>t, <2>2 DEF ExecuteSlash, CancelSlash
  <2>3. NoSlash.live = FALSE
      BY DEF NoSlash
  <2> QED BY <1>0, <2>1, <2>2, <2>3 DEF SlashStep, BarKept
<1> QED BY <1>1, <1>2

LEMMA StepBars ==
    ASSUME BarInv, [Next]_vars
    PROVE  /\ BarInv'
           /\ \A b \in Arbitrators : arb[b].status = "Slashed" => BarKept(b)
<1>0. TypeInv /\ TypeInv'
    BY StepType DEF BarInv
<1> DEFINE Kept(b) == /\ arb'[b].status = "Slashed" => ~pending'[b].live
                      /\ arb[b].status = "Slashed" => BarKept(b)
<1>1. ASSUME NEW a \in Arbitrators, ArbitratorStep(a), NEW b \in Arbitrators PROVE Kept(b)
    BY <1>0, <1>1, RegistryBars DEF BarInv
<1>2. ASSUME NEW a \in Arbitrators, SlashStep(a), NEW b \in Arbitrators PROVE Kept(b)
    BY <1>2, SlashBars
<1>3. ASSUME arb' = arb, pending' = pending, NEW b \in Arbitrators PROVE Kept(b)
    BY <1>3 DEF BarInv, BarKept
<1>4. ASSUME NEW c \in Cases, CaseStep(c) PROVE arb' = arb /\ pending' = pending
    BY <1>4 DEF CaseStep, RaiseDispute, ConsumeVrf, CancelStaleVrf, CommitVote, RevealVote,
       TallyRound, EscalateAppeal, ResolveDispute, UnchangedByCase
<1>5. ASSUME GovernanceStep \/ Tick \/ UNCHANGED vars PROVE arb' = arb /\ pending' = pending
    BY <1>5 DEF GovernanceStep, SnapshotPool, SetParams, SetPaused, Tick, vars
<1>6. \A b \in Arbitrators : Kept(b)
  <2> HIDE DEF Kept
  <2> QED BY <1>1, <1>2, <1>3, <1>4, <1>5 DEF Next
<1> QED BY <1>0, <1>6 DEF BarInv

-----------------------------------------------------------------------------
(* The theorems *)

\* A tallied or resolved verdict has a strict majority of the weight revealed
\* in the round that counts, for benches and stakes of any size.
THEOREM VerdictAlwaysHasMajority == Spec => []VerdictHasMajority
<1>1. Inv => VerdictHasMajority
    BY DEF Inv, CaseInv, Majority, VerdictHasMajority
<1> QED BY AlwaysInv, <1>1, PTL

\* No vote counts in a round whose draw did not seat its arbitrator.
THEOREM OnlyTheBenchVotes == Spec => []VotesFromBench
<1>1. Inv => VotesFromBench
    BY DEF Inv, CaseInv, BenchVotes, VotesFromBench
<1> QED BY AlwaysInv, <1>1, PTL

\* Only who lost the first round appeals, once: for as long as the appeal is on
\* record the ballots of the first round have a strict majority against the
\* appellant, for benches and stakes of any size and whatever the second round
\* does to the tallies.
THEOREM AppealsHaveGround == Spec => []AppealHasGround
<1>1. AppealInv => AppealHasGround
  <2> SUFFICES ASSUME AppealInv, NEW c \in Cases
               PROVE  /\ Ground(c)
                      /\ Appellant(c)
      BY DEF AppealHasGround, Ground, Appellant
  <2> QED BY DEF AppealInv, CountInv, Inv, CaseInv
<1> QED BY InitAppeal, StepAppeal, <1>1, PTL DEF Spec

\* Every tally is the sum of the weights in the vote records of the current
\* round: no reveal is counted twice, lost, or carried into the second round,
\* for benches and stakes of any size.
THEOREM TalliesAlwaysMatch == Spec => []TallyMatchesVotes
<1>1. CountInv => TallyMatchesVotes
    BY DEF CountInv, Counted, TallyMatchesVotes, Weight, Revealed, Weighed
<1> QED BY <1>1, InitCounts, StepCounts, PTL DEF Spec

\* Bars hold: a barred arbitrator leaves the status Slashed only by claiming too
\* little stake or by being slashed again. No pending slash outlives a bar, so
\* neither its execution nor its cancellation can make a barred arbitrator Active.
THEOREM BarsAlwaysHold == Spec => BarsHold
<1>1. Init => BarInv
    BY InitType DEF BarInv, Init, NothingRaised, NoArbitrator
<1>2. BarInv /\ [Next]_vars => BarInv'
    BY StepBars
<1>3. BarInv /\ [Next]_vars =>
          [\A a \in Arbitrators :
              (arb[a].status = "Slashed" /\ arb'[a].status # "Slashed") =>
                  /\ arb'[a].status = "Paused"
                  /\ \/ arb'[a].stake < params.minStake
                     \/ pending'[a].live /\ ~pending[a].live]_vars
    BY StepBars DEF BarKept
<1> QED BY <1>1, <1>2, <1>3, PTL DEF Spec, BarsHold

-----------------------------------------------------------------------------
(* Refinement *)

\* The mapped state of one case.
Phase(c) == PhaseOf(dc[c].status)
Decision(c) == IF dc[c].status \in {"Tallied", "Resolved"} THEN dc[c].verdict ELSE None

\* What a step of a case does to its mapped state: one step of DisputeOutcome
\* or nothing.
OutcomeStep(c) ==
    \/ Phase(c)' = Phase(c) /\ dc'[c].round = dc[c].round /\ Decision(c)' = Decision(c)
    \/ /\ Phase(c) = "None" /\ Phase(c)' = "Hearing"
       /\ dc'[c].round = dc[c].round /\ Decision(c)' = Decision(c)
    \/ /\ Phase(c) = "Hearing" /\ Phase(c)' = "Decided" /\ dc'[c].round = dc[c].round
       /\ Decision(c)' \in Verdicts \cup {None}
       /\ Decision(c)' = None => dc[c].round = 2
    \/ /\ Phase(c) \in {"Hearing", "Decided"} /\ dc[c].round = 1
       /\ Phase(c)' = "Hearing" /\ dc'[c].round = 2 /\ Decision(c)' = None
    \/ /\ Phase(c) = "Decided" /\ Phase(c)' = "Closed"
       /\ dc'[c].round = dc[c].round /\ Decision(c)' = Decision(c)
    \/ /\ Phase(c) = "Hearing" /\ dc[c].round = 1 /\ Phase(c)' = "Closed"
       /\ dc'[c].round = dc[c].round /\ Decision(c)' = Decision(c)

LEMMA CaseOutcome ==
    ASSUME TypeInv, NEW c \in Cases, CaseInv(c), CaseStep(c)
    PROVE  OutcomeStep(c)
<1> USE DEF Phase, PhaseOf, Decision
<1>0. dc \in [Cases -> DisputeCase] /\ dc[c] \in DisputeCase
    BY DEF TypeInv, TypeOK
<1>1. ASSUME NEW client \in Parties, NEW operator \in Parties, RaiseDispute(c, client, operator)
      PROVE  OutcomeStep(c)
  <2>1. dc[c] = NoCase
    <3>1. c = nextCase /\ nextCase \in Nat
        BY <1>1 DEF RaiseDispute, TypeInv, TypeOK
    <3> QED BY <3>1 DEF CaseInv, Untouched
  <2>2. dc[c].status = "Absent" /\ dc[c].round = 1
      BY <2>1 DEF NoCase
  <2>3. dc'[c].status = "RequestedVrf" /\ dc'[c].round = 1
      BY <1>0, <1>1 DEF RaiseDispute, NoCase
  <2> QED BY <2>2, <2>3 DEF OutcomeStep
<1>2. CASE ConsumeVrf(c)
  <2>1. dc[c].status \in {"RequestedVrf", "Appealed"}
      BY <1>2 DEF ConsumeVrf
  <2>2. dc'[c].status = "Committing" /\ dc'[c].round = dc[c].round
      BY <1>2, ConsumeEffect
  <2> QED BY <2>1, <2>2 DEF OutcomeStep
<1>3. CASE CancelStaleVrf(c)
  <2>1. dc[c].status = "RequestedVrf" /\ dc[c].round = 1
      BY <1>3 DEF CancelStaleVrf, CaseInv, RoundsInOrder
  <2>2. dc'[c].status = "Cancelled" /\ dc'[c].round = dc[c].round
      BY <1>0, <1>3 DEF CancelStaleVrf, DisputeCase
  <2> QED BY <2>1, <2>2 DEF OutcomeStep
<1>4. ASSUME NEW a \in Arbitrators, NEW v \in Verdicts, CommitVote(c, a, v)
      PROVE  OutcomeStep(c)
    BY <1>4 DEF CommitVote, OutcomeStep
<1>5. ASSUME NEW a \in Arbitrators, RevealVote(c, a)
      PROVE  OutcomeStep(c)
  <2>1. dc[c].status \in {"Committing", "Revealing"}
      BY <1>5 DEF RevealVote
  <2>2. dc'[c].status = "Revealing" /\ dc'[c].round = dc[c].round
      BY <1>0, <1>5 DEF RevealVote, DisputeCase
  <2> QED BY <2>1, <2>2 DEF OutcomeStep
<1>6. CASE TallyRound(c)
  <2>1. dc[c].status = "Revealing"
      BY <1>6 DEF TallyRound
  <2>2. \A u \in Winners(c) : u \in Verdicts /\ u # None
      BY DEF Winners, Verdicts, None
  <2> QED BY <1>6, <2>1, <2>2, TallyEffect DEF OutcomeStep
<1>7. ASSUME NEW p \in Parties, EscalateAppeal(c, p)
      PROVE  OutcomeStep(c)
  <2>1. dc[c].status = "Tallied" /\ dc[c].round = 1
      BY <1>7 DEF EscalateAppeal
  <2>2. dc'[c].status = "Appealed" /\ dc'[c].round = 2
      BY <1>0, <1>7 DEF EscalateAppeal, DisputeCase
  <2> QED BY <2>1, <2>2 DEF OutcomeStep
<1>8. CASE ResolveDispute(c)
  <2>1. dc[c].status = "Tallied"
      BY <1>8 DEF ResolveDispute
  <2>2. /\ dc'[c].status = "Resolved" /\ dc'[c].round = dc[c].round
        /\ dc'[c].verdict = dc[c].verdict
      BY <1>0, <1>8 DEF ResolveDispute, DisputeCase
  <2> QED BY <2>1, <2>2 DEF OutcomeStep
<1>s. CaseSteps(c)
    BY StepsOfCase
<1> QED BY <1>1, <1>2, <1>3, <1>4, <1>5, <1>6, <1>7, <1>8, <1>s DEF CaseSteps

\* The abstract state, as the refinement mapping names it.
phaseBar == [c \in Cases |-> Phase(c)]
hearingBar == [c \in Cases |-> dc[c].round]
verdictBar == [c \in Cases |-> Decision(c)]

LEMMA OutcomeMapped ==
    ASSUME Inv, NEW c \in Cases, CaseStep(c)
    PROVE  Outcome!Next \/ UNCHANGED Outcome!vars
<1>1. OutcomeStep(c)
    BY CaseOutcome DEF Inv
<1>2. \A d \in Cases : d # c => dc'[d] = dc[d]
    BY CaseFrame DEF Inv
<1>3. /\ phaseBar' = [phaseBar EXCEPT ![c] = Phase(c)']
      /\ hearingBar' = [hearingBar EXCEPT ![c] = dc'[c].round]
      /\ verdictBar' = [verdictBar EXCEPT ![c] = Decision(c)']
    BY <1>2 DEF phaseBar, hearingBar, verdictBar, Phase, Decision
<1>4. phaseBar[c] = Phase(c) /\ hearingBar[c] = dc[c].round /\ verdictBar[c] = Decision(c)
    BY DEF phaseBar, hearingBar, verdictBar
<1>5. /\ \A x : x = phaseBar[c] => [phaseBar EXCEPT ![c] = x] = phaseBar
      /\ \A x : x = hearingBar[c] => [hearingBar EXCEPT ![c] = x] = hearingBar
      /\ \A x : x = verdictBar[c] => [verdictBar EXCEPT ![c] = x] = verdictBar
    BY DEF phaseBar, hearingBar, verdictBar
<1>6. /\ phaseBar = [d \in Cases |-> PhaseOf(dc[d].status)]
      /\ hearingBar = [d \in Cases |-> dc[d].round]
      /\ verdictBar = [d \in Cases |-> IF dc[d].status \in {"Tallied", "Resolved"}
                                       THEN dc[d].verdict ELSE None]
      /\ phaseBar' = [d \in Cases |-> PhaseOf(dc'[d].status)]
      /\ hearingBar' = [d \in Cases |-> dc'[d].round]
      /\ verdictBar' = [d \in Cases |-> IF dc'[d].status \in {"Tallied", "Resolved"}
                                        THEN dc'[d].verdict ELSE None]
    BY DEF phaseBar, hearingBar, verdictBar, Phase, Decision
<1> HIDE DEF phaseBar, hearingBar, verdictBar
<1>7. CASE Phase(c)' = Phase(c) /\ dc'[c].round = dc[c].round /\ Decision(c)' = Decision(c)
    BY <1>3, <1>4, <1>5, <1>6, <1>7 DEF Outcome!vars
<1>8. CASE /\ Phase(c) = "None" /\ Phase(c)' = "Hearing"
           /\ dc'[c].round = dc[c].round /\ Decision(c)' = Decision(c)
  <2>1. Outcome!Open(c)
      BY <1>3, <1>4, <1>5, <1>6, <1>8 DEF Outcome!Open
  <2> QED BY <2>1 DEF Outcome!Next
<1>9. CASE /\ Phase(c) = "Hearing" /\ Phase(c)' = "Decided" /\ dc'[c].round = dc[c].round
           /\ Decision(c)' \in Verdicts \cup {None}
           /\ Decision(c)' = None => dc[c].round = 2
  <2>1. PICK v \in Verdicts \cup {None} : v = Decision(c)'
      BY <1>9
  <2>2. Outcome!Decide(c, v)
      BY <1>3, <1>4, <1>5, <1>6, <1>9, <2>1 DEF Outcome!Decide
  <2> QED BY <2>2 DEF Outcome!Next
<1>10. CASE /\ Phase(c) \in {"Hearing", "Decided"} /\ dc[c].round = 1
            /\ Phase(c)' = "Hearing" /\ dc'[c].round = 2 /\ Decision(c)' = None
  <2>1. Outcome!HearAgain(c)
      BY <1>3, <1>4, <1>5, <1>6, <1>10 DEF Outcome!HearAgain
  <2> QED BY <2>1 DEF Outcome!Next
<1>11. CASE /\ Phase(c) = "Decided" /\ Phase(c)' = "Closed"
            /\ dc'[c].round = dc[c].round /\ Decision(c)' = Decision(c)
  <2>1. Outcome!Close(c)
      BY <1>3, <1>4, <1>5, <1>6, <1>11 DEF Outcome!Close
  <2> QED BY <2>1 DEF Outcome!Next
<1>12. CASE /\ Phase(c) = "Hearing" /\ dc[c].round = 1 /\ Phase(c)' = "Closed"
            /\ dc'[c].round = dc[c].round /\ Decision(c)' = Decision(c)
  <2>1. Outcome!Abandon(c)
      BY <1>3, <1>4, <1>5, <1>6, <1>12 DEF Outcome!Abandon
  <2> QED BY <2>1 DEF Outcome!Next
<1> QED BY <1>1, <1>7, <1>8, <1>9, <1>10, <1>11, <1>12 DEF OutcomeStep

\* Dispute arbitration implements DisputeOutcome: in every behaviour a case is
\* heard at most twice, decided once per hearing, and closed for good.
THEOREM ArbitrationImplementsOutcome == Spec => ImplementsOutcome
<1>1. Init => Outcome!Init
    BY DEF Init, NothingRaised, NoCase, PhaseOf, Outcome!Init
<1>2. Inv /\ [Next]_vars => [Outcome!Next]_(Outcome!vars)
  <2> SUFFICES ASSUME Inv, [Next]_vars PROVE Outcome!Next \/ UNCHANGED Outcome!vars
      OBVIOUS
  <2>1. ASSUME NEW c \in Cases, CaseStep(c) PROVE Outcome!Next \/ UNCHANGED Outcome!vars
      BY <2>1, OutcomeMapped
  <2>2. ASSUME dc' = dc PROVE UNCHANGED Outcome!vars
      BY <2>2 DEF Outcome!vars
  <2>3. (\E c \in Cases : CaseStep(c)) \/ dc' = dc
    BY DEF Next, vars, ArbitratorStep, SlashStep, GovernanceStep, RegisterArbitrator,
       RefreshStake, BeginWithdraw, CompleteWithdraw, UnchangedByRegistry, SlashArbitrator,
       ExecuteSlash, CancelSlash, UnchangedBySlash, SnapshotPool, SetParams, SetPaused, Tick
  <2> QED BY <2>1, <2>2, <2>3
<1> QED BY AlwaysInv, <1>1, <1>2, PTL DEF Spec, ImplementsOutcome, Outcome!Spec

-----------------------------------------------------------------------------
(* What no step undoes *)

\* A committed verdict stays, in both rounds; a revealed ballot never changes
\* again; and a ballot is revealed only in the round in progress, by one of the
\* arbitrators drawn for it.
BallotsKept ==
    \A c \in Cases : \A r \in Rounds : \A a \in Arbitrators :
        LET old == vote[c][r][a]
            new == vote'[c][r][a]
        IN  /\ old.live => new.live /\ new.commit = old.commit
            /\ old.revealed => new = old
            /\ (new.revealed /\ ~old.revealed) => r = dc[c].round /\ a \in dc[c].arbs

\* A resolved or cancelled case, its ballots and its appeal never change again.
ClosedCasesKept ==
    \A c \in Cases : dc[c].status \in {"Resolved", "Cancelled"} =>
        dc'[c] = dc[c] /\ vote'[c] = vote[c] /\ appeal'[c] = appeal[c]

\* commit_vote needs a record that does not exist yet, and makes one that is
\* not revealed.
LEMMA CommitKeeps ==
    ASSUME TypeInv, NEW c \in Cases, Counted(c), NEW a \in Arbitrators, NEW u \in Verdicts,
           CommitVote(c, a, u), NEW r \in Rounds, NEW b \in Arbitrators
    PROVE  /\ vote[c][r][b].live => vote'[c][r][b] = vote[c][r][b]
           /\ vote[c][r][b].revealed => vote'[c][r][b] = vote[c][r][b]
           /\ vote'[c][r][b].revealed => vote[c][r][b].revealed
<1>0. dc[c].round \in Rounds
    BY DEF TypeInv, TypeOK, DisputeCase
<1>1. CASE r # dc[c].round \/ b # a
  <2>1. vote'[c][r][b] = vote[c][r][b]
      BY <1>1 DEF CommitVote, TypeInv, TypeOK
  <2> QED BY <2>1
<1>2. CASE r = dc[c].round /\ b = a
  <2>1. ~vote[c][r][b].live /\ ~vote[c][r][b].revealed
      BY <1>2 DEF Counted, CommitVote
  <2>2. vote'[c][r][b].revealed = FALSE
      BY <1>0, <1>2 DEF CommitVote, NoVote, TypeInv, TypeOK
  <2> QED BY <2>1, <2>2
<1> QED BY <1>1, <1>2

\* reveal_vote needs a record that is not revealed, of an arbitrator that the
\* draw of the round seated.
LEMMA RevealKeeps ==
    ASSUME TypeInv, NEW c \in Cases, CaseInv(c), NEW a \in Arbitrators,
           RevealVote(c, a), NEW r \in Rounds, NEW b \in Arbitrators
    PROVE  /\ vote[c][r][b].live => /\ vote'[c][r][b].live
                                    /\ vote'[c][r][b].commit = vote[c][r][b].commit
           /\ vote[c][r][b].revealed => vote'[c][r][b] = vote[c][r][b]
           /\ (vote'[c][r][b].revealed /\ ~vote[c][r][b].revealed)
                 => r = dc[c].round /\ b \in dc[c].arbs
<1>0. \A q \in Rounds : \A d \in Arbitrators :
          (q # dc[c].round \/ d # a) => vote'[c][q][d] = vote[c][q][d]
    BY RevealedBallot, Zenon
<1>1. CASE r # dc[c].round \/ b # a
  <2>1. vote'[c][r][b] = vote[c][r][b]
      BY <1>0, <1>1, Zenon
  <2> QED BY <2>1
<1>2. CASE r = dc[c].round /\ b = a
  <2>1. vote[c][r][b].live /\ ~vote[c][r][b].revealed
      BY <1>2 DEF RevealVote
  <2>2. b \in dc[c].arbs
      BY <1>2, <2>1 DEF CaseInv, BenchVotes
  <2>3. /\ vote'[c][r][b].live = vote[c][r][b].live
        /\ vote'[c][r][b].commit = vote[c][r][b].commit
      BY <1>2, RevealedFields
  <2> QED BY <1>2, <2>1, <2>2, <2>3
<1> QED BY <1>1, <1>2

\* Of the steps of a case only commit_vote and reveal_vote write a ballot.
LEMMA OnlyVotersWriteBallots ==
    ASSUME NEW c \in Cases, CaseStep(c)
    PROVE  \/ vote' = vote
           \/ \E a \in Arbitrators, v \in Verdicts : CommitVote(c, a, v)
           \/ \E a \in Arbitrators : RevealVote(c, a)
BY DEF CaseStep, RaiseDispute, ConsumeVrf, CancelStaleVrf, TallyRound, EscalateAppeal,
   ResolveDispute

LEMMA StepKeepsBallots == CountInv /\ [Next]_vars => BallotsKept
<1> SUFFICES ASSUME CountInv, [Next]_vars,
                    NEW c \in Cases, NEW r \in Rounds, NEW a \in Arbitrators
             PROVE  /\ vote[c][r][a].live => /\ vote'[c][r][a].live
                                             /\ vote'[c][r][a].commit = vote[c][r][a].commit
                    /\ vote[c][r][a].revealed => vote'[c][r][a] = vote[c][r][a]
                    /\ (vote'[c][r][a].revealed /\ ~vote[c][r][a].revealed)
                          => r = dc[c].round /\ a \in dc[c].arbs
    BY Zenon DEF BallotsKept
<1>0. TypeInv /\ CaseInv(c) /\ Counted(c)
    BY DEF CountInv, Inv
<1>1. CASE vote'[c] = vote[c]
    BY <1>1
<1>2. ASSUME NEW b \in Arbitrators, NEW v \in Verdicts, CommitVote(c, b, v)
      PROVE  /\ vote[c][r][a].live => vote'[c][r][a] = vote[c][r][a]
             /\ vote[c][r][a].revealed => vote'[c][r][a] = vote[c][r][a]
             /\ vote'[c][r][a].revealed => vote[c][r][a].revealed
    BY <1>0, <1>2, CommitKeeps, Zenon
<1>3. ASSUME NEW b \in Arbitrators, RevealVote(c, b)
      PROVE  /\ vote[c][r][a].live => /\ vote'[c][r][a].live
                                      /\ vote'[c][r][a].commit = vote[c][r][a].commit
             /\ vote[c][r][a].revealed => vote'[c][r][a] = vote[c][r][a]
             /\ (vote'[c][r][a].revealed /\ ~vote[c][r][a].revealed)
                   => r = dc[c].round /\ a \in dc[c].arbs
    BY <1>0, <1>3, RevealKeeps, Zenon
<1>4. \/ vote'[c] = vote[c]
      \/ \E b \in Arbitrators, v \in Verdicts : CommitVote(c, b, v)
      \/ \E b \in Arbitrators : RevealVote(c, b)
  <2>1. ASSUME NEW d \in Cases, CaseStep(d), d # c PROVE vote'[c] = vote[c]
      BY <1>0, <2>1, CaseFrame, Zenon
  <2>2. CASE CaseStep(c)
      BY <2>2, OnlyVotersWriteBallots
  <2>3. CASE vote' = vote
      BY <2>3
  <2> QED BY <2>1, <2>2, <2>3, StepsOfCases
<1> QED BY <1>1, <1>2, <1>3, <1>4

\* No instruction accepts a case that is closed: a new case is raised under an
\* identifier that was never used.
LEMMA ClosedCaseRefused ==
    ASSUME NEW c \in Cases, TypeInv, CaseInv(c), dc[c].status \in {"Resolved", "Cancelled"}
    PROVE  ~CaseStep(c)
<1>1. ~(c >= nextCase)
    BY RaisedCase
<1>2. c \in Nat /\ nextCase \in Nat
    BY DEF TypeInv, TypeOK, Cases
<1>3. c # nextCase
    BY <1>1, <1>2
<1>4. ~\E client, operator \in Parties : RaiseDispute(c, client, operator)
    BY <1>3 DEF RaiseDispute
<1>5. ~ConsumeVrf(c) /\ ~CancelStaleVrf(c) /\ ~TallyRound(c) /\ ~ResolveDispute(c)
    BY DEF ConsumeVrf, CancelStaleVrf, TallyRound, ResolveDispute
<1>6. /\ ~\E a \in Arbitrators, v \in Verdicts : CommitVote(c, a, v)
      /\ ~\E a \in Arbitrators : RevealVote(c, a)
      /\ ~\E p \in Parties : EscalateAppeal(c, p)
    BY DEF CommitVote, RevealVote, EscalateAppeal
<1> QED BY <1>4, <1>5, <1>6, StepsOfCase DEF CaseSteps

LEMMA StepKeepsClosed == Inv /\ [Next]_vars => ClosedCasesKept
<1> SUFFICES ASSUME Inv, [Next]_vars, NEW c \in Cases,
                    dc[c].status \in {"Resolved", "Cancelled"}
             PROVE  dc'[c] = dc[c] /\ vote'[c] = vote[c] /\ appeal'[c] = appeal[c]
    BY DEF ClosedCasesKept
<1>0. TypeInv /\ CaseInv(c)
    BY DEF Inv
<1>1. ASSUME NEW d \in Cases, CaseStep(d)
      PROVE  dc'[c] = dc[c] /\ vote'[c] = vote[c] /\ appeal'[c] = appeal[c]
  <2>1. d # c
      BY <1>0, <1>1, ClosedCaseRefused
  <2> QED BY <1>0, <1>1, <2>1, CaseFrame, Zenon
<1> QED BY <1>1, StepsOfCases

\* Ballots are final: no order of commitments, reveals, re-registrations, draws
\* and appeals changes a committed verdict or a revealed weight, and no ballot
\* of the first round is opened once a second one has begun.
THEOREM BallotsAreFinal == Spec => [][BallotsKept]_vars
<1>1. Spec => []CountInv
    BY InitCounts, StepCounts, PTL DEF Spec
<1> QED BY <1>1, StepKeepsBallots, PTL DEF Spec

\* Resolution is final: no later instruction, of this case or another, changes
\* a resolved or cancelled case, its ballots or its appeal.
THEOREM ClosedCasesAreFinal == Spec => [][ClosedCasesKept]_vars
<1> QED BY AlwaysInv, StepKeepsClosed, PTL DEF Spec
=============================================================================

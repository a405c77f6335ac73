--------------------------- MODULE FeeCrankProofs ---------------------------
(***************************************************************************)
(* Proofs about FeeCrank for every value of its constants: the staker      *)
(* vault lacks nothing but the mint's fees, and the leaves the proof API   *)
(* serves make up what their epoch still owes, for any number of epochs,   *)
(* stakers and shares, and whatever anyone does between two awaits of a    *)
(* tick.                                                                   *)
(***************************************************************************)
EXTENDS FeeCrank, FiniteSetTheorems, WellFoundedInduction, TLAPS

-----------------------------------------------------------------------------
(* What SumOver computes for every finite set of naturals: nothing for the   *)
(* empty set, and one element more adds its value whichever it is. The fold  *)
(* takes the elements in the order of CHOOSE. Induction over the size of a   *)
(* set is done with the least counterexample.                                *)

\* A set of naturals that is not empty has a least element.
LEMMA LeastNat ==
    ASSUME NEW T, T \subseteq Nat, T # {}
    PROVE  \E m \in T : \A k \in T : m <= k
<1> DEFINE R == OpToRel(<, Nat)
<1>1. IsWellFoundedOn(R, Nat)
    BY NatLessThanWellFounded
<1>2. \A x, y \in Nat : <<x, y>> \in R <=> x < y
    BY DEF OpToRel
<1> HIDE DEF R
<1>3. PICK m \in T : \A k \in T : ~(<<k, m>> \in R)
    BY <1>1, WFMin
<1>4. \A k \in T : k \in Nat /\ m \in Nat /\ ~(k < m)
    BY <1>2, <1>3
<1>5. \A k, n \in Nat : ~(k < n) => n <= k
    OBVIOUS
<1> QED BY <1>4, <1>5

\* The element the fold takes first.
FirstOf(s) == CHOOSE x \in s : TRUE

\* What one step of the fold computes from the function g of smaller sums.
FoldStep(f, g, s) == IF s = {} THEN 0 ELSE f[FirstOf(s)] + g[s \ {FirstOf(s)}]

\* A set of sets that has with each of its members what the fold leaves of it.
FoldClosed(D) == \A s \in D : IsFiniteSet(s) /\ (s # {} => s \ {FirstOf(s)} \in D)

\* g is a function of the sums of f over the sets in D.
SumsTo(f, D, g) ==
    /\ g \in [D -> Nat]
    /\ \A s \in D : g[s] = FoldStep(f, g, s)

\* Of a nonempty set of finite sets one has the least size.
LEMMA LeastSet ==
    ASSUME NEW B, B # {}, \A s \in B : IsFiniteSet(s)
    PROVE  \E s \in B : \A t \in B : Cardinality(s) <= Cardinality(t)
<1> DEFINE T == {Cardinality(s) : s \in B}
<1>1. T \subseteq Nat /\ T # {}
    BY FS_CardinalityType
<1> HIDE DEF T
<1>2. PICK m \in T : \A k \in T : m <= k
    BY <1>1, LeastNat
<1> QED BY <1>2 DEF T

\* Taking the first element leaves a smaller set.
LEMMA FirstLeaves ==
    ASSUME NEW s, IsFiniteSet(s), s # {}
    PROVE  /\ FirstOf(s) \in s
           /\ IsFiniteSet(s \ {FirstOf(s)})
           /\ Cardinality(s \ {FirstOf(s)}) = Cardinality(s) - 1
           /\ Cardinality(s) \in Nat
<1>1. FirstOf(s) \in s
    BY DEF FirstOf
<1> QED BY <1>1, FS_RemoveElement, FS_CardinalityType

\* Two functions of sums agree where both are defined.
LEMMA FoldsAgree ==
    ASSUME NEW f, NEW D, NEW E, NEW g, NEW h, FoldClosed(D), FoldClosed(E),
           SumsTo(f, D, g), SumsTo(f, E, h), NEW s \in D \cap E
    PROVE  g[s] = h[s]
<1> DEFINE B == {t \in D \cap E : g[t] # h[t]}
<1> SUFFICES ASSUME B # {} PROVE FALSE
    OBVIOUS
<1>1. PICK t \in B : \A u \in B : Cardinality(t) <= Cardinality(u)
    BY LeastSet DEF FoldClosed
<1>2. t \in D \cap E /\ g[t] # h[t] /\ g[t] = FoldStep(f, g, t) /\ h[t] = FoldStep(f, h, t)
    BY <1>1 DEF SumsTo
<1>3. CASE t = {}
    BY <1>2, <1>3 DEF FoldStep
<1>4. CASE t # {}
  <2> DEFINE u == t \ {FirstOf(t)}
  <2>1. u \in D \cap E /\ IsFiniteSet(t)
      BY <1>2, <1>4 DEF FoldClosed
  <2>2. Cardinality(u) = Cardinality(t) - 1 /\ Cardinality(t) \in Nat
      BY <1>4, <2>1, FirstLeaves
  <2>3. ~(Cardinality(t) <= Cardinality(u))
      BY <2>2
  <2>4. g[u] = h[u]
      BY <1>1, <2>1, <2>3
  <2> QED BY <1>2, <1>4, <2>4 DEF FoldStep
<1> QED BY <1>3, <1>4

\* The subsets of S with at most n elements.
SmallSets(S, n) == {s \in SUBSET S : Cardinality(s) <= n}

LEMMA SmallSetsClosed ==
    ASSUME NEW S, IsFiniteSet(S), NEW n \in Nat
    PROVE  FoldClosed(SmallSets(S, n))
<1> SUFFICES ASSUME NEW s \in SmallSets(S, n)
             PROVE  IsFiniteSet(s) /\ (s # {} => s \ {FirstOf(s)} \in SmallSets(S, n))
    BY DEF FoldClosed
<1>1. IsFiniteSet(s) /\ s \subseteq S /\ Cardinality(s) <= n
    BY FS_Subset DEF SmallSets
<1>2. ASSUME s # {} PROVE s \ {FirstOf(s)} \in SmallSets(S, n)
  <2>1. Cardinality(s \ {FirstOf(s)}) = Cardinality(s) - 1 /\ Cardinality(s) \in Nat
      BY <1>1, <1>2, FirstLeaves
  <2>2. Cardinality(s \ {FirstOf(s)}) <= n
      BY <1>1, <2>1
  <2> QED BY <1>1, <2>2 DEF SmallSets
<1> QED BY <1>1, <1>2

\* There is a function of sums for the subsets of every size.
LEMMA FoldExists ==
    ASSUME NEW f, NEW S, IsFiniteSet(S), \A x \in S : f[x] \in Nat,
           NEW n \in Nat
    PROVE  \E g : SumsTo(f, SmallSets(S, n), g)
<1> DEFINE Bad == {k \in Nat : ~ \E g : SumsTo(f, SmallSets(S, k), g)}
<1> SUFFICES ASSUME Bad # {} PROVE FALSE
    OBVIOUS
<1>0. Bad \subseteq Nat
    OBVIOUS
<1> HIDE DEF Bad
<1>1. PICK m \in Bad : \A k \in Bad : m <= k
    BY <1>0, LeastNat
<1>2. m \in Nat /\ ~ \E g : SumsTo(f, SmallSets(S, m), g)
    BY <1>1 DEF Bad
<1>3. \A s \in SmallSets(S, m) : IsFiniteSet(s) /\ s \subseteq S /\ Cardinality(s) \in Nat /\ Cardinality(s) <= m
    BY FS_Subset, FS_CardinalityType DEF SmallSets
<1>4. CASE m = 0
  <2> DEFINE g == [s \in SmallSets(S, 0) |-> 0]
  <2>1. \A s \in SmallSets(S, 0) : s = {}
      BY <1>3, <1>4, FS_EmptySet
  <2>2. SumsTo(f, SmallSets(S, 0), g)
      BY <2>1 DEF SumsTo, FoldStep
  <2> QED BY <1>2, <1>4, <2>2
<1>5. CASE m # 0
  <2>1. m - 1 \in Nat /\ ~(m <= m - 1)
      BY <1>2, <1>5
  <2>2. PICK g : SumsTo(f, SmallSets(S, m - 1), g)
      BY <1>1, <2>1 DEF Bad
  <2> DEFINE h == [s \in SmallSets(S, m) |-> FoldStep(f, g, s)]
  <2>3. \A s \in SmallSets(S, m) : s # {} =>
            f[FirstOf(s)] \in Nat /\ s \ {FirstOf(s)} \in SmallSets(S, m - 1)
    <3> SUFFICES ASSUME NEW s \in SmallSets(S, m), s # {}
                 PROVE  f[FirstOf(s)] \in Nat /\ s \ {FirstOf(s)} \in SmallSets(S, m - 1)
        OBVIOUS
    <3>1. FirstOf(s) \in s /\ Cardinality(s \ {FirstOf(s)}) = Cardinality(s) - 1
        BY <1>3, FirstLeaves
    <3>2. Cardinality(s \ {FirstOf(s)}) <= m - 1
        BY <1>2, <1>3, <3>1
    <3> QED BY <1>3, <3>1, <3>2 DEF SmallSets
  <2>4. \A s \in SmallSets(S, m - 1) : g[s] \in Nat /\ g[s] = FoldStep(f, g, s)
      BY <2>2 DEF SumsTo
  <2>5. \A s \in SmallSets(S, m - 1) : s \in SmallSets(S, m)
    <3>1. \A k \in Nat : k <= m - 1 => k <= m
        BY <1>2
    <3>2. \A s \in SmallSets(S, m - 1) : s \subseteq S /\ Cardinality(s) <= m - 1 /\ Cardinality(s) \in Nat
        BY FS_Subset, FS_CardinalityType DEF SmallSets
    <3> QED BY <3>1, <3>2 DEF SmallSets
  <2>6. h \in [SmallSets(S, m) -> Nat]
    <3>1. ASSUME NEW s \in SmallSets(S, m) PROVE FoldStep(f, g, s) \in Nat
      <4>1. CASE s = {}
          BY <4>1 DEF FoldStep
      <4>2. CASE s # {}
        <5>1. f[FirstOf(s)] \in Nat /\ g[s \ {FirstOf(s)}] \in Nat
            BY <2>3, <2>4, <4>2
        <5>2. \A i, j \in Nat : i + j \in Nat
            OBVIOUS
        <5> QED BY <4>2, <5>1, <5>2 DEF FoldStep
      <4> QED BY <4>1, <4>2
    <3> QED BY <3>1
  <2>7. \A s \in SmallSets(S, m - 1) : h[s] = g[s]
      BY <2>4, <2>5
  <2>8. \A s \in SmallSets(S, m) : h[s] = FoldStep(f, h, s)
    <3> SUFFICES ASSUME NEW s \in SmallSets(S, m) PROVE h[s] = FoldStep(f, h, s)
        OBVIOUS
    <3>0. h[s] = FoldStep(f, g, s)
        OBVIOUS
    <3> HIDE DEF h
    <3> QED BY <2>3, <2>7, <3>0 DEF FoldStep
  <2>9. SumsTo(f, SmallSets(S, m), h)
    <3> HIDE DEF h
    <3> QED BY <2>6, <2>8 DEF SumsTo
  <2> QED BY <1>2, <2>9
<1> QED BY <1>4, <1>5

\* The fold over S is a function of sums of all its subsets.
LEMMA SumIsFold ==
    ASSUME NEW f, NEW S, IsFiniteSet(S), \A x \in S : f[x] \in Nat
    PROVE  /\ FoldClosed(SUBSET S)
           /\ \E g : SumsTo(f, SUBSET S, g) /\ SumOver(f, S) = g[S]
<1> DEFINE n == Cardinality(S)
           iter == CHOOSE g : g = [s \in SUBSET S |-> FoldStep(f, g, s)]
<1>1. n \in Nat
    BY FS_CardinalityType
<1>2. \A s \in SUBSET S : Cardinality(s) <= n
    BY FS_Subset
<1> HIDE DEF n
<1>3. SmallSets(S, n) = SUBSET S
    BY <1>2 DEF SmallSets
<1>4. PICK g : SumsTo(f, SUBSET S, g)
  <2>1. \E g : SumsTo(f, SmallSets(S, n), g)
      BY <1>1, FoldExists
  <2> QED BY <1>3, <2>1, Zenon
<1>5. FoldClosed(SUBSET S)
  <2>1. FoldClosed(SmallSets(S, n))
      BY <1>1, SmallSetsClosed
  <2> QED BY <1>3, <2>1, Zenon
<1>6. g = [s \in SUBSET S |-> FoldStep(f, g, s)]
    BY <1>4 DEF SumsTo
<1>7. iter = [s \in SUBSET S |-> FoldStep(f, iter, s)]
    BY <1>6
<1>8. SumOver(f, S) = iter[S]
    BY DEF SumOver, MapThenSumSet, MapThenFoldSet, FoldStep, FirstOf
<1> HIDE DEF iter
<1>9. \A s \in SUBSET S : iter[s] = FoldStep(f, iter, s)
    BY <1>7
<1>a. \A s \in SUBSET S : iter[s] \in Nat
  <2> DEFINE B == {s \in SUBSET S : iter[s] \notin Nat}
  <2> SUFFICES ASSUME B # {} PROVE FALSE
      OBVIOUS
  <2>1. PICK t \in B : \A u \in B : Cardinality(t) <= Cardinality(u)
      BY <1>5, LeastSet DEF FoldClosed
  <2>2. CASE t = {}
    <3>1. iter[t] = FoldStep(f, iter, t)
        BY <1>9, <2>1
    <3>2. iter[t] = 0
        BY <2>2, <3>1 DEF FoldStep
    <3> QED BY <2>1, <3>2
  <2>3. CASE t # {}
    <3>1. IsFiniteSet(t) /\ t \ {FirstOf(t)} \in SUBSET S
        BY <1>5, <2>1 DEF FoldClosed
    <3>0. /\ FirstOf(t) \in t /\ Cardinality(t) \in Nat
          /\ Cardinality(t \ {FirstOf(t)}) = Cardinality(t) - 1
        BY <2>3, <3>1, FirstLeaves
    <3>2. FirstOf(t) \in t /\ ~(Cardinality(t) <= Cardinality(t \ {FirstOf(t)}))
        BY <3>0
    <3>3. iter[t \ {FirstOf(t)}] \in Nat /\ f[FirstOf(t)] \in Nat
        BY <2>1, <3>1, <3>2
    <3>4. iter[t] = f[FirstOf(t)] + iter[t \ {FirstOf(t)}]
        BY <1>9, <2>1, <2>3 DEF FoldStep
    <3> QED BY <2>1, <3>3, <3>4
  <2> QED BY <2>2, <2>3
<1>b. SumsTo(f, SUBSET S, iter)
    BY <1>7, <1>9, <1>a DEF SumsTo
<1> QED BY <1>5, <1>8, <1>b

\* One step of the fold: the first element's value and the sum over the rest.
LEMMA SumStep ==
    ASSUME NEW f, NEW S, IsFiniteSet(S), \A x \in S : f[x] \in Nat
    PROVE  /\ SumOver(f, S) \in Nat
           /\ S = {} => SumOver(f, S) = 0
           /\ S # {} => SumOver(f, S) = f[FirstOf(S)] + SumOver(f, S \ {FirstOf(S)})
<1>1. FoldClosed(SUBSET S)
    BY SumIsFold
<1>2. PICK g : SumsTo(f, SUBSET S, g) /\ SumOver(f, S) = g[S]
    BY SumIsFold
<1>3. g[S] \in Nat /\ g[S] = FoldStep(f, g, S)
    BY <1>2 DEF SumsTo
<1>4. ASSUME S # {} PROVE g[S \ {FirstOf(S)}] = SumOver(f, S \ {FirstOf(S)})
  <2> DEFINE T == S \ {FirstOf(S)}
  <2>1. IsFiniteSet(T) /\ T \subseteq S /\ \A x \in T : f[x] \in Nat
      BY <1>4, FirstLeaves
  <2> HIDE DEF T
  <2>2. FoldClosed(SUBSET T)
      BY <2>1, SumIsFold
  <2>3. PICK h : SumsTo(f, SUBSET T, h) /\ SumOver(f, T) = h[T]
      BY <2>1, SumIsFold
  <2>4. T \in (SUBSET S) \cap (SUBSET T)
      BY <2>1
  <2>5. g[T] = h[T]
      BY <1>1, <1>2, <2>2, <2>3, <2>4, FoldsAgree
  <2> QED BY <2>3, <2>5 DEF T
<1> QED BY <1>2, <1>3, <1>4 DEF FoldStep

\* The sum over a finite set of naturals is a natural.
LEMMA SumType ==
    ASSUME NEW f, NEW S, IsFiniteSet(S), \A x \in S : f[x] \in Nat
    PROVE  SumOver(f, S) \in Nat
BY SumStep

LEMMA SumEmpty == \A f : SumOver(f, {}) = 0
BY SumStep, FS_EmptySet

\* Any element can be taken first.
LEMMA SumRemove ==
    ASSUME NEW f, NEW S, IsFiniteSet(S), \A x \in S : f[x] \in Nat, NEW z \in S
    PROVE  SumOver(f, S) = f[z] + SumOver(f, S \ {z})
<1> DEFINE B == {T \in SUBSET S : \E x \in T : SumOver(f, T) # f[x] + SumOver(f, T \ {x})}
<1> SUFFICES ASSUME B # {} PROVE FALSE
    OBVIOUS
<1>0. \A T \in SUBSET S : IsFiniteSet(T)
    BY FS_Subset
<1>1. PICK T \in B : \A U \in B : Cardinality(T) <= Cardinality(U)
    BY <1>0, LeastSet
<1>2. T \subseteq S /\ IsFiniteSet(T) /\ \A y \in T : f[y] \in Nat
    BY <1>0, <1>1
<1>3. PICK x \in T : SumOver(f, T) # f[x] + SumOver(f, T \ {x})
    BY <1>1
<1> DEFINE y == FirstOf(T)
<1>4. y \in T /\ SumOver(f, T) = f[y] + SumOver(f, T \ {y})
    BY <1>2, <1>3, SumStep, FirstLeaves
<1> HIDE DEF y
<1>5. x # y
    BY <1>3, <1>4
<1>6. /\ IsFiniteSet(T \ {x}) /\ Cardinality(T \ {x}) = Cardinality(T) - 1
      /\ IsFiniteSet(T \ {y}) /\ Cardinality(T \ {y}) = Cardinality(T) - 1
      /\ Cardinality(T) \in Nat
    BY <1>2, <1>4, FS_RemoveElement, FS_CardinalityType
<1>7. ~(Cardinality(T) <= Cardinality(T \ {x})) /\ ~(Cardinality(T) <= Cardinality(T \ {y}))
    BY <1>6
<1>8. T \ {x} \notin B /\ T \ {y} \notin B
    BY <1>1, <1>7
<1>9. SumOver(f, T \ {y}) = f[x] + SumOver(f, (T \ {y}) \ {x})
    BY <1>2, <1>5, <1>8
<1>10. SumOver(f, T \ {x}) = f[y] + SumOver(f, (T \ {x}) \ {y})
    BY <1>2, <1>4, <1>5, <1>8
<1>11. (T \ {y}) \ {x} = (T \ {x}) \ {y}
    OBVIOUS
<1>12. IsFiniteSet((T \ {x}) \ {y}) /\ \A w \in (T \ {x}) \ {y} : f[w] \in Nat
    BY <1>2, <1>6, FS_Subset
<1>13. SumOver(f, (T \ {x}) \ {y}) \in Nat
    BY <1>12, SumType
<1>14. f[x] \in Nat /\ f[y] \in Nat
    BY <1>2, <1>4
<1> DEFINE a == SumOver(f, T \ {x})
           b == SumOver(f, T \ {y})
           c == SumOver(f, (T \ {x}) \ {y})
<1>15. c \in Nat /\ b = f[x] + c /\ a = f[y] + c
    BY <1>9, <1>10, <1>11, <1>13
<1>16. SumOver(f, T) = f[y] + b /\ SumOver(f, T) # f[x] + a
    BY <1>3, <1>4
<1> HIDE DEF a, b, c
<1> QED BY <1>14, <1>15, <1>16

\* One element more adds its value.
LEMMA SumAdd ==
    ASSUME NEW f, NEW S, IsFiniteSet(S), \A x \in S : f[x] \in Nat,
           NEW z, z \notin S, f[z] \in Nat
    PROVE  SumOver(f, S \cup {z}) = f[z] + SumOver(f, S)
<1>1. IsFiniteSet(S \cup {z}) /\ (S \cup {z}) \ {z} = S
    BY FS_AddElement
<1>2. \A x \in S \cup {z} : f[x] \in Nat
    OBVIOUS
<1> QED BY <1>1, <1>2, SumRemove

\* Functions that agree on the set have the same sum over it.
LEMMA SumSame ==
    ASSUME NEW f, NEW g, NEW S, IsFiniteSet(S),
           \A x \in S : f[x] \in Nat /\ f[x] = g[x]
    PROVE  SumOver(f, S) = SumOver(g, S)
<1> DEFINE B == {T \in SUBSET S : SumOver(f, T) # SumOver(g, T)}
<1> SUFFICES ASSUME B # {} PROVE FALSE
    OBVIOUS
<1>0. \A T \in SUBSET S : IsFiniteSet(T)
    BY FS_Subset
<1>1. PICK T \in B : \A U \in B : Cardinality(T) <= Cardinality(U)
    BY <1>0, LeastSet
<1>2. /\ T \subseteq S /\ IsFiniteSet(T)
      /\ \A y \in T : f[y] \in Nat
      /\ \A y \in T : g[y] \in Nat
    BY <1>0, <1>1
<1>3. T # {}
    BY <1>1, SumEmpty
<1>4. /\ SumOver(f, T) = f[FirstOf(T)] + SumOver(f, T \ {FirstOf(T)})
      /\ SumOver(g, T) = g[FirstOf(T)] + SumOver(g, T \ {FirstOf(T)})
    BY <1>2, <1>3, SumStep
<1>5. FirstOf(T) \in T /\ ~(Cardinality(T) <= Cardinality(T \ {FirstOf(T)}))
  <2>1. /\ FirstOf(T) \in T /\ Cardinality(T) \in Nat
        /\ Cardinality(T \ {FirstOf(T)}) = Cardinality(T) - 1
      BY <1>2, <1>3, FirstLeaves
  <2> QED BY <2>1
<1>6. T \ {FirstOf(T)} \notin B
    BY <1>1, <1>5
<1>7. SumOver(f, T \ {FirstOf(T)}) = SumOver(g, T \ {FirstOf(T)}) /\ f[FirstOf(T)] = g[FirstOf(T)]
    BY <1>1, <1>2, <1>5, <1>6
<1> QED BY <1>1, <1>4, <1>7

\* The sum over a set is made up of the sums over a part and over the rest.
LEMMA SumSplit ==
    ASSUME NEW f, NEW S, IsFiniteSet(S), \A x \in S : f[x] \in Nat, NEW P \in SUBSET S
    PROVE  SumOver(f, S) = SumOver(f, P) + SumOver(f, S \ P)
<1> DEFINE B == {T \in SUBSET S : SumOver(f, S) # SumOver(f, T) + SumOver(f, S \ T)}
<1> SUFFICES ASSUME B # {} PROVE FALSE
    OBVIOUS
<1>0. \A T \in SUBSET S : /\ IsFiniteSet(T) /\ \A y \in T : f[y] \in Nat
                          /\ SumOver(f, T) \in Nat
  <2>1. \A T \in SUBSET S : IsFiniteSet(T) /\ \A y \in T : f[y] \in Nat
      BY FS_Subset
  <2> QED BY <2>1, SumType
<1>1. PICK T \in B : \A U \in B : Cardinality(T) <= Cardinality(U)
    BY <1>0, LeastSet
<1>2. T \subseteq S /\ SumOver(f, S) # SumOver(f, T) + SumOver(f, S \ T)
    BY <1>1
<1>3. CASE T = {}
  <2>1. S \ T = S /\ SumOver(f, T) = 0 /\ SumOver(f, S) \in Nat
      BY <1>0, <1>3, SumEmpty
  <2> QED BY <1>2, <2>1
<1>4. CASE T # {}
  <2>1. PICK z : z \in T
      BY <1>4
  <2> DEFINE U == T \ {z}
             R == S \ T
  <2>2. /\ U \in SUBSET S /\ R \in SUBSET S /\ S \ U = R \cup {z}
        /\ z \notin R /\ f[z] \in Nat
      BY <1>2, <2>1
  <2>3. Cardinality(U) = Cardinality(T) - 1 /\ Cardinality(T) \in Nat
      BY <1>0, <1>2, <2>1, FS_RemoveElement, FS_CardinalityType
  <2>4. ~(Cardinality(T) <= Cardinality(U))
      BY <2>3
  <2>5. SumOver(f, S) = SumOver(f, U) + SumOver(f, R \cup {z})
      BY <1>1, <2>2, <2>4
  <2>6. SumOver(f, T) = f[z] + SumOver(f, U)
      BY <1>0, <1>2, <2>1, SumRemove
  <2> HIDE DEF U, R
  <2>7. SumOver(f, R \cup {z}) = f[z] + SumOver(f, R)
      BY <1>0, <2>2, SumAdd
  <2>8. SumOver(f, U) \in Nat /\ SumOver(f, R) \in Nat
      BY <1>0, <2>2
  <2>9. SumOver(f, S) # SumOver(f, T) + SumOver(f, R)
      BY <1>2 DEF R
  <2> QED BY <2>2, <2>5, <2>6, <2>7, <2>8, <2>9
<1> QED BY <1>3, <1>4

\* Values that are bounded one by one, up to factors, have sums that are.
LEMMA SumBound ==
    ASSUME NEW f, NEW g, NEW n \in Nat, NEW m \in Nat, NEW S, IsFiniteSet(S),
           \A x \in S : f[x] \in Nat /\ g[x] \in Nat /\ n * f[x] <= m * g[x]
    PROVE  n * SumOver(f, S) <= m * SumOver(g, S)
<1> DEFINE B == {T \in SUBSET S : ~(n * SumOver(f, T) <= m * SumOver(g, T))}
<1> SUFFICES ASSUME B # {} PROVE FALSE
    OBVIOUS
<1>0. \A T \in SUBSET S : IsFiniteSet(T)
    BY FS_Subset
<1>1. PICK T \in B : \A U \in B : Cardinality(T) <= Cardinality(U)
    BY <1>0, LeastSet
<1>2. /\ T \subseteq S /\ IsFiniteSet(T)
      /\ \A y \in T : f[y] \in Nat
      /\ \A y \in T : g[y] \in Nat
    BY <1>0, <1>1
<1>3. T # {}
  <2>1. n * 0 <= m * 0
      OBVIOUS
  <2> QED BY <1>1, <2>1, SumEmpty
<1> DEFINE z == FirstOf(T)
           U == T \ {z}
<1>4. /\ SumOver(f, T) = f[z] + SumOver(f, U)
      /\ SumOver(g, T) = g[z] + SumOver(g, U)
    BY <1>2, <1>3, SumStep
<1>5. z \in T /\ Cardinality(T) \in Nat /\ Cardinality(U) = Cardinality(T) - 1
    BY <1>2, <1>3, FirstLeaves
<1> HIDE DEF z
<1>6. ~(Cardinality(T) <= Cardinality(U))
    BY <1>5
<1>7. n * SumOver(f, U) <= m * SumOver(g, U)
    BY <1>1, <1>2, <1>6
<1>8. SumOver(f, U) \in Nat /\ SumOver(g, U) \in Nat
  <2>1. /\ IsFiniteSet(U) /\ \A y \in U : f[y] \in Nat
        /\ \A y \in U : g[y] \in Nat
      BY <1>2, FS_Subset
  <2> QED BY <2>1, SumType
<1>9. f[z] \in Nat /\ g[z] \in Nat /\ n * f[z] <= m * g[z]
    BY <1>2, <1>5
<1>10. \A a, b, c, d \in Nat : n * a <= m * b /\ n * c <= m * d => n * (a + c) <= m * (b + d)
  <2> SUFFICES ASSUME NEW a \in Nat, NEW b \in Nat, NEW c \in Nat, NEW d \in Nat,
                      n * a <= m * b, n * c <= m * d
               PROVE  n * (a + c) <= m * (b + d)
      OBVIOUS
  <2>1. n * (a + c) = n * a + n * c /\ m * (b + d) = m * b + m * d
      OBVIOUS
  <2>2. n * a \in Nat /\ n * c \in Nat /\ m * b \in Nat /\ m * d \in Nat
      OBVIOUS
  <2> QED BY <2>1, <2>2
<1>11. n * SumOver(f, T) <= m * SumOver(g, T)
    BY <1>4, <1>7, <1>8, <1>9, <1>10
<1> QED BY <1>1, <1>11

-----------------------------------------------------------------------------
(* The inductive invariant of the program *)

Distributions == UNION {[T -> Nat] : T \in SUBSET Stakers}

EpochAccount ==
    [status : {"Open", "Splitting", "DistributionCommitted", "Stale"}, started : Nat,
     closed : Nat, total : Nat, burn : Nat, staker : Nat, burnExecuted : BOOLEAN,
     root : Distributions, claims : SUBSET Stakers, claimed : Nat]

\* The epochs 0 to n exist, and only the last one is open.
EpochsTo(n) ==
    /\ n \in Nat
    /\ epoch \in [0..n -> EpochAccount]
    /\ \A i \in 0..n : epoch[i].status = "Open" <=> i = n

\* The claims made are leaves of the root; they add up to what is counted as
\* claimed, and before a root is committed there are none.
ClaimsCounted(e) ==
    /\ e.claims \subseteq DOMAIN e.root
    /\ e.claimed = SumOver(e.root, e.claims)
    /\ e.claimed <= e.staker
    /\ e.status \in {"Open", "Splitting"} => e.claims = {}

ProgramInv ==
    /\ now \in Nat
    /\ shares \in [Buckets -> Nat]
    /\ stakerVault \in Int
    /\ \E n \in Nat : EpochsTo(n)
    /\ \A i \in DOMAIN epoch : ClaimsCounted(epoch[i])
    /\ StakerVaultShortOnlyByFees

\* What the service relies on: an epoch that was closed stays closed, and its
\* staker amount stays what it was.
ClosedKept ==
    \A i \in DOMAIN epoch :
        /\ i \in DOMAIN epoch'
        /\ i \in Closed => i \in Closed' /\ epoch'[i].staker = epoch[i].staker

LEMMA DistributionIsLeaves == \A f : f \in Distributions <=> Leaves(f)
<1> SUFFICES ASSUME NEW f PROVE f \in Distributions <=> Leaves(f)
    OBVIOUS
<1>1. ASSUME NEW T \in SUBSET Stakers, f \in [T -> Nat] PROVE Leaves(f)
    BY <1>1 DEF Leaves
<1>2. ASSUME Leaves(f) PROVE f \in Distributions
    BY <1>2 DEF Leaves, Distributions
<1> QED BY <1>1, <1>2 DEF Distributions

LEMMA NoLeaves == [s \in {} |-> 0] \in Distributions /\ DOMAIN [s \in {} |-> 0] = {}
<1>1. [s \in {} |-> 0] \in [{} -> Nat]
    OBVIOUS
<1> QED BY <1>1 DEF Distributions

\* A distribution has finitely many leaves, and all amounts are naturals.
LEMMA LeavesFinite ==
    ASSUME NEW f, Leaves(f), NEW T \in SUBSET DOMAIN f
    PROVE  IsFiniteSet(T) /\ (\A s \in T : f[s] \in Nat) /\ SumOver(f, T) \in Nat
<1>1. IsFiniteSet(T) /\ \A s \in T : f[s] \in Nat
    BY FeeAssumption, FS_Subset DEF Leaves
<1> QED BY <1>1, SumType

\* next_epoch_id follows the last epoch.
LEMMA NextId ==
    ASSUME NEW n, EpochsTo(n)
    PROVE  /\ NextEpochId = n + 1 /\ CurrentEpochId = n /\ n \in DOMAIN epoch
           /\ DOMAIN epoch = 0..n /\ IsFiniteSet(0..n)
<1>1. n \in Nat /\ DOMAIN epoch = 0..n
    BY DEF EpochsTo
<1>2. IsFiniteSet(0..n) /\ Cardinality(0..n) = n + 1
    BY <1>1, FS_Interval
<1>3. NextEpochId = n + 1
    BY <1>1, <1>2 DEF NextEpochId
<1> QED BY <1>1, <1>2, <1>3 DEF CurrentEpochId

LEMMA FeeType == \A x \in Nat : TransferFee(x) \in Nat
<1> SUFFICES ASSUME NEW x \in Nat PROVE TransferFee(x) \in Nat
    OBVIOUS
<1>1. TransferFeeBps \in Nat
    BY FeeAssumption
<1>2. x * TransferFeeBps \in Nat
    BY <1>1
<1>3. \A y \in Nat : (y + 10000 - 1) \div 10000 \in Nat
    OBVIOUS
<1> QED BY <1>2, <1>3 DEF TransferFee, BpsDenominator

LEMMA SplitType == \A x, y \in Nat : (x * y) \div BpsDenominator \in Nat
<1> SUFFICES ASSUME NEW x \in Nat, NEW y \in Nat PROVE (x * y) \div BpsDenominator \in Nat
    OBVIOUS
<1>1. x * y \in Nat
    OBVIOUS
<1>2. \A z \in Nat : z \div 10000 \in Nat
    OBVIOUS
<1> QED BY <1>1, <1>2 DEF BpsDenominator

-----------------------------------------------------------------------------
(* The two sums *)

FeesPaid == [i \in DOMAIN epoch |-> TransferFee(epoch[i].staker)]
Residuals == [i \in DOMAIN epoch |-> ResidualStaker(i)]

LEMMA BooksFinite ==
    ASSUME NEW n, EpochsTo(n), \A i \in DOMAIN epoch : ClaimsCounted(epoch[i])
    PROVE  /\ IsFiniteSet(Closed) /\ (\A i \in Closed : FeesPaid[i] \in Nat)
           /\ IsFiniteSet(Live) /\ (\A i \in Live : Residuals[i] \in Nat)
           /\ SumOver(FeesPaid, Closed) \in Nat /\ SumOver(Residuals, Live) \in Nat
<1>1. DOMAIN epoch = 0..n /\ IsFiniteSet(0..n)
    BY NextId
<1>2. Closed \subseteq 0..n /\ Live \subseteq 0..n
    BY <1>1 DEF Closed, Live
<1>3. IsFiniteSet(Closed) /\ IsFiniteSet(Live)
    BY <1>1, <1>2, FS_Subset
<1>4. \A i \in 0..n : epoch[i].staker \in Nat /\ epoch[i].claimed \in Nat /\ epoch[i].claimed <= epoch[i].staker
    BY <1>1 DEF EpochsTo, EpochAccount, ClaimsCounted
<1>5. \A i \in 0..n : FeesPaid[i] \in Nat
    BY <1>1, <1>4, FeeType DEF FeesPaid
<1>6. \A i \in 0..n : Residuals[i] \in Nat
    BY <1>1, <1>4 DEF Residuals, ResidualStaker
<1>7. (\A i \in Closed : FeesPaid[i] \in Nat) /\ \A i \in Live : Residuals[i] \in Nat
    BY <1>2, <1>5, <1>6
<1> QED BY <1>3, <1>7, SumType

\* A step that changes neither the amounts nor which epochs are closed or
\* swept, nor the vault, leaves the books as they are.
LEMMA SameBooks ==
    ASSUME StakerVaultShortOnlyByFees, stakerVault' = stakerVault,
           DOMAIN epoch' = DOMAIN epoch,
           \A i \in DOMAIN epoch :
               /\ epoch'[i].staker = epoch[i].staker
               /\ epoch'[i].claimed = epoch[i].claimed
               /\ epoch'[i].status = "Open" <=> epoch[i].status = "Open"
               /\ epoch'[i].status = "Stale" <=> epoch[i].status = "Stale"
    PROVE  StakerVaultShortOnlyByFees'
<1>1. Closed' = Closed
    BY DEF Closed
<1>2. Live' = Live
    BY <1>1 DEF Live, Closed
<1>3. FeesPaid' = FeesPaid
    BY DEF FeesPaid, TransferFee
<1>4. Residuals' = Residuals
    BY DEF Residuals, ResidualStaker
<1> QED BY <1>1, <1>2, <1>3, <1>4 DEF StakerVaultShortOnlyByFees, FeesPaid, Residuals

-----------------------------------------------------------------------------
(* Each instruction keeps the invariant *)

\* A harvest or a report writes only fields of epochs other than the shares,
\* the claims, the root and the status keeps everything.
LEMMA CountedKeeps ==
    ASSUME ProgramInv, NEW a \in Amounts, Counted(a)
    PROVE  ProgramInv' /\ ClosedKept
<1>1. PICK n \in Nat : EpochsTo(n)
    BY DEF ProgramInv
<1>2. CurrentEpochId = n /\ DOMAIN epoch = 0..n /\ n \in 0..n
    BY <1>1, NextId
<1>3. a \in Nat /\ epoch \in [0..n -> EpochAccount]
    BY <1>1, FeeAssumption DEF EpochsTo
<1>4. epoch' = [epoch EXCEPT ![n].total = @ + a]
    BY <1>2 DEF Counted
<1>5. epoch' \in [0..n -> EpochAccount]
  <2>1. epoch[n] \in EpochAccount
      BY <1>2, <1>3
  <2>2. epoch[n].total + a \in Nat
      BY <1>3, <2>1 DEF EpochAccount
  <2>3. \A t \in Nat : [epoch[n] EXCEPT !.total = t] \in EpochAccount
      BY <2>1 DEF EpochAccount
  <2>4. epoch' = [epoch EXCEPT ![n] = [epoch[n] EXCEPT !.total = epoch[n].total + a]]
      BY <1>4
  <2> QED BY <1>3, <2>2, <2>3, <2>4
<1>6. \A i \in 0..n : /\ epoch'[i].status = epoch[i].status /\ epoch'[i].staker = epoch[i].staker
                      /\ epoch'[i].claimed = epoch[i].claimed /\ epoch'[i].claims = epoch[i].claims
                      /\ epoch'[i].root = epoch[i].root
    BY <1>2, <1>3, <1>4 DEF EpochAccount
<1>7. DOMAIN epoch' = 0..n /\ DOMAIN epoch = 0..n
    BY <1>2, <1>5
<1>8. EpochsTo(n)'
    BY <1>1, <1>5, <1>6 DEF EpochsTo
<1>9. \A i \in DOMAIN epoch' : ClaimsCounted(epoch'[i])
    BY <1>6, <1>7 DEF ProgramInv, ClaimsCounted
<1>10. now' = now /\ shares' = shares /\ stakerVault' = stakerVault
    BY DEF Counted, configVars
<1>11. StakerVaultShortOnlyByFees'
    BY <1>6, <1>7, <1>10, SameBooks DEF ProgramInv
<1>12. ClosedKept
    BY <1>6, <1>7 DEF ClosedKept, Closed
<1> QED BY <1>8, <1>9, <1>10, <1>11, <1>12 DEF ProgramInv

\* What process_epoch makes of the accounts.
LEMMA ProcessEffect ==
    ASSUME ProgramInv, NEW n, EpochsTo(n), NEW i \in DOMAIN epoch, ProcessEpoch(i)
    PROVE  \E x \in Nat :
              /\ i = n /\ EpochsTo(n + 1)'
              /\ epoch'[n].status = "Splitting" /\ epoch'[n].staker = x
              /\ epoch'[n].claimed = epoch[n].claimed /\ epoch'[n].claims = epoch[n].claims
              /\ epoch'[n].root = epoch[n].root
              /\ epoch'[n + 1] = OpenEpoch(now)
              /\ \A j \in 0..(n - 1) : epoch'[j] = epoch[j]
              /\ stakerVault' = stakerVault + (x - TransferFee(x))
<1> DEFINE x == BpsSplit(epoch[i].total)["staker"]
           y == BpsSplit(epoch[i].total)["burn"]
           closed == [epoch[i] EXCEPT !.status = "Splitting", !.closed = now,
                                      !.burn = y, !.staker = x]
<1>1. n \in Nat /\ DOMAIN epoch = 0..n /\ NextEpochId = n + 1 /\ epoch \in [0..n -> EpochAccount]
    BY NextId DEF EpochsTo
<1>2. i = n
    BY <1>1 DEF ProcessEpoch, CanProcess, EpochsTo
<1>3. now \in Nat /\ shares \in [Buckets -> Nat] /\ epoch[n] \in EpochAccount
    BY <1>1 DEF ProgramInv
<1>4. x \in Nat /\ y \in Nat
  <2>1. epoch[n].total \in Nat /\ shares["staker"] \in Nat /\ shares["burn"] \in Nat
      BY <1>3 DEF EpochAccount, Buckets
  <2> QED BY <1>2, <2>1, SplitType DEF BpsSplit
<1>5. /\ epoch' = [j \in (0..n) \cup {n + 1} |->
                        IF j = n + 1 THEN OpenEpoch(now)
                        ELSE IF j = n THEN closed ELSE epoch[j]]
      /\ stakerVault' = stakerVault + Received(x)
    BY <1>1, <1>2 DEF ProcessEpoch
<1> HIDE DEF x, y
<1>6. /\ closed \in EpochAccount /\ closed.status = "Splitting" /\ closed.staker = x
      /\ closed.claimed = epoch[n].claimed /\ closed.claims = epoch[n].claims
      /\ closed.root = epoch[n].root
    BY <1>2, <1>3, <1>4 DEF EpochAccount
<1>7. OpenEpoch(now) \in EpochAccount /\ OpenEpoch(now).status = "Open"
    BY <1>3, NoLeaves DEF OpenEpoch, EpochAccount
<1> HIDE DEF closed
<1>8. (0..n) \cup {n + 1} = 0..(n + 1)
    BY <1>1
<1>9. epoch' \in [0..(n + 1) -> EpochAccount]
    BY <1>1, <1>5, <1>6, <1>7, <1>8
<1>10. /\ epoch'[n] = closed /\ epoch'[n + 1] = OpenEpoch(now)
       /\ \A j \in 0..(n - 1) : epoch'[j] = epoch[j]
    BY <1>1, <1>5
<1>11. EpochsTo(n + 1)'
  <2>1. n + 1 \in Nat
      BY <1>1
  <2>2. \A j \in 0..(n + 1) : epoch'[j].status = "Open" <=> j = n + 1
    <3> SUFFICES ASSUME NEW j \in 0..(n + 1)
                 PROVE  epoch'[j].status = "Open" <=> j = n + 1
        OBVIOUS
    <3>1. CASE j = n + 1
        BY <1>7, <1>10, <3>1
    <3>2. CASE j = n
        BY <1>1, <1>6, <1>10, <3>2
    <3>3. CASE j \in 0..(n - 1)
      <4>1. j \in 0..n /\ j # n /\ j # n + 1
          BY <1>1, <3>3
      <4> QED BY <1>10, <3>3, <4>1 DEF EpochsTo
    <3> QED BY <1>1, <3>1, <3>2, <3>3
  <2> QED BY <1>9, <2>1, <2>2 DEF EpochsTo
<1> QED BY <1>2, <1>4, <1>5, <1>6, <1>10, <1>11 DEF Received


\* All epochs but the last are closed.
LEMMA ClosedAre == ASSUME NEW n, EpochsTo(n) PROVE Closed = 0..(n - 1) /\ Closed \subseteq DOMAIN epoch
<1>1. n \in Nat /\ DOMAIN epoch = 0..n /\ \A i \in 0..n : epoch[i].status = "Open" <=> i = n
    BY NextId DEF EpochsTo
<1>2. Closed = {i \in 0..n : i # n}
    BY <1>1 DEF Closed
<1> QED BY <1>1, <1>2

LEMMA ProcessKeeps ==
    ASSUME ProgramInv, NEW i \in DOMAIN epoch, ProcessEpoch(i)
    PROVE  ProgramInv' /\ ClosedKept
<1>1. PICK n \in Nat : EpochsTo(n)
    BY DEF ProgramInv
<1>2. PICK x \in Nat :
          /\ i = n /\ EpochsTo(n + 1)'
          /\ epoch'[n].status = "Splitting" /\ epoch'[n].staker = x
          /\ epoch'[n].claimed = epoch[n].claimed /\ epoch'[n].claims = epoch[n].claims
          /\ epoch'[n].root = epoch[n].root
          /\ epoch'[n + 1] = OpenEpoch(now)
          /\ \A j \in 0..(n - 1) : epoch'[j] = epoch[j]
          /\ stakerVault' = stakerVault + (x - TransferFee(x))
    BY <1>1, ProcessEffect
<1>3. now' = now /\ shares' = shares
    BY DEF ProcessEpoch, configVars
<1>4. DOMAIN epoch = 0..n /\ DOMAIN epoch' = 0..(n + 1) /\ n \in 0..n
    BY <1>1, <1>2, NextId DEF EpochsTo
<1>5. epoch[n].claims = {} /\ epoch[n].claimed = 0
  <2>1. epoch[n].status = "Open" /\ ClaimsCounted(epoch[n])
      BY <1>1, <1>4 DEF EpochsTo, ProgramInv
  <2> QED BY <2>1, SumEmpty DEF ClaimsCounted
<1>6. ASSUME NEW j \in DOMAIN epoch' PROVE ClaimsCounted(epoch'[j])
  <2>1. CASE j = n + 1
    <3>1. epoch'[j] = OpenEpoch(now)
        BY <1>2, <2>1
    <3>2. epoch'[j].claims = {} /\ epoch'[j].claimed = 0 /\ epoch'[j].staker = 0
        BY <3>1 DEF OpenEpoch
    <3> QED BY <3>2, SumEmpty DEF ClaimsCounted
  <2>2. CASE j = n
      BY <1>2, <1>5, <2>2, SumEmpty DEF ClaimsCounted
  <2>3. CASE j \in 0..(n - 1)
    <3>1. epoch'[j] = epoch[j] /\ j \in DOMAIN epoch
        BY <1>2, <1>4, <2>3
    <3> QED BY <3>1 DEF ProgramInv
  <2> QED BY <1>4, <2>1, <2>2, <2>3
<1>7. /\ Closed = 0..(n - 1) /\ Closed' = 0..n
      /\ Closed' = Closed \cup {n} /\ n \notin Closed
  <2>1. Closed = 0..(n - 1)
      BY <1>1, ClosedAre
  <2>2. Closed' = {j \in 0..(n + 1) : j # n + 1}
      BY <1>2, <1>4 DEF Closed, EpochsTo
  <2> QED BY <2>1, <2>2
<1>8. Live' = Live \cup {n} /\ n \notin Live
    BY <1>2, <1>7 DEF Live
<1>9. /\ \A j \in Closed : FeesPaid[j] = FeesPaid'[j] /\ Residuals[j] = Residuals'[j]
      /\ FeesPaid'[n] = TransferFee(x) /\ Residuals'[n] = x
  <2>1. \A j \in Closed : epoch'[j] = epoch[j] /\ j \in DOMAIN epoch /\ j \in DOMAIN epoch'
      BY <1>2, <1>4, <1>7
  <2>2. \A j \in Closed : FeesPaid[j] = FeesPaid'[j] /\ Residuals[j] = Residuals'[j]
      BY <2>1 DEF FeesPaid, Residuals, ResidualStaker, TransferFee
  <2>3. n \in DOMAIN epoch'
      BY <1>4
  <2>4. FeesPaid'[n] = TransferFee(x)
      BY <1>2, <2>3 DEF FeesPaid, TransferFee
  <2>5. Residuals'[n] = x - 0
      BY <1>2, <1>5, <2>3 DEF Residuals, ResidualStaker
  <2> QED BY <2>2, <2>4, <2>5
<1>10. /\ IsFiniteSet(Closed) /\ (\A j \in Closed : FeesPaid[j] \in Nat)
       /\ IsFiniteSet(Live) /\ (\A j \in Live : Residuals[j] \in Nat)
       /\ SumOver(FeesPaid, Closed) \in Nat /\ SumOver(Residuals, Live) \in Nat
    BY <1>1, BooksFinite DEF ProgramInv
<1>11. TransferFee(x) \in Nat /\ Live \subseteq Closed
    BY FeeType DEF Live
<1> DEFINE F == FeesPaid
           G == FeesPaid'
           R == Residuals
           Q == Residuals'
           C == Closed
           L == Live
<1>12. SumOver(G, C \cup {n}) = TransferFee(x) + SumOver(F, C)
  <2>1. /\ \A j \in C : F[j] \in Nat /\ F[j] = G[j]
        /\ \A j \in C : G[j] \in Nat
        /\ IsFiniteSet(C) /\ n \notin C /\ G[n] = TransferFee(x) /\ G[n] \in Nat
      BY <1>7, <1>9, <1>10, <1>11
  <2> HIDE DEF F, G, C
  <2> QED BY <2>1, SumSame, SumAdd
<1>13. SumOver(Q, L \cup {n}) = x + SumOver(R, L)
  <2>1. /\ \A j \in L : R[j] \in Nat /\ R[j] = Q[j]
        /\ \A j \in L : Q[j] \in Nat
        /\ IsFiniteSet(L) /\ n \notin L /\ Q[n] = x /\ Q[n] \in Nat
      BY <1>8, <1>9, <1>10, <1>11
  <2> HIDE DEF R, Q, L
  <2> QED BY <2>1, SumSame, SumAdd
<1>14. StakerVaultShortOnlyByFees'
  <2>1. stakerVault + SumOver(F, C) = SumOver(R, L)
      BY DEF ProgramInv, StakerVaultShortOnlyByFees, FeesPaid, Residuals
  <2>2. stakerVault \in Int /\ SumOver(F, C) \in Nat /\ SumOver(R, L) \in Nat
      BY <1>10 DEF ProgramInv
  <2>3. stakerVault' + SumOver(G, C \cup {n}) = SumOver(Q, L \cup {n})
    <3> HIDE DEF F, G, R, Q, C, L
    <3> QED BY <1>2, <1>11, <1>12, <1>13, <2>1, <2>2
  <2>4. stakerVault' + SumOver(FeesPaid', Closed') = SumOver(Residuals', Live')
      BY <1>7, <1>8, <2>3
  <2> QED BY <2>4 DEF StakerVaultShortOnlyByFees, FeesPaid, Residuals
<1>15. ClosedKept
    BY <1>2, <1>4, <1>7 DEF ClosedKept
<1>16. stakerVault' \in Int
    BY <1>2, <1>11 DEF ProgramInv
<1>17. n + 1 \in Nat
    OBVIOUS
<1> QED BY <1>2, <1>3, <1>6, <1>14, <1>15, <1>16, <1>17 DEF ProgramInv

\* What replacing one account by another that is open just as the first was
\* makes of the epochs.
LEMMA OneEpoch ==
    ASSUME NEW n, EpochsTo(n), NEW i \in 0..n, NEW e \in EpochAccount,
           e.status = "Open" <=> epoch[i].status = "Open",
           epoch' = [epoch EXCEPT ![i] = e]
    PROVE  /\ EpochsTo(n)' /\ epoch'[i] = e
           /\ \A j \in 0..n : j # i => epoch'[j] = epoch[j]
           /\ DOMAIN epoch' = 0..n /\ DOMAIN epoch = 0..n
<1>1. epoch \in [0..n -> EpochAccount] /\ n \in Nat
    BY DEF EpochsTo
<1>2. epoch' \in [0..n -> EpochAccount] /\ epoch'[i] = e
    BY <1>1
<1>3. \A j \in 0..n : j # i => epoch'[j] = epoch[j]
    BY <1>1
<1>4. \A j \in 0..n : epoch'[j].status = "Open" <=> epoch[j].status = "Open"
    BY <1>2, <1>3
<1> QED BY <1>1, <1>2, <1>3, <1>4 DEF EpochsTo

LEMMA BurnKeeps ==
    ASSUME ProgramInv, NEW i \in DOMAIN epoch, ExecuteBurn(i)
    PROVE  ProgramInv' /\ ClosedKept
<1>1. PICK n \in Nat : EpochsTo(n)
    BY DEF ProgramInv
<1>2. DOMAIN epoch = 0..n /\ i \in 0..n /\ epoch[i] \in EpochAccount
    BY <1>1, NextId DEF EpochsTo
<1> DEFINE e == [epoch[i] EXCEPT !.burnExecuted = TRUE]
<1>3. /\ e \in EpochAccount /\ e.status = epoch[i].status /\ e.staker = epoch[i].staker
      /\ e.claimed = epoch[i].claimed /\ e.claims = epoch[i].claims /\ e.root = epoch[i].root
    BY <1>2 DEF EpochAccount
<1>4. /\ epoch' = [epoch EXCEPT ![i] = e]
      /\ now' = now /\ shares' = shares /\ stakerVault' = stakerVault
    BY DEF ExecuteBurn, configVars
<1> HIDE DEF e
<1>5. /\ EpochsTo(n)' /\ epoch'[i] = e
      /\ \A j \in 0..n : j # i => epoch'[j] = epoch[j]
      /\ DOMAIN epoch' = 0..n /\ DOMAIN epoch = 0..n
    BY <1>1, <1>2, <1>3, <1>4, OneEpoch
<1>6. \A j \in 0..n : /\ epoch'[j].status = epoch[j].status /\ epoch'[j].staker = epoch[j].staker
                      /\ epoch'[j].claimed = epoch[j].claimed /\ epoch'[j].claims = epoch[j].claims
                      /\ epoch'[j].root = epoch[j].root
    BY <1>3, <1>5
<1>7. \A j \in DOMAIN epoch' : ClaimsCounted(epoch'[j])
    BY <1>5, <1>6 DEF ProgramInv, ClaimsCounted
<1>8. StakerVaultShortOnlyByFees'
    BY <1>4, <1>5, <1>6, SameBooks DEF ProgramInv
<1>9. ClosedKept
    BY <1>5, <1>6 DEF ClosedKept, Closed
<1> QED BY <1>4, <1>5, <1>7, <1>8, <1>9 DEF ProgramInv

\* A root is committed before there are claims.
LEMMA CommitKeeps ==
    ASSUME ProgramInv, NEW i \in DOMAIN epoch, NEW r, Leaves(r), CommitDistributionRoot(i, r)
    PROVE  ProgramInv' /\ ClosedKept
<1>1. PICK n \in Nat : EpochsTo(n)
    BY DEF ProgramInv
<1>2. DOMAIN epoch = 0..n /\ i \in 0..n /\ epoch[i] \in EpochAccount /\ r \in Distributions
    BY <1>1, NextId, DistributionIsLeaves DEF EpochsTo
<1>a. epoch[i].status = "Splitting" /\ ClaimsCounted(epoch[i])
    BY DEF ProgramInv, CommitDistributionRoot, CanCommit
<1> DEFINE e == [epoch[i] EXCEPT !.status = "DistributionCommitted", !.root = r]
<1>3. /\ e \in EpochAccount /\ e.status = "DistributionCommitted" /\ e.staker = epoch[i].staker
      /\ e.claimed = epoch[i].claimed /\ e.claims = epoch[i].claims /\ e.root = r
    BY <1>2 DEF EpochAccount
<1>4. /\ epoch' = [epoch EXCEPT ![i] = e]
      /\ now' = now /\ shares' = shares /\ stakerVault' = stakerVault
  <2>1. epoch' = [epoch EXCEPT ![i].status = "DistributionCommitted", ![i].root = r]
      BY DEF CommitDistributionRoot
  <2>2. epoch \in [0..n -> EpochAccount]
      BY <1>1 DEF EpochsTo
  <2> QED BY <1>2, <2>1, <2>2 DEF CommitDistributionRoot, configVars, vaultVars
<1> HIDE DEF e
<1>5. /\ EpochsTo(n)' /\ epoch'[i] = e
      /\ \A j \in 0..n : j # i => epoch'[j] = epoch[j]
      /\ DOMAIN epoch' = 0..n /\ DOMAIN epoch = 0..n
    BY <1>1, <1>2, <1>3, <1>4, <1>a, OneEpoch
<1>6. \A j \in 0..n : /\ epoch'[j].status = "Open" <=> epoch[j].status = "Open"
                      /\ epoch'[j].status = "Stale" <=> epoch[j].status = "Stale"
                      /\ epoch'[j].staker = epoch[j].staker
                      /\ epoch'[j].claimed = epoch[j].claimed
    BY <1>a, <1>3, <1>5
<1>7. ASSUME NEW j \in DOMAIN epoch' PROVE ClaimsCounted(epoch'[j])
  <2>1. CASE j = i
      BY <1>a, <1>3, <1>5, <2>1, SumEmpty DEF ClaimsCounted
  <2>2. CASE j # i
      BY <1>5, <2>2 DEF ProgramInv
  <2> QED BY <2>1, <2>2
<1>8. StakerVaultShortOnlyByFees'
    BY <1>4, <1>5, <1>6, SameBooks DEF ProgramInv
<1>9. ClosedKept
    BY <1>5, <1>6 DEF ClosedKept, Closed
<1> QED BY <1>4, <1>5, <1>7, <1>8, <1>9 DEF ProgramInv

\* A claim is one more leaf of the root, counted and paid from the vault.
LEMMA ClaimKeeps ==
    ASSUME ProgramInv, NEW i \in DOMAIN epoch, NEW s \in Stakers, ClaimStaker(i, s)
    PROVE  ProgramInv' /\ ClosedKept
<1>1. PICK n \in Nat : EpochsTo(n)
    BY DEF ProgramInv
<1>2. DOMAIN epoch = 0..n /\ i \in 0..n /\ epoch[i] \in EpochAccount
    BY <1>1, NextId DEF EpochsTo
<1> DEFINE root == epoch[i].root
           claims == epoch[i].claims
           claimed == epoch[i].claimed
           x == root[s]
<1>a. /\ epoch[i].status = "DistributionCommitted" /\ ClaimsCounted(epoch[i])
      /\ s \in DOMAIN root \ claims /\ claimed + x <= epoch[i].staker
    BY DEF ProgramInv, ClaimStaker
<1>b. Leaves(root) /\ claimed \in Nat /\ claims \subseteq DOMAIN root /\ epoch[i].staker \in Nat
    BY <1>2, <1>a, DistributionIsLeaves DEF EpochAccount, ClaimsCounted
<1>c. x \in Nat
    BY <1>a, <1>b DEF Leaves
<1>d. SumOver(root, claims \cup {s}) = x + SumOver(root, claims)
  <2>1. IsFiniteSet(claims) /\ \A t \in claims : root[t] \in Nat
      BY <1>b, LeavesFinite
  <2>2. s \notin claims /\ root[s] \in Nat
      BY <1>a, <1>c
  <2> HIDE DEF root, claims
  <2> QED BY <2>1, <2>2, SumAdd DEF x
<1> DEFINE e == [epoch[i] EXCEPT !.claims = claims \cup {s}, !.claimed = claimed + x]
<1>3. /\ e \in EpochAccount /\ e.status = epoch[i].status /\ e.staker = epoch[i].staker
      /\ e.claimed = claimed + x /\ e.claims = claims \cup {s} /\ e.root = root
  <2>1. claims \cup {s} \in SUBSET Stakers /\ claimed + x \in Nat
      BY <1>2, <1>b, <1>c DEF EpochAccount
  <2>2. PICK q \in SUBSET Stakers : q = claims \cup {s}
      BY <2>1
  <2>3. PICK k \in Nat : k = claimed + x
      BY <2>1
  <2>4. e = [epoch[i] EXCEPT !.claims = q, !.claimed = k]
      BY <2>2, <2>3
  <2> HIDE DEF e, claims, claimed, x
  <2>5. /\ e \in EpochAccount /\ e.status = epoch[i].status /\ e.staker = epoch[i].staker
        /\ e.claimed = k /\ e.claims = q /\ e.root = epoch[i].root
      BY <1>2, <2>4 DEF EpochAccount
  <2> QED BY <2>2, <2>3, <2>5
<1>4. /\ epoch' = [epoch EXCEPT ![i] = e]
      /\ now' = now /\ shares' = shares /\ stakerVault' = stakerVault - x
  <2>1. /\ epoch' = [epoch EXCEPT ![i].claims = @ \cup {s}, ![i].claimed = @ + x]
        /\ now' = now /\ shares' = shares /\ stakerVault' = stakerVault - x
      BY DEF ClaimStaker, configVars
  <2>2. epoch \in [0..n -> EpochAccount]
      BY <1>1 DEF EpochsTo
  <2>3. epoch' = [epoch EXCEPT ![i] = [epoch[i] EXCEPT !.claims = epoch[i].claims \cup {s},
                                                      !.claimed = epoch[i].claimed + x]]
    <3> HIDE DEF x
    <3> QED BY <1>2, <2>1, <2>2
  <2> QED BY <2>1, <2>3
<1> HIDE DEF e
<1>5. /\ EpochsTo(n)' /\ epoch'[i] = e
      /\ \A j \in 0..n : j # i => epoch'[j] = epoch[j]
      /\ DOMAIN epoch' = 0..n /\ DOMAIN epoch = 0..n
    BY <1>1, <1>2, <1>3, <1>4, OneEpoch
<1>6. \A j \in 0..n : epoch'[j].status = epoch[j].status /\ epoch'[j].staker = epoch[j].staker
    BY <1>3, <1>5
<1>7. ASSUME NEW j \in DOMAIN epoch' PROVE ClaimsCounted(epoch'[j])
  <2>1. CASE j = i
    <3>1. e.claims \subseteq DOMAIN e.root
        BY <1>3, <1>a, <1>b
    <3>2. e.claimed = SumOver(e.root, e.claims)
      <4>1. claimed = SumOver(root, claims)
          BY <1>a DEF ClaimsCounted
      <4> HIDE DEF claimed, claims, x, root
      <4> QED BY <1>3, <1>b, <1>c, <1>d, <4>1
    <3>3. e.claimed <= e.staker /\ e.status = "DistributionCommitted"
        BY <1>3, <1>a
    <3> QED BY <1>5, <2>1, <3>1, <3>2, <3>3 DEF ClaimsCounted
  <2>2. CASE j # i
      BY <1>5, <2>2 DEF ProgramInv
  <2> QED BY <2>1, <2>2
<1>8. Closed' = Closed /\ Live' = Live /\ i \in Live /\ FeesPaid' = FeesPaid
  <2>1. Closed' = Closed /\ i \in Closed
      BY <1>2, <1>5, <1>6, <1>a DEF Closed
  <2>2. Live' = Live /\ i \in Live
      BY <1>5, <1>6, <1>a, <2>1 DEF Live, Closed
  <2>3. FeesPaid' = FeesPaid
      BY <1>5, <1>6 DEF FeesPaid, TransferFee
  <2> QED BY <2>1, <2>2, <2>3
<1>9. /\ \A j \in Live \ {i} : Residuals'[j] = Residuals[j]
      /\ Residuals'[i] = Residuals[i] - x
  <2>1. Live \subseteq 0..n
      BY <1>2 DEF Live, Closed
  <2>2. \A j \in Live \ {i} : Residuals'[j] = Residuals[j]
      BY <1>5, <2>1 DEF Residuals, ResidualStaker
  <2>3. Residuals'[i] = epoch[i].staker - (claimed + x)
      BY <1>2, <1>3, <1>5 DEF Residuals, ResidualStaker
  <2>4. Residuals[i] = epoch[i].staker - claimed
      BY <1>2 DEF Residuals, ResidualStaker
  <2> HIDE DEF claimed, x
  <2> QED BY <1>b, <1>c, <2>2, <2>3, <2>4
<1>10. /\ IsFiniteSet(Live) /\ (\A j \in Live : Residuals[j] \in Nat)
       /\ SumOver(FeesPaid, Closed) \in Nat /\ SumOver(Residuals, Live) \in Nat
    BY <1>1, BooksFinite DEF ProgramInv
<1>11. Residuals'[i] \in Nat
  <2>1. /\ EpochsTo(n)' /\ \A j \in DOMAIN epoch' : ClaimsCounted(epoch'[j])
      BY <1>5, <1>7
  <2>2. epoch'[i].staker \in Nat /\ epoch'[i].claimed \in Nat /\ epoch'[i].claimed <= epoch'[i].staker
    <3>1. e.staker \in Nat /\ e.claimed \in Nat
        BY <1>3 DEF EpochAccount
    <3>2. ClaimsCounted(epoch'[i])
        BY <1>2, <1>5, <2>1
    <3> QED BY <1>5, <3>1, <3>2 DEF ClaimsCounted
  <2> QED BY <1>2, <1>5, <2>2 DEF Residuals, ResidualStaker
<1> DEFINE R == Residuals
           Q == Residuals'
           L == Live
<1>12. SumOver(Q, L) = SumOver(R, L) - x
  <2>1. /\ IsFiniteSet(L) /\ i \in L
        /\ \A j \in L : R[j] \in Nat
        /\ \A j \in L : Q[j] \in Nat
        /\ \A j \in L \ {i} : R[j] \in Nat /\ R[j] = Q[j]
        /\ Q[i] = R[i] - x /\ R[i] \in Nat
      BY <1>8, <1>9, <1>10, <1>11
  <2> HIDE DEF R, Q, L, x
  <2>2. IsFiniteSet(L \ {i})
      BY <2>1, FS_Subset
  <2>3. SumOver(R, L \ {i}) = SumOver(Q, L \ {i}) /\ SumOver(R, L \ {i}) \in Nat
      BY <2>1, <2>2, SumSame, SumType
  <2>4. SumOver(R, L) = R[i] + SumOver(R, L \ {i})
      BY <2>1, SumRemove
  <2>5. SumOver(Q, L) = Q[i] + SumOver(Q, L \ {i})
      BY <2>1, SumRemove
  <2> QED BY <1>c, <2>1, <2>3, <2>4, <2>5
<1>13. StakerVaultShortOnlyByFees' /\ stakerVault' \in Int
  <2>1. stakerVault + SumOver(FeesPaid, Closed) = SumOver(R, L)
      BY DEF ProgramInv, StakerVaultShortOnlyByFees, FeesPaid, Residuals
  <2>2. stakerVault \in Int /\ SumOver(FeesPaid, Closed) \in Nat /\ SumOver(R, L) \in Nat
      BY <1>10 DEF ProgramInv
  <2>3. stakerVault' + SumOver(FeesPaid, Closed) = SumOver(Q, L) /\ stakerVault' \in Int
    <3> HIDE DEF R, Q, L, x
    <3> QED BY <1>4, <1>c, <1>12, <2>1, <2>2
  <2>4. stakerVault' + SumOver(FeesPaid', Closed') = SumOver(Residuals', Live')
      BY <1>8, <2>3
  <2> QED BY <2>3, <2>4 DEF StakerVaultShortOnlyByFees, FeesPaid, Residuals
<1>14. ClosedKept
    BY <1>5, <1>6 DEF ClosedKept, Closed
<1> QED BY <1>4, <1>5, <1>7, <1>13, <1>14 DEF ProgramInv

\* What sweep_stale_epoch makes of the accounts: the epoch is over and the next
\* one, which always exists, has a larger total.
LEMMA SweepEffect ==
    ASSUME ProgramInv, NEW n, EpochsTo(n), NEW i \in DOMAIN epoch, SweepStaleEpoch(i)
    PROVE  /\ EpochsTo(n)' /\ i \in 0..(n - 1) /\ epoch'[i].status = "Stale"
           /\ \A j \in 0..n :
                 /\ j # i => epoch'[j].status = epoch[j].status
                 /\ epoch'[j].staker = epoch[j].staker /\ epoch'[j].claimed = epoch[j].claimed
                 /\ epoch'[j].claims = epoch[j].claims /\ epoch'[j].root = epoch[j].root
<1>1. n \in Nat /\ DOMAIN epoch = 0..n /\ epoch \in [0..n -> EpochAccount]
    BY NextId DEF EpochsTo
<1>2. i \in 0..(n - 1) /\ i + 1 \in 0..n /\ i # i + 1 /\ i \in 0..n
  <2>1. epoch[i].status # "Open" /\ i \in 0..n
      BY <1>1 DEF SweepStaleEpoch
  <2>2. i # n
      BY <2>1 DEF EpochsTo
  <2> QED BY <1>1, <2>1, <2>2
<1>3. PICK t : t = epoch[i + 1].total + ResidualStaker(i) + ResidualBurn(i)
    OBVIOUS
<1>4. t \in Nat
  <2>1. epoch[i] \in EpochAccount /\ epoch[i + 1] \in EpochAccount /\ ClaimsCounted(epoch[i])
      BY <1>1, <1>2 DEF ProgramInv
  <2>2. /\ epoch[i].staker \in Nat /\ epoch[i].claimed \in Nat /\ epoch[i].claimed <= epoch[i].staker
        /\ epoch[i].burn \in Nat /\ epoch[i + 1].total \in Nat
      BY <2>1 DEF EpochAccount, ClaimsCounted
  <2>3. ResidualStaker(i) \in Nat /\ ResidualBurn(i) \in Nat
      BY <2>2 DEF ResidualStaker, ResidualBurn
  <2> QED BY <1>3, <2>2, <2>3
<1>5. epoch' = [epoch EXCEPT ![i].status = "Stale", ![i + 1].total = t]
    BY <1>3 DEF SweepStaleEpoch
<1>6. /\ epoch'[i] = [epoch[i] EXCEPT !.status = "Stale"]
      /\ epoch'[i + 1] = [epoch[i + 1] EXCEPT !.total = t]
      /\ \A j \in 0..n : j # i /\ j # i + 1 => epoch'[j] = epoch[j]
      /\ DOMAIN epoch' = 0..n
    BY <1>1, <1>2, <1>5
<1>7. /\ epoch'[i] \in EpochAccount /\ epoch'[i].status = "Stale"
      /\ epoch'[i].staker = epoch[i].staker /\ epoch'[i].claimed = epoch[i].claimed
      /\ epoch'[i].claims = epoch[i].claims /\ epoch'[i].root = epoch[i].root
  <2>1. epoch[i] \in EpochAccount
      BY <1>1, <1>2
  <2> QED BY <1>6, <2>1 DEF EpochAccount
<1>8. /\ epoch'[i + 1] \in EpochAccount /\ epoch'[i + 1].status = epoch[i + 1].status
      /\ epoch'[i + 1].staker = epoch[i + 1].staker /\ epoch'[i + 1].claimed = epoch[i + 1].claimed
      /\ epoch'[i + 1].claims = epoch[i + 1].claims /\ epoch'[i + 1].root = epoch[i + 1].root
  <2>1. epoch[i + 1] \in EpochAccount
      BY <1>1, <1>2
  <2> QED BY <1>4, <1>6, <2>1 DEF EpochAccount
<1>9. \A j \in 0..n :
          /\ epoch'[j] \in EpochAccount
          /\ j # i => epoch'[j].status = epoch[j].status
          /\ epoch'[j].staker = epoch[j].staker /\ epoch'[j].claimed = epoch[j].claimed
          /\ epoch'[j].claims = epoch[j].claims /\ epoch'[j].root = epoch[j].root
  <2> SUFFICES ASSUME NEW j \in 0..n
               PROVE  /\ epoch'[j] \in EpochAccount
                      /\ j # i => epoch'[j].status = epoch[j].status
                      /\ epoch'[j].staker = epoch[j].staker /\ epoch'[j].claimed = epoch[j].claimed
                      /\ epoch'[j].claims = epoch[j].claims /\ epoch'[j].root = epoch[j].root
      OBVIOUS
  <2>1. CASE j = i
      BY <1>7, <2>1
  <2>2. CASE j = i + 1
      BY <1>8, <2>2
  <2>3. CASE j # i /\ j # i + 1
      BY <1>1, <1>6, <2>3
  <2> QED BY <2>1, <2>2, <2>3
<1>10. epoch' \in [0..n -> EpochAccount]
  <2>1. epoch' = [j \in 0..n |-> epoch'[j]]
      BY <1>1, <1>5
  <2> QED BY <1>9, <2>1
<1>11. \A j \in 0..n : epoch'[j].status = "Open" <=> j = n
    BY <1>2, <1>7, <1>9 DEF EpochsTo
<1> QED BY <1>1, <1>2, <1>7, <1>9, <1>10, <1>11 DEF EpochsTo

\* A sweep takes the epoch's residual out of the vault and out of what is owed.
LEMMA SweepKeeps ==
    ASSUME ProgramInv, NEW i \in DOMAIN epoch, SweepStaleEpoch(i)
    PROVE  ProgramInv' /\ ClosedKept
<1>1. PICK n \in Nat : EpochsTo(n)
    BY DEF ProgramInv
<1>2. /\ EpochsTo(n)' /\ i \in 0..(n - 1) /\ epoch'[i].status = "Stale"
      /\ \A j \in 0..n :
            /\ j # i => epoch'[j].status = epoch[j].status
            /\ epoch'[j].staker = epoch[j].staker /\ epoch'[j].claimed = epoch[j].claimed
            /\ epoch'[j].claims = epoch[j].claims /\ epoch'[j].root = epoch[j].root
    BY <1>1, SweepEffect
<1>3. DOMAIN epoch = 0..n /\ DOMAIN epoch' = 0..n /\ i \in 0..n
    BY <1>1, <1>2, NextId DEF EpochsTo
<1>4. /\ epoch[i].status \in {"Splitting", "DistributionCommitted"}
      /\ stakerVault' = stakerVault - ResidualStaker(i) /\ now' = now /\ shares' = shares
    BY DEF SweepStaleEpoch, configVars
<1>5. ASSUME NEW j \in DOMAIN epoch' PROVE ClaimsCounted(epoch'[j])
  <2>1. ClaimsCounted(epoch[j]) /\ j \in 0..n
      BY <1>3 DEF ProgramInv
  <2>2. epoch'[j].status \in {"Open", "Splitting"} => epoch[j].status \in {"Open", "Splitting"}
      BY <1>2, <2>1
  <2> QED BY <1>2, <2>1, <2>2 DEF ClaimsCounted
<1>6. /\ Closed' = Closed /\ i \in Live /\ Live' = Live \ {i}
      /\ FeesPaid' = FeesPaid /\ Residuals' = Residuals
  <2>1. Closed' = Closed
      BY <1>2, <1>3, <1>4 DEF Closed
  <2>2. i \in Live
      BY <1>3, <1>4 DEF Live, Closed
  <2>3. Live' = Live \ {i}
      BY <1>2, <1>3, <2>1 DEF Live, Closed
  <2>4. FeesPaid' = FeesPaid
      BY <1>2, <1>3 DEF FeesPaid, TransferFee
  <2>5. Residuals' = Residuals
      BY <1>2, <1>3 DEF Residuals, ResidualStaker
  <2> QED BY <2>1, <2>2, <2>3, <2>4, <2>5
<1>7. /\ IsFiniteSet(Live) /\ (\A j \in Live : Residuals[j] \in Nat)
      /\ SumOver(FeesPaid, Closed) \in Nat /\ SumOver(Residuals, Live) \in Nat
    BY <1>1, BooksFinite DEF ProgramInv
<1>8. SumOver(Residuals, Live) = Residuals[i] + SumOver(Residuals, Live \ {i})
    BY <1>6, <1>7, SumRemove
<1>9. SumOver(Residuals, Live \ {i}) \in Nat
  <2>1. IsFiniteSet(Live \ {i}) /\ \A j \in Live \ {i} : Residuals[j] \in Nat
      BY <1>7, FS_Subset
  <2> QED BY <2>1, SumType
<1>10. Residuals[i] = ResidualStaker(i) /\ Residuals[i] \in Nat
    BY <1>3, <1>6, <1>7 DEF Residuals
<1>11. StakerVaultShortOnlyByFees' /\ stakerVault' \in Int
  <2>1. stakerVault + SumOver(FeesPaid, Closed) = SumOver(Residuals, Live)
      BY DEF ProgramInv, StakerVaultShortOnlyByFees, FeesPaid, Residuals
  <2>2. stakerVault \in Int
      BY DEF ProgramInv
  <2>3. /\ stakerVault' + SumOver(FeesPaid, Closed) = SumOver(Residuals, Live \ {i})
        /\ stakerVault' \in Int
      BY <1>4, <1>7, <1>8, <1>9, <1>10, <2>1, <2>2
  <2>4. stakerVault' + SumOver(FeesPaid', Closed') = SumOver(Residuals', Live')
      BY <1>6, <2>3
  <2> QED BY <2>3, <2>4 DEF StakerVaultShortOnlyByFees, FeesPaid, Residuals
<1>12. ClosedKept
    BY <1>2, <1>3, <1>6 DEF ClosedKept
<1> QED BY <1>2, <1>4, <1>5, <1>11, <1>12 DEF ProgramInv

\* A step that leaves the epochs and the vault alone.
LEMMA QuietKeeps ==
    ASSUME ProgramInv, epoch' = epoch, stakerVault' = stakerVault,
           now' \in Nat, shares' \in [Buckets -> Nat]
    PROVE  ProgramInv' /\ ClosedKept
<1>1. PICK n \in Nat : EpochsTo(n)
    BY DEF ProgramInv
<1>2. EpochsTo(n)'
    BY <1>1 DEF EpochsTo
<1>3. \A j \in DOMAIN epoch' : ClaimsCounted(epoch'[j])
    BY DEF ProgramInv
<1>4. StakerVaultShortOnlyByFees'
    BY SameBooks DEF ProgramInv
<1>5. ClosedKept
    BY DEF ClosedKept, Closed
<1>6. stakerVault' \in Int
    BY DEF ProgramInv
<1> QED BY <1>2, <1>3, <1>4, <1>5, <1>6 DEF ProgramInv

\* Whatever anyone does, the program keeps its invariant.
LEMMA ProgramKeeps ==
    ASSUME ProgramInv, ProgramNext
    PROVE  ProgramInv' /\ ClosedKept
<1>1. ASSUME NEW a \in Amounts, HarvestTransferFees(a) \/ RecordIntake(a) \/ PayIn(a)
      PROVE  ProgramInv' /\ ClosedKept
  <2>1. CASE HarvestTransferFees(a) \/ RecordIntake(a)
      BY <2>1, CountedKeeps DEF HarvestTransferFees, RecordIntake
  <2>2. CASE PayIn(a)
    <3>1. /\ epoch' = epoch /\ stakerVault' = stakerVault
          /\ now' = now /\ shares' = shares
        BY <2>2 DEF PayIn, configVars
    <3> QED BY <3>1, QuietKeeps DEF ProgramInv
  <2> QED BY <1>1, <2>1, <2>2
<1>2. ASSUME NEW i \in DOMAIN epoch,
             \/ ProcessEpoch(i)
             \/ ExecuteBurn(i)
             \/ \E r \in Roots : CommitDistributionRoot(i, r)
             \/ \E s \in Stakers : ClaimStaker(i, s)
             \/ SweepStaleEpoch(i)
      PROVE  ProgramInv' /\ ClosedKept
  <2>1. \A r \in Roots : Leaves(r)
      BY FeeAssumption
  <2> QED BY <1>2, <2>1, ProcessKeeps, BurnKeeps, CommitKeeps, ClaimKeeps, SweepKeeps
<1>3. ASSUME NEW p \in Shares, SetDistributionParams(p)
      PROVE  ProgramInv' /\ ClosedKept
  <2>1. epoch' = epoch /\ stakerVault' = stakerVault /\ now' \in Nat /\ shares' \in [Buckets -> Nat]
      BY <1>3, FeeAssumption DEF SetDistributionParams, vaultVars, ProgramInv
  <2> QED BY <2>1, QuietKeeps
<1>4. ASSUME NEW p \in BOOLEAN, SetPaused(p)
      PROVE  ProgramInv' /\ ClosedKept
  <2>1. epoch' = epoch /\ stakerVault' = stakerVault /\ now' \in Nat /\ shares' \in [Buckets -> Nat]
      BY <1>4 DEF SetPaused, vaultVars, ProgramInv
  <2> QED BY <2>1, QuietKeeps
<1>5. CASE Advance
  <2>1. epoch' = epoch /\ stakerVault' = stakerVault /\ now' \in Nat /\ shares' \in [Buckets -> Nat]
      BY <1>5 DEF Advance, vaultVars, configVars, ProgramInv
  <2> QED BY <2>1, QuietKeeps
<1> QED BY <1>1, <1>2, <1>3, <1>4, <1>5 DEF ProgramNext

-----------------------------------------------------------------------------
(* The shares of a snapshot *)

\* The leaves of f add up to the amount x.
Pays(f, x) == Leaves(f) /\ SumOf(f) = x

LEMMA DivBelow == \A a \in Nat, b \in Nat \ {0} : a \div b \in Nat /\ b * (a \div b) <= a
OBVIOUS

LEMMA FactorBelow == \A a, b \in Nat, t \in Nat \ {0} : t * a <= b * t => a <= b
OBVIOUS

\* Rounding down leaves at most the pool, and the dust makes it up: the shares
\* of at least one staker add up to the whole pool.
LEMMA SharesPayPool ==
    ASSUME NEW p \in Powers, DOMAIN p # {}, NEW pool \in Nat, NEW f \in FeeShares(p, pool)
    PROVE  Pays(f, pool)
<1> DEFINE D == DOMAIN p
           total == SumOver(p, D)
           share == [s \in D |-> (p[s] * pool) \div total]
           given == SumOver(share, D)
<1>1. Leaves(p) /\ \A s \in D : p[s] > 0
    BY PowersAssumption
<1>2. IsFiniteSet(D) /\ (\A s \in D : p[s] \in Nat) /\ total \in Nat
    BY <1>1, LeavesFinite
<1>3. total \in Nat \ {0}
  <2>1. PICK z \in D : TRUE
      OBVIOUS
  <2>2. total = p[z] + SumOver(p, D \ {z})
      BY <1>2, SumRemove
  <2>3. SumOver(p, D \ {z}) \in Nat
      BY <1>1, LeavesFinite
  <2>4. p[z] \in Nat /\ p[z] > 0
      BY <1>1, <1>2
  <2> HIDE DEF total
  <2> QED BY <2>2, <2>3, <2>4
<1> HIDE DEF total
<1>4. \A s \in D : share[s] \in Nat /\ total * share[s] <= pool * p[s]
  <2> SUFFICES ASSUME NEW s \in D PROVE share[s] \in Nat /\ total * share[s] <= pool * p[s]
      OBVIOUS
  <2>1. p[s] * pool \in Nat /\ p[s] * pool = pool * p[s]
      BY <1>2
  <2>2. share[s] = (p[s] * pool) \div total
      OBVIOUS
  <2> QED BY <1>3, <2>1, <2>2, DivBelow
<1>5. f \in {[share EXCEPT ![m] = @ + (pool - given)] :
                m \in {s \in D : \A t \in D : share[t] <= share[s]}}
    BY <1>3 DEF FeeShares, SumOf, total
<1>6. DOMAIN share = D /\ share \in [D -> Nat]
    BY <1>4
<1> HIDE DEF share
<1>7. given \in Nat /\ given <= pool
  <2>1. given \in Nat
      BY <1>2, <1>4, SumType
  <2>2. total * given <= pool * SumOver(p, D)
      BY <1>2, <1>3, <1>4, SumBound
  <2>3. total * given <= pool * total
      BY <2>2 DEF total
  <2> HIDE DEF given
  <2> QED BY <1>3, <2>1, <2>3, FactorBelow
<1> HIDE DEF given
<1>8. PICK m \in D : f = [share EXCEPT ![m] = @ + (pool - given)]
    BY <1>5
<1>9. pool - given \in Nat
    BY <1>7
<1>10. /\ f \in [D -> Nat] /\ f[m] = share[m] + (pool - given)
       /\ \A s \in D \ {m} : f[s] = share[s]
  <2>1. share[m] + (pool - given) \in Nat
      BY <1>4, <1>9
  <2> QED BY <1>6, <1>8, <2>1
<1>11. SumOver(f, D) = f[m] + SumOver(f, D \ {m})
  <2>1. \A s \in D : f[s] \in Nat
      BY <1>10
  <2> QED BY <1>2, <2>1, SumRemove
<1>12. given = share[m] + SumOver(share, D \ {m})
    BY <1>2, <1>4, SumRemove DEF given
<1>13. SumOver(share, D \ {m}) = SumOver(f, D \ {m}) /\ SumOver(share, D \ {m}) \in Nat
  <2>1. IsFiniteSet(D \ {m}) /\ \A s \in D \ {m} : share[s] \in Nat /\ share[s] = f[s]
      BY <1>2, <1>4, <1>10, FS_Subset
  <2> QED BY <2>1, SumSame, SumType
<1>14. SumOver(f, D) = pool
  <2>1. share[m] \in Nat
      BY <1>4
  <2> QED BY <1>7, <1>10, <1>11, <1>12, <1>13, <2>1
<1>15. DOMAIN f = D /\ D \subseteq Stakers
    BY <1>1, <1>10 DEF Leaves
<1> QED BY <1>10, <1>14, <1>15 DEF Pays, Leaves, SumOf

-----------------------------------------------------------------------------
(* The inductive invariant of the service *)

\* The tick works on an epoch that exists; from the snapshot on on a closed
\* one, whose staker amount is the pool it read and what its leaves and the
\* saved ones add up to.
ServiceInv ==
    /\ pc # "idle" => currentId \in DOMAIN epoch
    /\ pc = "snapshot" => currentId \in Closed /\ seen.staker = epoch[currentId].staker
    /\ pc \in {"commit", "save"} => currentId \in Closed /\ Pays(fees, epoch[currentId].staker)
    /\ \A i \in DOMAIN db : i \in Closed /\ Pays(db[i], epoch[i].staker)

CrankInv == ProgramInv /\ ServiceInv

\* What is saved stays right.
LEMMA SavedKept ==
    ASSUME ServiceInv, ClosedKept, db' = db
    PROVE  \A i \in DOMAIN db' : i \in Closed' /\ Pays(db'[i], epoch'[i].staker)
<1>1. \A i \in Closed : i \in DOMAIN epoch
    BY DEF Closed
<1> QED BY <1>1 DEF ServiceInv, ClosedKept

\* Whatever others do between two awaits, the tick's own values stay right.
LEMMA TickKept ==
    ASSUME ServiceInv, ClosedKept, UNCHANGED <<tickVars, db>>
    PROVE  ServiceInv'
<1>1. \A i \in DOMAIN db' : i \in Closed' /\ Pays(db'[i], epoch'[i].staker)
    BY SavedKept
<1>2. pc' = pc /\ currentId' = currentId /\ seen' = seen /\ fees' = fees
    BY DEF tickVars
<1>3. pc # "idle" => currentId \in DOMAIN epoch'
    BY DEF ServiceInv, ClosedKept
<1>4. currentId \in Closed => currentId \in Closed' /\ epoch'[currentId].staker = epoch[currentId].staker
    BY DEF ClosedKept, Closed
<1> QED BY <1>1, <1>2, <1>3, <1>4 DEF ServiceInv

LEMMA DoneKept ==
    ASSUME ServiceInv, ClosedKept, db' = db, pc' = "idle"
    PROVE  ServiceInv'
BY SavedKept DEF ServiceInv

\* To a step that only needs the epoch to exist.
LEMMA GotoKept ==
    ASSUME ServiceInv, ClosedKept, db' = db, pc # "idle", pc' \in {"process", "harvest", "burn"},
           currentId' = currentId
    PROVE  ServiceInv'
<1>1. currentId' \in DOMAIN epoch'
    BY DEF ServiceInv, ClosedKept
<1> QED BY <1>1, SavedKept DEF ServiceInv

LEMMA NothingChanges == ASSUME ProgramInv, UNCHANGED programVars PROVE ProgramInv' /\ ClosedKept
<1>1. epoch' = epoch /\ stakerVault' = stakerVault /\ now' \in Nat /\ shares' \in [Buckets -> Nat]
    BY DEF programVars, vaultVars, configVars, ProgramInv
<1> QED BY <1>1, QuietKeeps

LEMMA ConfigKeeps == ASSUME CrankInv, TickConfig PROVE CrankInv'
<1>1. ProgramInv' /\ ClosedKept
    BY NothingChanges DEF CrankInv, TickConfig
<1>2. PICK n \in Nat : EpochsTo(n)
    BY DEF CrankInv, ProgramInv
<1>3. currentId' = n /\ n \in DOMAIN epoch /\ pc' = "epoch" /\ db' = db
    BY <1>2, NextId DEF TickConfig, CurrentEpochId
<1>4. ServiceInv'
    BY <1>1, <1>3, SavedKept DEF CrankInv, ServiceInv, ClosedKept
<1> QED BY <1>1, <1>4 DEF CrankInv

LEMMA EpochKeeps == ASSUME CrankInv, TickEpoch PROVE CrankInv'
<1>1. ProgramInv' /\ ClosedKept
    BY NothingChanges DEF CrankInv, TickEpoch
<1>2. epoch' = epoch /\ db' = db /\ pc = "epoch" /\ ServiceInv
    BY DEF TickEpoch, programVars, CrankInv
<1>3. CASE BranchOf(epoch[currentId]) = "idle"
    BY <1>1, <1>2, <1>3, DoneKept DEF CrankInv, TickEpoch, Done
<1>4. CASE BranchOf(epoch[currentId]) # "idle"
  <2>1. pc' = BranchOf(epoch[currentId]) /\ seen' = epoch[currentId] /\ currentId' = currentId
      BY <1>4 DEF TickEpoch
  <2>2. CASE pc' \in {"harvest", "burn"}
      BY <1>1, <1>2, <2>1, <2>2, GotoKept DEF CrankInv
  <2>3. CASE pc' = "snapshot"
    <3>1. epoch[currentId].status = "Splitting"
        BY <2>1, <2>3 DEF BranchOf
    <3>2. currentId \in DOMAIN epoch
        BY <1>2 DEF ServiceInv
    <3>3. currentId' \in Closed' /\ currentId' \in DOMAIN epoch' /\ seen'.staker = epoch'[currentId'].staker
        BY <1>2, <2>1, <3>1, <3>2 DEF Closed
    <3>4. ServiceInv'
        BY <1>1, <1>2, <2>3, <3>3, SavedKept DEF ServiceInv
    <3> QED BY <1>1, <3>4 DEF CrankInv
  <2> QED BY <1>4, <2>1, <2>2, <2>3 DEF BranchOf
<1> QED BY <1>3, <1>4

LEMMA HarvestKeeps == ASSUME CrankInv, TickHarvest PROVE CrankInv'
<1>1. ProgramInv' /\ ClosedKept
    BY NothingChanges, CountedKeeps DEF CrankInv, TickHarvest, HarvestTransferFees
<1>2. pc' = "idle" \/ (pc' = "process" /\ currentId' = currentId)
    BY DEF TickHarvest, AfterHarvest, Goto, Done
<1>3. db' = db /\ pc # "idle" /\ ServiceInv
    BY DEF TickHarvest, CrankInv
<1> QED BY <1>1, <1>2, <1>3, DoneKept, GotoKept DEF CrankInv

LEMMA ProcessBurnKeeps == ASSUME CrankInv, TickProcess \/ TickBurn PROVE CrankInv'
<1>1. currentId \in DOMAIN epoch
    BY DEF TickProcess, TickBurn, CrankInv, ServiceInv
<1>2. ProgramInv' /\ ClosedKept
    BY <1>1, NothingChanges, ProcessKeeps, BurnKeeps DEF CrankInv, TickProcess, TickBurn
<1>3. db' = db /\ pc' = "idle" /\ ServiceInv
    BY DEF TickProcess, TickBurn, Done, CrankInv
<1> QED BY <1>2, <1>3, DoneKept DEF CrankInv

LEMMA SnapshotKeeps == ASSUME CrankInv, TickSnapshot PROVE CrankInv'
<1>1. ProgramInv' /\ ClosedKept
    BY NothingChanges DEF CrankInv, TickSnapshot
<1>2. db' = db /\ epoch' = epoch /\ ServiceInv
    BY DEF TickSnapshot, CrankInv, programVars
<1>3. PICK p \in Powers : IF DOMAIN p = {} THEN Done
                          ELSE /\ fees' \in FeeShares(p, seen.staker)
                               /\ pc' = "commit" /\ UNCHANGED <<currentId, seen>>
    BY DEF TickSnapshot
<1>4. CASE DOMAIN p = {}
    BY <1>1, <1>2, <1>3, <1>4, DoneKept DEF CrankInv, Done
<1>5. CASE DOMAIN p # {}
  <2>1. currentId \in Closed /\ seen.staker = epoch[currentId].staker /\ currentId \in DOMAIN epoch
      BY <1>2 DEF TickSnapshot, ServiceInv
  <2>2. seen.staker \in Nat
      BY <2>1 DEF CrankInv, ProgramInv, EpochsTo, EpochAccount
  <2>3. Pays(fees', seen.staker)
      BY <1>3, <1>5, <2>2, SharesPayPool
  <2>4. Closed' = Closed /\ currentId' = currentId /\ pc' = "commit"
      BY <1>2, <1>3, <1>5 DEF Closed
  <2>5. ServiceInv'
      BY <1>1, <1>2, <2>1, <2>3, <2>4, SavedKept DEF ServiceInv
  <2> QED BY <1>1, <2>5 DEF CrankInv
<1> QED BY <1>4, <1>5

LEMMA TickCommitKeeps == ASSUME CrankInv, TickCommit PROVE CrankInv'
<1>1. /\ currentId \in Closed /\ currentId \in DOMAIN epoch /\ Pays(fees, epoch[currentId].staker)
      /\ ServiceInv /\ ProgramInv
    BY DEF TickCommit, CrankInv, ServiceInv
<1>2. ProgramInv' /\ ClosedKept
    BY <1>1, NothingChanges, CommitKeeps DEF TickCommit, Pays
<1>3. pc' = "save" /\ currentId' = currentId /\ fees' = fees /\ db' = db
    BY DEF TickCommit, Goto
<1>4. ServiceInv'
    BY <1>1, <1>2, <1>3, SavedKept DEF ServiceInv, ClosedKept
<1> QED BY <1>2, <1>4 DEF CrankInv

LEMMA SaveKeeps == ASSUME CrankInv, TickSave PROVE CrankInv'
<1>1. ProgramInv' /\ ClosedKept
    BY NothingChanges DEF CrankInv, TickSave
<1>2. epoch' = epoch /\ pc' = "idle" /\ ServiceInv
    BY DEF TickSave, programVars, Done, CrankInv
<1>3. Closed' = Closed
    BY <1>2 DEF Closed
<1>4. currentId \in Closed /\ Pays(fees, epoch[currentId].staker)
    BY <1>2 DEF TickSave, ServiceInv
<1>5. ASSUME NEW i \in DOMAIN db' PROVE i \in Closed' /\ Pays(db'[i], epoch'[i].staker)
  <2>1. CASE i = currentId
    <3>1. db'[i] = fees
        BY <2>1 DEF TickSave
    <3> QED BY <1>2, <1>3, <1>4, <2>1, <3>1
  <2>2. CASE i # currentId
    <3>1. i \in DOMAIN db /\ db'[i] = db[i]
        BY <2>2 DEF TickSave
    <3> QED BY <1>2, <1>3, <3>1 DEF ServiceInv
  <2> QED BY <2>1, <2>2
<1>6. ServiceInv'
    BY <1>2, <1>5 DEF ServiceInv
<1> QED BY <1>1, <1>6 DEF CrankInv

\* A lost commit goes on to the save with the same leaves.
LEMMA FailureKeeps == ASSUME CrankInv, TransactionLost \/ TickAborted PROVE CrankInv'
<1>1. ProgramInv' /\ ClosedKept /\ db' = db /\ ServiceInv
    BY NothingChanges DEF CrankInv, TransactionLost, TickAborted
<1>2. \/ pc' = "idle"
      \/ /\ pc = "commit" /\ pc' = "save"
         /\ currentId' = currentId /\ fees' = fees
    BY DEF TransactionLost, TickAborted, Done, Goto
<1>3. CASE pc' = "idle"
    BY <1>1, <1>3, DoneKept DEF CrankInv
<1>4. CASE pc = "commit" /\ pc' = "save" /\ currentId' = currentId /\ fees' = fees
  <2>1. currentId \in Closed /\ Pays(fees, epoch[currentId].staker) /\ currentId \in DOMAIN epoch
      BY <1>1, <1>4 DEF ServiceInv
  <2>2. ServiceInv'
      BY <1>1, <1>4, <2>1, SavedKept DEF ServiceInv, ClosedKept
  <2> QED BY <1>1, <2>2 DEF CrankInv
<1> QED BY <1>2, <1>3, <1>4

\* CrankInv is inductive.
LEMMA StepKeeps == CrankInv /\ [Next]_vars => CrankInv'
<1> SUFFICES ASSUME CrankInv, [Next]_vars PROVE CrankInv'
    OBVIOUS
<1>1. CASE Others
  <2>1. ProgramInv' /\ ClosedKept /\ ServiceInv
      BY <1>1, ProgramKeeps DEF Others, CrankInv
  <2>2. UNCHANGED <<tickVars, db>>
      BY <1>1 DEF Others
  <2> QED BY <2>1, <2>2, TickKept DEF CrankInv
<1>2. CASE UNCHANGED vars
  <2>1. ProgramInv' /\ ClosedKept /\ ServiceInv
      BY <1>2, NothingChanges DEF vars, CrankInv
  <2>2. UNCHANGED <<tickVars, db>>
      BY <1>2 DEF vars
  <2> QED BY <2>1, <2>2, TickKept DEF CrankInv
<1> QED BY <1>1, <1>2, ConfigKeeps, EpochKeeps, HarvestKeeps, ProcessBurnKeeps, SnapshotKeeps,
          TickCommitKeeps, SaveKeeps, FailureKeeps DEF Next

LEMMA InitKeeps == Init => CrankInv
<1> SUFFICES ASSUME Init PROVE CrankInv
    OBVIOUS
<1>1. /\ now = 0 /\ shares = InitialShares /\ stakerVault = 0 /\ epoch = [i \in {0} |-> OpenEpoch(0)]
      /\ pc = "idle" /\ DOMAIN db = {}
    BY DEF Init, ProgramInit
<1>2. OpenEpoch(0) \in EpochAccount /\ OpenEpoch(0).status = "Open"
    BY NoLeaves DEF OpenEpoch, EpochAccount
<1>3. EpochsTo(0) /\ DOMAIN epoch = {0} /\ epoch[0] = OpenEpoch(0)
  <2>1. 0..0 = {0}
      OBVIOUS
  <2>2. epoch \in [0..0 -> EpochAccount]
      BY <1>1, <1>2, <2>1
  <2> QED BY <1>1, <1>2, <2>1, <2>2 DEF EpochsTo
<1>4. ClaimsCounted(OpenEpoch(0))
  <2>1. OpenEpoch(0).claims = {} /\ OpenEpoch(0).claimed = 0 /\ OpenEpoch(0).staker = 0
      BY DEF OpenEpoch
  <2> QED BY <2>1, SumEmpty DEF ClaimsCounted
<1>5. Closed = {} /\ Live = {}
    BY <1>2, <1>3 DEF Closed, Live
<1>6. StakerVaultShortOnlyByFees
    BY <1>1, <1>5, SumEmpty DEF StakerVaultShortOnlyByFees
<1>7. ProgramInv
    BY <1>1, <1>3, <1>4, <1>6, FeeAssumption DEF ProgramInv
<1>8. ServiceInv
    BY <1>1 DEF ServiceInv
<1> QED BY <1>7, <1>8 DEF CrankInv

LEMMA AlwaysKeeps == Spec => []CrankInv
BY InitKeeps, StepKeeps, PTL DEF Spec

-----------------------------------------------------------------------------
(* The theorems *)

\* What the staker vault lacks of the amounts still owed to stakers is exactly
\* the fees the mint withheld when process_epoch filled it, for any number of
\* epochs and stakers and any order of claims, commits and sweeps.
THEOREM VaultLacksOnlyFees == Spec => []StakerVaultShortOnlyByFees
<1>1. CrankInv => StakerVaultShortOnlyByFees
    BY DEF CrankInv, ProgramInv
<1> QED BY <1>1, AlwaysKeeps, PTL

\* When the root on chain is the one the proof API serves, the claims made and
\* the leaves left make up the staker amount exactly, for any stakers and
\* powers, although the snapshot, the commit and the save are three awaits of
\* a tick that may fail, be repeated or be overtaken at each of them.
THEOREM ServedLeavesAlwaysFit == Spec => []ServedLeavesFit
<1>1. CrankInv => ServedLeavesFit
  <2> SUFFICES ASSUME CrankInv, NEW i \in DOMAIN db, epoch[i].root = db[i]
               PROVE  epoch[i].claimed + SumOver(db[i], DOMAIN db[i] \ epoch[i].claims)
                         = epoch[i].staker
      BY DEF ServedLeavesFit
  <2>1. i \in DOMAIN epoch /\ Leaves(db[i]) /\ SumOf(db[i]) = epoch[i].staker
      BY DEF CrankInv, ServiceInv, Pays, Closed
  <2>2. epoch[i].claims \subseteq DOMAIN db[i] /\ epoch[i].claimed = SumOver(db[i], epoch[i].claims)
      BY <2>1 DEF CrankInv, ProgramInv, ClaimsCounted
  <2>3. IsFiniteSet(DOMAIN db[i]) /\ \A s \in DOMAIN db[i] : db[i][s] \in Nat
      BY <2>1, LeavesFinite
  <2>4. SumOver(db[i], DOMAIN db[i])
            = SumOver(db[i], epoch[i].claims) + SumOver(db[i], DOMAIN db[i] \ epoch[i].claims)
      BY <2>2, <2>3, SumSplit
  <2> QED BY <2>1, <2>2, <2>4 DEF SumOf
<1> QED BY <1>1, AlwaysKeeps, PTL
=============================================================================

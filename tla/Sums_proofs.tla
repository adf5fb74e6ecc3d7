----------------------------- MODULE Sums_proofs -----------------------------
(***************************************************************************)
(* What a proof needs to know of a sum.  The community modules define it   *)
(* by a fold, a recursive function that takes elements out of the set one  *)
(* at a time, in an order CHOOSE decides.  That the recursion is well      *)
(* founded, and that the order does not matter, is proved here by looking  *)
(* at a smallest subset that would be a counterexample.                    *)
(***************************************************************************)
EXTENDS Sums, FiniteSets, FiniteSetTheorems, WellFoundedInduction, TLAPS

Pick(T) == CHOOSE x \in T : TRUE

(* The equation of the recursive function behind SumOver(f, T).            *)
Adds(f, T, g) ==
    g = [X \in SUBSET T |->
            IF X = {} THEN 0 ELSE f[Pick(X)] + g[X \ {Pick(X)}]]

Adding(f, T) == CHOOSE g : Adds(f, T, g)

(* SumOver is that function, applied to the whole set.                     *)
LEMMA SumUnfolds ==
    ASSUME NEW f, NEW T
    PROVE  SumOver(f, T) = Adding(f, T)[T]
BY DEF SumOver, MapThenSumSet, MapThenFoldSet, Adding, Adds, Pick

(* Pick finds an element of every set that has one.                        *)
LEMMA PickIsIn == ASSUME NEW T, T # {} PROVE Pick(T) \in T
BY DEF Pick

(* Among subsets of a finite set there is one that none of the others is   *)
(* part of.  Every induction below is over a set of counterexamples.       *)
LEMMA SmallestSubset ==
    ASSUME NEW S, IsFiniteSet(S), NEW B \in SUBSET (SUBSET S), B # {}
    PROVE  \E T \in B : \A U \in B : U \subseteq T => U = T
<1>1. IsWellFoundedOn(StrictSubsetOrdering(S), FiniteSubsetsOf(S))
  BY FS_StrictSubsetOrderingWellFounded
<1>2. B \subseteq FiniteSubsetsOf(S)
  BY FS_FiniteSubsetsOfFinite
<1>3. PICK T \in B : \A U \in B : <<U, T>> \notin StrictSubsetOrdering(S)
  BY <1>1, <1>2, WFMin
<1> QED BY <1>3 DEF StrictSubsetOrdering

(* Two such functions agree where both are defined.                        *)
LEMMA AddsAgree ==
    ASSUME NEW S, IsFiniteSet(S), NEW T \in SUBSET S, NEW f, NEW g, NEW h,
           Adds(f, S, g), Adds(f, T, h)
    PROVE  \A X \in SUBSET T : g[X] = h[X]
<1> DEFINE B == {X \in SUBSET T : g[X] # h[X]}
<1> SUFFICES ASSUME B # {} PROVE FALSE
  OBVIOUS
<1>1. IsFiniteSet(T)
  BY FS_Subset
<1>2. PICK X \in B : \A U \in B : U \subseteq X => U = X
  <2>1. B \in SUBSET (SUBSET T)
    OBVIOUS
  <2> HIDE DEF B
  <2> QED BY <1>1, <2>1, SmallestSubset
<1>3. /\ g[X] = IF X = {} THEN 0 ELSE f[Pick(X)] + g[X \ {Pick(X)}]
      /\ h[X] = IF X = {} THEN 0 ELSE f[Pick(X)] + h[X \ {Pick(X)}]
  BY DEF Adds
<1>4. X # {}
  BY <1>3
<1>5. X \ {Pick(X)} \notin B /\ X \ {Pick(X)} \in SUBSET T
  BY <1>2, <1>4, PickIsIn
<1> QED BY <1>3, <1>4, <1>5

(* There is one for every finite set.                                      *)
LEMMA AddsExists ==
    ASSUME NEW S, IsFiniteSet(S), NEW f
    PROVE  \E g : Adds(f, S, g)
<1> DEFINE B == {T \in SUBSET S : ~ \E g : Adds(f, T, g)}
<1> SUFFICES ASSUME B # {} PROVE FALSE
  OBVIOUS
<1>1. PICK T \in B : \A U \in B : U \subseteq T => U = T
  <2>1. B \in SUBSET (SUBSET S)
    OBVIOUS
  <2> HIDE DEF B
  <2> QED BY <2>1, SmallestSubset
<1>2. \A U \in SUBSET T : U # T => Adds(f, U, Adding(f, U))
  BY <1>1 DEF Adding
<1> DEFINE V(U) == Adding(f, U)[U]
           g == [X \in SUBSET T |->
                   IF X = {} THEN 0
                   ELSE f[Pick(X)] + V(X \ {Pick(X)})]
<1>3. ASSUME NEW U \in SUBSET T, U # T
      PROVE  g[U] = V(U)
  <2>1. Adds(f, U, Adding(f, U))
    BY <1>2, <1>3
  <2>2. V(U) = IF U = {} THEN 0
               ELSE f[Pick(U)] + Adding(f, U)[U \ {Pick(U)}]
    BY <2>1 DEF Adds
  <2>3. CASE U # {}
    <3> DEFINE W == U \ {Pick(U)}
    <3>1. W \in SUBSET U /\ W # T /\ W \in SUBSET T
      BY <1>3, <2>3, PickIsIn
    <3>2. Adds(f, W, Adding(f, W))
      BY <1>2, <3>1
    <3>3. IsFiniteSet(U)
      <4>1. U \in SUBSET S
        BY <1>3
      <4> QED BY <4>1, FS_Subset
    <3>4. Adding(f, U)[W] = Adding(f, W)[W]
      BY <2>1, <3>1, <3>2, <3>3, AddsAgree
    <3> QED BY <1>3, <2>2, <2>3, <3>4
  <2> QED BY <1>3, <2>2, <2>3
<1>4. Adds(f, T, g)
  <2>1. \A X \in SUBSET T : X # {} =>
          /\ X \ {Pick(X)} \in SUBSET T
          /\ X \ {Pick(X)} # T
    BY PickIsIn
  <2>2. \A X \in SUBSET T : X # {} => g[X \ {Pick(X)}] = V(X \ {Pick(X)})
    BY <1>3, <2>1
  <2> HIDE DEF V
  <2> QED BY <2>2 DEF Adds
<1> QED BY <1>1, <1>4

(* The sum over no element is 0; otherwise one element is taken out.       *)
LEMMA SumPicks ==
    ASSUME NEW S, IsFiniteSet(S), NEW f
    PROVE  SumOver(f, S) = IF S = {} THEN 0
                           ELSE f[Pick(S)] + SumOver(f, S \ {Pick(S)})
<1>1. Adds(f, S, Adding(f, S))
  BY AddsExists DEF Adding
<1>2. Adding(f, S)[S] =
        IF S = {} THEN 0 ELSE f[Pick(S)] + Adding(f, S)[S \ {Pick(S)}]
  BY <1>1 DEF Adds
<1>3. CASE S # {}
  <2> DEFINE T == S \ {Pick(S)}
  <2>1. T \in SUBSET S /\ IsFiniteSet(T)
    BY FS_Subset
  <2>2. Adds(f, T, Adding(f, T))
    BY <2>1, AddsExists DEF Adding
  <2>3. Adding(f, S)[T] = Adding(f, T)[T]
    BY <1>1, <2>1, <2>2, AddsAgree
  <2> QED BY <1>2, <1>3, <2>3, SumUnfolds
<1> QED BY <1>2, <1>3, SumUnfolds

-----------------------------------------------------------------------------
(* What the other proofs use.                                              *)

(* The sum over the empty set.                                             *)
LEMMA SumEmpty == ASSUME NEW f PROVE SumOver(f, {}) = 0
BY SumPicks, FS_EmptySet

(* Sums of integers are integers.                                          *)
LEMMA SumInt ==
    ASSUME NEW S, IsFiniteSet(S), NEW f, \A x \in S : f[x] \in Int
    PROVE  SumOver(f, S) \in Int
<1> DEFINE B == {T \in SUBSET S : SumOver(f, T) \notin Int}
<1> SUFFICES ASSUME B # {} PROVE FALSE
  OBVIOUS
<1>1. PICK T \in B : \A U \in B : U \subseteq T => U = T
  <2>1. B \in SUBSET (SUBSET S)
    OBVIOUS
  <2> HIDE DEF B
  <2> QED BY <2>1, SmallestSubset
<1>2. IsFiniteSet(T)
  BY FS_Subset
<1>3. CASE T # {}
  <2>1. SumOver(f, T) = f[Pick(T)] + SumOver(f, T \ {Pick(T)})
    BY <1>2, <1>3, SumPicks
  <2>2. SumOver(f, T \ {Pick(T)}) \in Int
    BY <1>1, <1>3, PickIsIn
  <2> QED BY <1>3, <2>1, <2>2, PickIsIn
<1>4. CASE T = {}
  BY <1>1, <1>4, SumEmpty
<1> QED BY <1>3, <1>4

(* Any element may be taken out of a sum.                                  *)
LEMMA SumRemove ==
    ASSUME NEW S, IsFiniteSet(S), NEW f, \A x \in S : f[x] \in Int,
           NEW a \in S
    PROVE  SumOver(f, S) = f[a] + SumOver(f, S \ {a})
<1> DEFINE B == {T \in SUBSET S :
                   \E x \in T : SumOver(f, T) # f[x] + SumOver(f, T \ {x})}
<1> SUFFICES ASSUME B # {} PROVE FALSE
  OBVIOUS
<1>1. PICK T \in B : \A U \in B : U \subseteq T => U = T
  <2>1. B \in SUBSET (SUBSET S)
    OBVIOUS
  <2> HIDE DEF B
  <2> QED BY <2>1, SmallestSubset
<1>2. PICK x \in T : SumOver(f, T) # f[x] + SumOver(f, T \ {x})
  BY <1>1
<1> DEFINE y == Pick(T)
<1>3. y \in T
  BY PickIsIn
<1>4. IsFiniteSet(T) /\ IsFiniteSet(T \ {x}) /\ IsFiniteSet(T \ {y})
  BY FS_Subset, FS_RemoveElement
<1>5. SumOver(f, T) = f[y] + SumOver(f, T \ {y})
  BY <1>4, SumPicks
<1>6. x # y
  BY <1>2, <1>5
<1>7. T \ {x} \notin B /\ T \ {y} \notin B
  BY <1>1, <1>3
<1>8. SumOver(f, T \ {y}) = f[x] + SumOver(f, (T \ {y}) \ {x})
  BY <1>3, <1>6, <1>7
<1>9. SumOver(f, T \ {x}) = f[y] + SumOver(f, (T \ {x}) \ {y})
  BY <1>3, <1>6, <1>7
<1>10. (T \ {y}) \ {x} = (T \ {x}) \ {y}
  OBVIOUS
<1>11. SumOver(f, (T \ {x}) \ {y}) \in Int
  <2> DEFINE R == (T \ {x}) \ {y}
  <2>1. IsFiniteSet(R) /\ \A z \in R : f[z] \in Int
    BY <1>4, FS_RemoveElement
  <2>2. SumOver(f, R) \in Int
    <3> HIDE DEF R
    <3> QED BY <2>1, SumInt
  <2> QED BY <2>2
<1>12. f[x] \in Int /\ f[y] \in Int
  BY <1>3
<1> DEFINE rest == SumOver(f, (T \ {x}) \ {y})
           noY == SumOver(f, T \ {y})
           noX == SumOver(f, T \ {x})
<1>13. noY = f[x] + rest /\ noX = f[y] + rest /\ rest \in Int
  BY <1>8, <1>9, <1>10, <1>11
<1>14. SumOver(f, T) = f[y] + noY /\ SumOver(f, T) # f[x] + noX
  BY <1>2, <1>5
<1> HIDE DEF y, rest, noX, noY
<1> QED BY <1>12, <1>13, <1>14

(* The sum depends on the values at the elements only.                     *)
LEMMA SumAgree ==
    ASSUME NEW S, IsFiniteSet(S), NEW f, NEW g, \A x \in S : f[x] = g[x]
    PROVE  SumOver(f, S) = SumOver(g, S)
<1> DEFINE B == {T \in SUBSET S : SumOver(f, T) # SumOver(g, T)}
<1> SUFFICES ASSUME B # {} PROVE FALSE
  OBVIOUS
<1>1. PICK T \in B : \A U \in B : U \subseteq T => U = T
  <2>1. B \in SUBSET (SUBSET S)
    OBVIOUS
  <2> HIDE DEF B
  <2> QED BY <2>1, SmallestSubset
<1>2. IsFiniteSet(T)
  BY FS_Subset
<1>3. CASE T # {}
  <2>1. /\ SumOver(f, T) = f[Pick(T)] + SumOver(f, T \ {Pick(T)})
        /\ SumOver(g, T) = g[Pick(T)] + SumOver(g, T \ {Pick(T)})
    BY <1>2, <1>3, SumPicks
  <2>2. SumOver(f, T \ {Pick(T)}) = SumOver(g, T \ {Pick(T)})
    BY <1>1, <1>3, PickIsIn
  <2>3. f[Pick(T)] = g[Pick(T)]
    BY <1>3, PickIsIn
  <2> QED BY <1>1, <2>1, <2>2, <2>3
<1>4. CASE T = {}
  BY <1>1, <1>4, SumEmpty
<1> QED BY <1>3, <1>4

(* A change of one value changes the sum by as much.                       *)
LEMMA SumChange ==
    ASSUME NEW S, IsFiniteSet(S), NEW f, NEW g, NEW a \in S,
           \A x \in S : f[x] \in Int /\ g[x] \in Int,
           \A x \in S : x # a => g[x] = f[x]
    PROVE  SumOver(g, S) = SumOver(f, S) + (g[a] - f[a])
<1> DEFINE T == S \ {a}
<1>1. IsFiniteSet(T)
  BY FS_RemoveElement
<1>2. SumOver(f, S) = f[a] + SumOver(f, T) /\ SumOver(g, S) = g[a] + SumOver(g, T)
  BY SumRemove
<1>3. \A x \in T : f[x] = g[x] /\ f[x] \in Int
  OBVIOUS
<1> HIDE DEF T
<1>4. SumOver(f, T) = SumOver(g, T) /\ SumOver(f, T) \in Int
  BY <1>1, <1>3, SumAgree, SumInt
<1> QED BY <1>2, <1>4

(* Sums of the same values added pairwise.                                 *)
LEMMA SumPlus ==
    ASSUME NEW S, IsFiniteSet(S), NEW f, NEW g, NEW h,
           \A x \in S : f[x] \in Int /\ g[x] \in Int /\ h[x] = f[x] + g[x]
    PROVE  SumOver(h, S) = SumOver(f, S) + SumOver(g, S)
<1> DEFINE B == {T \in SUBSET S : SumOver(h, T) # SumOver(f, T) + SumOver(g, T)}
<1> SUFFICES ASSUME B # {} PROVE FALSE
  OBVIOUS
<1>1. PICK T \in B : \A U \in B : U \subseteq T => U = T
  <2>1. B \in SUBSET (SUBSET S)
    OBVIOUS
  <2> HIDE DEF B
  <2> QED BY <2>1, SmallestSubset
<1>2. IsFiniteSet(T)
  BY FS_Subset
<1>3. CASE T # {}
  <2> DEFINE x == Pick(T)
             R == T \ {x}
  <2>1. x \in T
    BY <1>3, PickIsIn
  <2>2. /\ SumOver(f, T) = f[x] + SumOver(f, R)
        /\ SumOver(g, T) = g[x] + SumOver(g, R)
        /\ SumOver(h, T) = h[x] + SumOver(h, R)
    BY <1>2, <1>3, SumPicks
  <2>3. SumOver(h, R) = SumOver(f, R) + SumOver(g, R)
    BY <1>1, <2>1
  <2>4. SumOver(f, R) \in Int /\ SumOver(g, R) \in Int
    <3>1. IsFiniteSet(R) /\ \A z \in R : f[z] \in Int /\ g[z] \in Int
      BY <1>2, FS_RemoveElement
    <3> HIDE DEF R
    <3> QED BY <3>1, SumInt
  <2>5. f[x] \in Int /\ g[x] \in Int /\ h[x] = f[x] + g[x]
    BY <2>1
  <2> HIDE DEF x, R
  <2> QED BY <1>1, <2>2, <2>3, <2>4, <2>5
<1>4. CASE T = {}
  BY <1>1, <1>4, SumEmpty
<1> QED BY <1>3, <1>4

(* A sum of natural numbers is one.                                        *)
LEMMA SumNat ==
    ASSUME NEW S, IsFiniteSet(S), NEW f, \A x \in S : f[x] \in Nat
    PROVE  SumOver(f, S) \in Nat
<1> DEFINE B == {T \in SUBSET S : SumOver(f, T) \notin Nat}
<1> SUFFICES ASSUME B # {} PROVE FALSE
  OBVIOUS
<1>1. PICK T \in B : \A U \in B : U \subseteq T => U = T
  <2>1. B \in SUBSET (SUBSET S)
    OBVIOUS
  <2> HIDE DEF B
  <2> QED BY <2>1, SmallestSubset
<1>2. IsFiniteSet(T)
  BY FS_Subset
<1>3. CASE T # {}
  <2>1. SumOver(f, T) = f[Pick(T)] + SumOver(f, T \ {Pick(T)})
    BY <1>2, <1>3, SumPicks
  <2>2. SumOver(f, T \ {Pick(T)}) \in Nat
    BY <1>1, <1>3, PickIsIn
  <2> QED BY <1>1, <1>3, <2>1, <2>2, PickIsIn
<1>4. CASE T = {}
  BY <1>1, <1>4, SumEmpty
<1> QED BY <1>3, <1>4

(* Larger values have no smaller sum.                                      *)
LEMMA SumMonotonic ==
    ASSUME NEW S, IsFiniteSet(S), NEW f, NEW g,
           \A x \in S : f[x] \in Int /\ g[x] \in Int /\ f[x] <= g[x]
    PROVE  SumOver(f, S) <= SumOver(g, S)
<1> DEFINE h == [x \in S |-> g[x] - f[x]]
<1>1. \A x \in S : h[x] \in Nat /\ h[x] \in Int /\ g[x] = f[x] + h[x]
  OBVIOUS
<1> HIDE DEF h
<1>2. SumOver(g, S) = SumOver(f, S) + SumOver(h, S)
  BY <1>1, SumPlus
<1>3. SumOver(h, S) \in Nat
  BY <1>1, SumNat
<1>4. SumOver(f, S) \in Int
  BY SumInt
<1> QED BY <1>2, <1>3, <1>4

(* A common factor may be taken out of a sum.                              *)
LEMMA SumScale ==
    ASSUME NEW S, IsFiniteSet(S), NEW k \in Int, NEW f, NEW g,
           \A x \in S : f[x] \in Int /\ g[x] = k * f[x]
    PROVE  SumOver(g, S) = k * SumOver(f, S)
<1> DEFINE B == {T \in SUBSET S : SumOver(g, T) # k * SumOver(f, T)}
<1> SUFFICES ASSUME B # {} PROVE FALSE
  OBVIOUS
<1>1. PICK T \in B : \A U \in B : U \subseteq T => U = T
  <2>1. B \in SUBSET (SUBSET S)
    OBVIOUS
  <2> HIDE DEF B
  <2> QED BY <2>1, SmallestSubset
<1>2. IsFiniteSet(T)
  BY FS_Subset
<1>3. CASE T # {}
  <2> DEFINE x == Pick(T)
             R == T \ {x}
  <2>1. x \in T
    BY <1>3, PickIsIn
  <2>2. /\ SumOver(f, T) = f[x] + SumOver(f, R)
        /\ SumOver(g, T) = g[x] + SumOver(g, R)
    BY <1>2, <1>3, SumPicks
  <2>3. SumOver(g, R) = k * SumOver(f, R)
    BY <1>1, <2>1
  <2>4. SumOver(f, R) \in Int
    <3>1. IsFiniteSet(R) /\ \A z \in R : f[z] \in Int
      BY <1>2, FS_RemoveElement
    <3> HIDE DEF R
    <3> QED BY <3>1, SumInt
  <2>5. f[x] \in Int /\ g[x] = k * f[x]
    BY <2>1
  <2>6. \A m, n \in Int : k * m + k * n = k * (m + n)
    OBVIOUS
  <2> HIDE DEF x, R
  <2> QED BY <1>1, <2>2, <2>3, <2>4, <2>5, <2>6
<1>4. CASE T = {}
  BY <1>1, <1>4, SumEmpty
<1> QED BY <1>3, <1>4
=============================================================================

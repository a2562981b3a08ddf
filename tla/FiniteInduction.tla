---------------------------- MODULE FiniteInduction ----------------------------
(***************************************************************************)
(* Induction without an operator as a parameter, over the natural numbers  *)
(* and over finite sets, and what follows of the folds over finite sets.   *)
(***************************************************************************)
EXTENDS Naturals, FiniteSetsExt, FiniteSetTheorems, WellFoundedInduction, TLAPS

\* A set of numbers that is not empty has a least element.
LEMMA LeastNatural ==
  ASSUME NEW T \in SUBSET Nat, T # {}
  PROVE  \E n \in T : \A m \in T : n <= m
<1> DEFINE R == OpToRel(<, Nat)
<1>1. IsWellFoundedOn(R, Nat)
  BY NatLessThanWellFounded
<1>2. \A m, n \in Nat : m < n => <<m, n>> \in R
  BY DEF OpToRel
<1> HIDE DEF R
<1>3. PICK n \in T : \A m \in T : ~ (<<m, n>> \in R)
  BY <1>1, WFMin
<1>4. \A m \in T : ~ (m < n)
  BY <1>2, <1>3
<1>5. QED
  BY <1>4

\* What holds of 0, and with a number of the next, holds of every number.
LEMMA NumberInduction ==
  ASSUME NEW G \in SUBSET Nat, 0 \in G, \A n \in G : n + 1 \in G
  PROVE  G = Nat
<1> SUFFICES ASSUME Nat \ G # {}
             PROVE  FALSE
  OBVIOUS
<1>1. PICK n \in Nat \ G : \A m \in Nat \ G : n <= m
  BY LeastNatural
<1>2. n # 0 /\ n - 1 \in Nat
  BY <1>1
<1>3. n - 1 \in G
  BY <1>1, <1>2
<1>4. (n - 1) + 1 \in G
  BY <1>3
<1>5. QED
  BY <1>1, <1>2, <1>4

\* What holds of {}, and of a set whenever it holds of that set without the
\* element CHOOSE picks, holds of every subset of a finite set.
LEMMA SetInduction ==
  ASSUME NEW S, IsFiniteSet(S), NEW G \in SUBSET (SUBSET S), {} \in G,
         \A s \in SUBSET S : s # {} /\ s \ {CHOOSE x \in s : TRUE} \in G => s \in G
  PROVE  G = SUBSET S
<1> SUFFICES ASSUME NEW s0 \in SUBSET S, s0 \notin G
             PROVE  FALSE
  OBVIOUS
<1> DEFINE Bad == {s \in SUBSET S : s \notin G}
           Sizes == {Cardinality(s) : s \in Bad}
<1>1. \A s \in SUBSET S : IsFiniteSet(s) /\ Cardinality(s) \in Nat
  BY FS_Subset, FS_CardinalityType
<1>2. Sizes \in SUBSET Nat /\ Sizes # {}
  BY <1>1
<1>3. PICK n \in Sizes : \A m \in Sizes : n <= m
  BY <1>2, LeastNatural
<1>4. PICK s \in Bad : Cardinality(s) = n
  BY <1>3
<1> DEFINE x == CHOOSE x \in s : TRUE
<1>5. s # {} /\ s \in SUBSET S /\ s \notin G
  BY <1>4
<1>6. x \in s
  BY <1>5
<1> HIDE DEF x
<1>7. Cardinality(s \ {x}) = Cardinality(s) - 1
  BY <1>1, <1>5, <1>6, FS_RemoveElement
<1>8. s \ {x} \notin Bad
  <2> SUFFICES ASSUME s \ {x} \in Bad
               PROVE  FALSE
    OBVIOUS
  <2>1. Cardinality(s \ {x}) \in Sizes
    OBVIOUS
  <2>2. Cardinality(s) <= Cardinality(s \ {x})
    BY <1>3, <1>4, <2>1
  <2>3. QED
    BY <1>1, <1>5, <1>7, <2>2
<1>9. s \ {x} \in G
  BY <1>5, <1>8
<1>10. QED
  BY <1>5, <1>9 DEF x

-----------------------------------------------------------------------------
(***************************************************************************)
(* The fold of a function F of two arguments, one after the other, over a  *)
(* finite set.                                                             *)
(***************************************************************************)
Pick(s) == CHOOSE x \in s : TRUE

Folded(F, b, S) == FoldSet(LAMBDA x, y : F[x][y], b, S)

\* f is that fold over every subset of S.
Folds(f, F, b, S) ==
  f = [s \in SUBSET S |-> IF s = {} THEN b ELSE F[Pick(s)][f[s \ {Pick(s)}]]]

LEMMA PickFacts ==
  ASSUME NEW S, IsFiniteSet(S), NEW s \in SUBSET S, s # {}
  PROVE  /\ Pick(s) \in s /\ s \ {Pick(s)} \in SUBSET S
         /\ Cardinality(s \ {Pick(s)}) = Cardinality(s) - 1
<1>1. Pick(s) \in s
  BY DEF Pick
<1>2. IsFiniteSet(s)
  BY FS_Subset
<1>3. QED
  BY <1>1, <1>2, FS_RemoveElement

LEMMA FoldsExist ==
  ASSUME NEW S, IsFiniteSet(S), NEW F, NEW b
  PROVE  \E f : Folds(f, F, b, S)
<1> DEFINE Unfold(g) ==
             [s \in SUBSET S |-> IF s = {} THEN b ELSE F[Pick(s)][g[s \ {Pick(s)}]]]
           Upto(g, n) == \A s \in SUBSET S : Cardinality(s) <= n => g[s] = Unfold(g)[s]
           Good == {n \in Nat : \E g : g = [s \in SUBSET S |-> g[s]] /\ Upto(g, n)}
<1>1. \A s \in SUBSET S : IsFiniteSet(s) /\ Cardinality(s) \in Nat
  BY FS_Subset, FS_CardinalityType
<1>2. 0 \in Good
  <2> DEFINE g == Unfold([s \in SUBSET S |-> b])
  <2>1. \A s \in SUBSET S : Cardinality(s) <= 0 => s = {}
    BY <1>1, FS_EmptySet
  <2>2. g[{}] = b /\ Unfold(g)[{}] = b
    OBVIOUS
  <2>3. g = [s \in SUBSET S |-> g[s]]
    OBVIOUS
  <2> HIDE DEF g, Unfold
  <2>4. Upto(g, 0)
    BY <2>1, <2>2
  <2>5. QED
    BY <2>3, <2>4
<1>3. \A n \in Good : n + 1 \in Good
  <2> TAKE n \in Good
  <2>1. PICK g : g = [s \in SUBSET S |-> g[s]] /\ Upto(g, n)
    OBVIOUS
  <2> DEFINE h == Unfold(g)
  <2>2. h = [s \in SUBSET S |-> h[s]]
    OBVIOUS
  <2>3. ASSUME NEW s \in SUBSET S, Cardinality(s) <= n + 1
        PROVE  h[s] = Unfold(h)[s]
    <3>1. CASE s = {}
      BY <3>1
    <3>2. CASE s # {}
      <4> DEFINE t == s \ {Pick(s)}
      <4>1. t \in SUBSET S /\ Cardinality(t) = Cardinality(s) - 1
        BY <3>2, PickFacts
      <4>2. Cardinality(t) <= n
        BY <1>1, <2>3, <4>1
      <4>3. g[t] = h[t]
        BY <2>1, <4>1, <4>2
      <4>4. h[s] = F[Pick(s)][g[t]] /\ Unfold(h)[s] = F[Pick(s)][h[t]]
        BY <3>2
      <4>5. QED
        BY <4>3, <4>4
    <3>3. QED
      BY <3>1, <3>2
  <2>4. Upto(h, n + 1)
    BY <2>3
  <2> HIDE DEF h, Upto
  <2>5. n + 1 \in Nat
    OBVIOUS
  <2>6. QED
    BY <2>2, <2>4, <2>5
<1> HIDE DEF Upto, Good
<1>4. Good = Nat
  <2>1. Good \in SUBSET Nat
    BY DEF Good
  <2>2. QED
    BY <1>2, <1>3, <2>1, NumberInduction
<1>5. PICK g : g = [s \in SUBSET S |-> g[s]] /\ Upto(g, Cardinality(S))
  <2>1. Cardinality(S) \in Good
    BY <1>1, <1>4
  <2>2. QED
    BY <2>1 DEF Good
<1>6. \A s \in SUBSET S : Cardinality(s) <= Cardinality(S)
  BY FS_Subset
<1>7. g = Unfold(g)
  BY <1>5, <1>6 DEF Upto
<1>8. QED
  BY <1>7 DEF Folds

\* FoldSet is one of these folds.
LEMMA FoldedIsLast ==
  ASSUME NEW S, IsFiniteSet(S), NEW F, NEW b
  PROVE  \E f : Folds(f, F, b, S) /\ Folded(F, b, S) = f[S]
<1> DEFINE last == CHOOSE f : Folds(f, F, b, S)
<1>1. Folds(last, F, b, S)
  BY FoldsExist
<1>2. Folded(F, b, S) = last[S]
  BY DEF Folded, FoldSet, MapThenFoldSet, Folds, Pick
<1>3. QED
  BY <1>1, <1>2

\* R[s] is what may be known once the elements of s were folded in.
LEMMA FoldedKeeps ==
  ASSUME NEW S, IsFiniteSet(S), NEW F, NEW b, NEW R, b \in R[{}],
         \A s \in SUBSET S : s # {} =>
           \A y \in R[s \ {Pick(s)}] : F[Pick(s)][y] \in R[s]
  PROVE  Folded(F, b, S) \in R[S]
<1>1. PICK f : Folds(f, F, b, S) /\ Folded(F, b, S) = f[S]
  BY FoldedIsLast
<1> DEFINE G == {s \in SUBSET S : f[s] \in R[s]}
<1>2. \A s \in SUBSET S :
        /\ s = {} => f[s] = b
        /\ s # {} => f[s] = F[Pick(s)][f[s \ {Pick(s)}]]
  BY <1>1 DEF Folds
<1>3. {} \in G
  BY <1>2
<1>4. \A s \in SUBSET S : s # {} /\ s \ {Pick(s)} \in G => s \in G
  BY <1>2
<1> HIDE DEF G
<1>5. G = SUBSET S
  <2>1. G \in SUBSET (SUBSET S)
    BY DEF G
  <2>2. QED
    BY <1>3, <1>4, <2>1, SetInduction DEF Pick
<1>6. S \in G
  BY <1>5
<1>7. QED
  BY <1>1, <1>6 DEF G

\* Two functions that agree on all that can come up have the same fold.
LEMMA FoldedAgrees ==
  ASSUME NEW S, IsFiniteSet(S), NEW F, NEW G, NEW b, NEW R, b \in R,
         \A x \in S : \A y \in R : F[x][y] \in R /\ G[x][y] = F[x][y]
  PROVE  Folded(F, b, S) = Folded(G, b, S) /\ Folded(F, b, S) \in R
<1>1. PICK f : Folds(f, F, b, S) /\ Folded(F, b, S) = f[S]
  BY FoldedIsLast
<1>2. PICK g : Folds(g, G, b, S) /\ Folded(G, b, S) = g[S]
  BY FoldedIsLast
<1> DEFINE H == {s \in SUBSET S : f[s] = g[s] /\ f[s] \in R}
<1>3. \A s \in SUBSET S :
        /\ s = {} => f[s] = b /\ g[s] = b
        /\ s # {} => f[s] = F[Pick(s)][f[s \ {Pick(s)}]] /\ g[s] = G[Pick(s)][g[s \ {Pick(s)}]]
  BY <1>1, <1>2 DEF Folds
<1>4. {} \in H
  BY <1>3
<1>5. ASSUME NEW s \in SUBSET S, s # {}, s \ {Pick(s)} \in H
      PROVE  s \in H
  <2>1. Pick(s) \in S
    BY <1>5, PickFacts
  <2>2. QED
    BY <1>3, <1>5, <2>1
<1> HIDE DEF H
<1>6. H = SUBSET S
  <2>1. H \in SUBSET (SUBSET S)
    BY DEF H
  <2>2. QED
    BY <1>4, <1>5, <2>1, SetInduction DEF Pick
<1>7. S \in H
  BY <1>6
<1>8. QED
  BY <1>1, <1>2, <1>7 DEF H

===============================================================================

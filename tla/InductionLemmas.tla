--------------------------- MODULE InductionLemmas ---------------------------
(***************************************************************************)
(* Induction over numbers and finite sets, stated of sets instead of         *)
(* predicates: the theorems of the library take the predicate as an operator *)
(* and cannot be instantiated, but that strict inclusion of finite sets is   *)
(* well founded, and that a well-founded relation has minimal elements, are  *)
(* first-order facts, and everything below follows from the two.             *)
(***************************************************************************)
EXTENDS FiniteSetTheorems, TLAPS

\* A set of numbers has a least one: n is read as the finite set 1..n.
LEMMA LeastNumber ==
  ASSUME NEW T, T \subseteq Nat, T # {}
  PROVE  \E x \in T : \A y \in T : x <= y
<1> DEFINE Initial == {1..n : n \in T}
<1>1. \A n \in Nat : 1..n \in FiniteSubsetsOf(Nat)
  BY FS_Interval DEF FiniteSubsetsOf
<1>2. Initial \subseteq FiniteSubsetsOf(Nat) /\ Initial # {}
  BY <1>1
<1>3. IsWellFoundedOn(StrictSubsetOrdering(Nat), FiniteSubsetsOf(Nat))
  BY FS_StrictSubsetOrderingWellFounded
<1> HIDE DEF Initial
<1>4. PICK X \in Initial :
        \A Y \in Initial : ~ (<<Y, X>> \in StrictSubsetOrdering(Nat))
  BY <1>2, <1>3, WFMin
<1>5. PICK x \in T : X = 1..x
  BY <1>4 DEF Initial
<1>6. ASSUME NEW y \in T, y < x  PROVE FALSE
  <2>1. 1..y \in Initial
    BY DEF Initial
  <2>2. 1..y \subseteq 1..x /\ 1..x \subseteq Nat /\ x \in 1..x /\ x \notin 1..y
    BY <1>6
  <2>3. 1..y \in SUBSET Nat /\ 1..x \in SUBSET Nat /\ 1..y # 1..x
    BY <2>2
  <2>4. <<1..y, 1..x>> \in StrictSubsetOrdering(Nat)
    BY <2>2, <2>3 DEF StrictSubsetOrdering
  <2> QED BY <1>4, <1>5, <2>1, <2>4
<1>7. \A y \in T : y \in Nat /\ x \in Nat
  OBVIOUS
<1> QED BY <1>6, <1>7

\* Induction over the numbers up to a bound.
LEMMA UpToInduction ==
  ASSUME NEW n \in Nat, NEW P, 0 \in P, \A k \in 1..n : k - 1 \in P => k \in P
  PROVE  0..n \subseteq P
<1> DEFINE T == {k \in 0..n : k \notin P}
<1>1. SUFFICES ASSUME T # {} PROVE FALSE
  OBVIOUS
<1>2. PICK x \in T : \A y \in T : x <= y
  <2> HIDE DEF T
  <2>1. T \subseteq Nat
    BY DEF T
  <2> QED BY <1>1, <2>1, LeastNumber
<1>3. x # 0 /\ x \in 0..n /\ x \notin P
  BY <1>2
<1>4. x \in 1..n /\ x - 1 \in 0..n /\ x - 1 \notin T
  BY <1>2, <1>3
<1>5. x - 1 \in P
  BY <1>4
<1> QED BY <1>3, <1>4, <1>5

\* Induction over a finite set, one element at a time.
LEMMA FiniteSetInduction ==
  ASSUME NEW S, IsFiniteSet(S), NEW P, {} \in P,
         \A T \in SUBSET S : \A x \in S \ T : T \in P => T \union {x} \in P
  PROVE  S \in P
<1> DEFINE Holds == (SUBSET S) \intersect P
           Rest  == {S \ T : T \in Holds}
<1>1. Rest \subseteq FiniteSubsetsOf(S) /\ Rest # {}
  <2>1. \A T \in SUBSET S : IsFiniteSet(S \ T)
    BY FS_Difference
  <2>2. {} \in Holds
    OBVIOUS
  <2> QED BY <2>1, <2>2 DEF FiniteSubsetsOf
<1>2. IsWellFoundedOn(StrictSubsetOrdering(S), FiniteSubsetsOf(S))
  BY FS_StrictSubsetOrderingWellFounded
<1> HIDE DEF Rest, Holds
<1>3. PICK X \in Rest : \A Y \in Rest : ~ (<<Y, X>> \in StrictSubsetOrdering(S))
  BY <1>1, <1>2, WFMin
<1>4. PICK T \in Holds : X = S \ T
  BY <1>3 DEF Rest
<1>5. ASSUME NEW x \in S \ T  PROVE FALSE
  <2>1. T \union {x} \in Holds
    BY <1>4, <1>5 DEF Holds
  <2>2. S \ (T \union {x}) \in Rest
    BY <2>1 DEF Rest
  <2>3. /\ S \ (T \union {x}) \subseteq X /\ S \ (T \union {x}) # X
        /\ S \ (T \union {x}) \in SUBSET S /\ X \in SUBSET S
    BY <1>4, <1>5
  <2>4. <<S \ (T \union {x}), X>> \in StrictSubsetOrdering(S)
    BY <2>3 DEF StrictSubsetOrdering
  <2> QED BY <1>3, <2>2, <2>4
<1>6. T \in P /\ T \subseteq S
  BY <1>4 DEF Holds
<1>7. T = S
  BY <1>5, <1>6
<1> QED BY <1>6, <1>7

\* f is defined from a by primitive recursion up to n.
Recursion(f, n, a, step) == f[0] = a /\ \A k \in 1..n : f[k] = step[f[k - 1]][k]

\* Primitive recursion up to a bound defines a function.
LEMMA RecursionExists ==
  ASSUME NEW n \in Nat, NEW D, NEW a \in D, NEW step \in [D -> [1..n -> D]]
  PROVE  \E f \in [0..n -> D] : Recursion(f, n, a, step)
<1> DEFINE Upto(m, f) == f[0] = a /\ \A k \in 1..m : f[k] = step[f[k - 1]][k]
           P == {m \in 0..n : \E f \in [0..n -> D] : Upto(m, f)}
<1>1. 0 \in P
  <2>1. [k \in 0..n |-> a] \in [0..n -> D]
    OBVIOUS
  <2>2. Upto(0, [k \in 0..n |-> a])
    OBVIOUS
  <2>3. \E f \in [0..n -> D] : Upto(0, f)
    <3> HIDE DEF Upto
    <3> QED BY <2>1, <2>2
  <2> QED BY <2>3
<1>2. ASSUME NEW m \in 1..n, m - 1 \in P  PROVE m \in P
  <2>1. PICK f \in [0..n -> D] : Upto(m - 1, f)
    BY <1>2
  <2> DEFINE g == [f EXCEPT ![m] = step[f[m - 1]][m]]
  <2>2. m \in 0..n /\ m - 1 \in 0..n
    OBVIOUS
  <2>3. step[f[m - 1]][m] \in D
    BY <2>2
  <2>4. g \in [0..n -> D]
    BY <2>2, <2>3
  <2>5. g[m] = step[f[m - 1]][m]
    BY <2>2
  <2>6. \A k \in 0..n : k # m => g[k] = f[k]
    OBVIOUS
  <2> HIDE DEF g
  <2>7. g[0] = a
    BY <2>1, <2>6
  <2>8. ASSUME NEW k \in 1..m  PROVE g[k] = step[g[k - 1]][k]
    <3>1. k \in 0..n /\ k - 1 \in 0..n /\ k - 1 # m
      OBVIOUS
    <3>2. g[k - 1] = f[k - 1]
      BY <2>6, <3>1
    <3>3. CASE k = m
      BY <2>5, <3>2, <3>3
    <3>4. CASE k # m
      <4>1. k \in 1..(m - 1)
        BY <3>4
      <4> QED BY <2>1, <2>6, <3>1, <3>2, <3>4, <4>1
    <3> QED BY <3>3, <3>4
  <2>9. Upto(m, g)
    BY <2>7, <2>8
  <2> QED BY <2>2, <2>4, <2>9
<1>3. 0..n \subseteq P
  <2> HIDE DEF P
  <2> QED BY <1>1, <1>2, UpToInduction
<1>4. n \in P
  <2> HIDE DEF P
  <2>1. n \in 0..n
    OBVIOUS
  <2> QED BY <1>3, <2>1
<1>5. \E f \in [0..n -> D] : Upto(n, f)
  BY ONLY <1>4
<1> QED BY <1>5 DEF Recursion

\* ... and one only.
LEMMA RecursionUnique ==
  ASSUME NEW n \in Nat, NEW a, NEW step, NEW f, NEW g,
         Recursion(f, n, a, step), Recursion(g, n, a, step)
  PROVE  \A k \in 0..n : f[k] = g[k]
<1> DEFINE P == {k \in 0..n : f[k] = g[k]}
<1>1. 0 \in P
  BY DEF Recursion
<1>2. \A k \in 1..n : k - 1 \in P => k \in P
  BY DEF Recursion
<1>3. 0..n \subseteq P
  <2> HIDE DEF P
  <2> QED BY <1>1, <1>2, UpToInduction
<1> QED BY <1>3


\* f is what folding step over the subsets of S gives, taking the element c
\* chooses first.
FoldsAt(f, s, a, c, step) == f[s] = IF s = {} THEN a ELSE step[c[s]][f[s \ {c[s]}]]
IsFold(f, S, a, c, step) == \A s \in SUBSET S : FoldsAt(f, s, a, c, step)

\* c chooses an element of every subset of S but the empty one.
Chooses(c, S) ==
  /\ c \in [SUBSET S -> S \union {{}}]
  /\ \A s \in (SUBSET S) \ {{}} : c[s] \in s

\* Folding one more element of S in keeps R.
FoldingKeeps(R, S, D, step) ==
  \A s \in SUBSET S : \A x \in s : \A d \in D :
    <<s \ {x}, d>> \in R => <<s, step[x][d]>> \in R

\* Recursion over the subsets of a finite set defines a function.
LEMMA FoldExists ==
  ASSUME NEW S, IsFiniteSet(S), NEW D, NEW a \in D,
         NEW c, Chooses(c, S), NEW step \in [S -> [D -> D]]
  PROVE  \E f \in [SUBSET S -> D] : IsFold(f, S, a, c, step)
<1> USE DEF Chooses
<1> DEFINE n == Cardinality(S)
           Upto(m, f) == \A s \in SUBSET S : Cardinality(s) <= m => FoldsAt(f, s, a, c, step)
           P == {m \in 0..n : \E f \in [SUBSET S -> D] : Upto(m, f)}
<1>1. n \in Nat
  BY FS_CardinalityType
<1>2. ASSUME NEW s \in SUBSET S
      PROVE  /\ Cardinality(s) \in 0..n
             /\ s # {} => /\ s \ {c[s]} \in SUBSET S
                          /\ Cardinality(s \ {c[s]}) = Cardinality(s) - 1
  <2>1. IsFiniteSet(s) /\ Cardinality(s) \in Nat /\ Cardinality(s) <= n
    BY FS_Subset, FS_CardinalityType
  <2>2. s # {} => Cardinality(s \ {c[s]}) = Cardinality(s) - 1
    BY <2>1, FS_RemoveElement
  <2> QED BY <1>1, <2>1, <2>2
<1>3. 0 \in P
  <2> DEFINE f == [s \in SUBSET S |-> a]
  <2>1. f \in [SUBSET S -> D]
    OBVIOUS
  <2>2. ASSUME NEW s \in SUBSET S, Cardinality(s) <= 0  PROVE FoldsAt(f, s, a, c, step)
    <3>1. s = {}
      <4>1. IsFiniteSet(s)
        BY FS_Subset
      <4>2. Cardinality(s) = 0
        <5>1. Cardinality(s) \in Nat
          BY <4>1, FS_CardinalityType
        <5> QED BY ONLY <5>1, <2>2
      <4> QED BY <4>1, <4>2, FS_EmptySet
    <3> QED BY <3>1 DEF FoldsAt
  <2>3. Upto(0, f)
    BY <2>2
  <2> QED BY <1>1, <2>1, <2>3
<1>4. ASSUME NEW m \in 1..n, m - 1 \in P  PROVE m \in P
  <2>1. PICK f \in [SUBSET S -> D] : Upto(m - 1, f)
    BY <1>4
  <2> DEFINE g == [s \in SUBSET S |-> IF s = {} THEN a ELSE step[c[s]][f[s \ {c[s]}]]]
  <2>2. g \in [SUBSET S -> D]
    OBVIOUS
  <2>3. ASSUME NEW s \in SUBSET S, Cardinality(s) <= m  PROVE FoldsAt(g, s, a, c, step)
    <3>1. CASE s = {}
      BY <3>1 DEF FoldsAt
    <3>2. CASE s # {}
      <4> DEFINE t == s \ {c[s]}
      <4>1. t \in SUBSET S /\ Cardinality(t) <= m - 1
        BY <1>1, <1>2, <2>3, <3>2
      <4>2. f[t] = g[t]
        BY <2>1, <4>1 DEF FoldsAt
      <4>3. g[s] = step[c[s]][f[t]]
        BY <3>2
      <4> QED BY <3>2, <4>2, <4>3 DEF FoldsAt
    <3> QED BY <3>1, <3>2
  <2>4. Upto(m, g)
    BY <2>3
  <2>5. m \in 0..n
    BY <1>1
  <2> QED BY <2>2, <2>4, <2>5
<1>5. 0..n \subseteq P
  <2> HIDE DEF P, n
  <2> QED BY <1>1, <1>3, <1>4, UpToInduction
<1>6. n \in P
  <2> HIDE DEF P, n
  <2>1. n \in 0..n
    BY <1>1
  <2> QED BY <1>5, <2>1
<1>7. PICK f \in [SUBSET S -> D] : Upto(n, f)
  BY <1>6
<1>8. ASSUME NEW s \in SUBSET S  PROVE FoldsAt(f, s, a, c, step)
  <2> HIDE DEF n, P
  <2>1. Cardinality(s) \in 0..n
    BY <1>2
  <2>2. Cardinality(s) <= n
    BY ONLY <1>1, <2>1
  <2> QED BY <1>7, <2>2
<1> QED BY ONLY <1>7, <1>8 DEF IsFold

\* What holds of the empty set and what is folded first, and is kept by each
\* element folded in, holds of the whole.
LEMMA FoldInduction ==
  ASSUME NEW S, IsFiniteSet(S), NEW D, NEW a \in D,
         NEW c, Chooses(c, S), NEW step \in [S -> [D -> D]],
         NEW f \in [SUBSET S -> D], IsFold(f, S, a, c, step),
         NEW R, <<{}, a>> \in R, FoldingKeeps(R, S, D, step)
  PROVE  <<S, f[S]>> \in R
<1> USE DEF Chooses, IsFold, FoldingKeeps
<1> DEFINE n == Cardinality(S)
           Upto(m) == \A s \in SUBSET S : Cardinality(s) <= m => <<s, f[s]>> \in R
           P == {m \in 0..n : Upto(m)}
<1>1. n \in Nat
  BY FS_CardinalityType
<1>2. ASSUME NEW s \in SUBSET S
      PROVE  /\ Cardinality(s) \in 0..n
             /\ s # {} => /\ s \ {c[s]} \in SUBSET S
                          /\ Cardinality(s \ {c[s]}) = Cardinality(s) - 1
  <2>1. IsFiniteSet(s) /\ Cardinality(s) \in Nat /\ Cardinality(s) <= n
    BY FS_Subset, FS_CardinalityType
  <2>2. s # {} => Cardinality(s \ {c[s]}) = Cardinality(s) - 1
    BY <2>1, FS_RemoveElement
  <2> QED BY <1>1, <2>1, <2>2
<1>3. <<{}, f[{}]>> \in R
  BY DEF FoldsAt
<1>4. 0 \in P
  <2>1. ASSUME NEW s \in SUBSET S, Cardinality(s) <= 0  PROVE <<s, f[s]>> \in R
    <3>1. s = {}
      <4>1. IsFiniteSet(s)
        BY FS_Subset
      <4>2. Cardinality(s) = 0
        <5>1. Cardinality(s) \in Nat
          BY <4>1, FS_CardinalityType
        <5> QED BY ONLY <5>1, <2>1
      <4> QED BY <4>1, <4>2, FS_EmptySet
    <3> QED BY <1>3, <3>1
  <2> QED BY <1>1, <2>1
<1>5. ASSUME NEW m \in 1..n, m - 1 \in P  PROVE m \in P
  <2>1. Upto(m - 1)
    BY <1>5
  <2>2. ASSUME NEW s \in SUBSET S, Cardinality(s) <= m  PROVE <<s, f[s]>> \in R
    <3>1. CASE s = {}
      BY <1>3, <3>1
    <3>2. CASE s # {}
      <4> DEFINE t == s \ {c[s]}
      <4>1. t \in SUBSET S /\ Cardinality(t) <= m - 1 /\ c[s] \in s
        BY <1>1, <1>2, <2>2, <3>2
      <4>2. <<t, f[t]>> \in R /\ f[t] \in D
        BY <2>1, <4>1
      <4>3. f[s] = step[c[s]][f[t]]
        BY <3>2 DEF FoldsAt
      <4> QED BY <4>1, <4>2, <4>3
    <3> QED BY <3>1, <3>2
  <2>3. m \in 0..n
    BY <1>1
  <2> QED BY <2>2, <2>3
<1>6. 0..n \subseteq P
  <2> HIDE DEF P, n
  <2> QED BY <1>1, <1>4, <1>5, UpToInduction
<1>7. Upto(n)
  BY <1>1, <1>6
<1> QED BY <1>1, <1>2, <1>7
=============================================================================

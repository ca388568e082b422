-------------------------- MODULE SchemaWalkProofs --------------------------
(***************************************************************************)
(* What the registration walk computes, and the invariants of              *)
(* SchemaRegistry that rest on it.  The walk is a recursive function on     *)
(* the positions of a document: WalkEquations unfolds it, by recursion over *)
(* the prefixes of each position.  The heart of the matter is the shift     *)
(* lemma: walking a resource a document embeds, as a document of its own,   *)
(* finds what the walk of the whole document found there.                   *)
(***************************************************************************)
EXTENDS SchemaRegistryProofs, InductionLemmas, SequenceTheorems

-----------------------------------------------------------------------------
(* Positions and their prefixes.                                           *)

Prefix(p, k) == SubSeq(p, 1, k)
Parent(p) == SubSeq(p, 1, Len(p) - 1)

LEMMA PrefixIs ==
  ASSUME NEW S, NEW p \in Seq(S), NEW k \in 0..Len(p)
  PROVE  /\ Prefix(p, k) \in Seq(S)
         /\ Len(Prefix(p, k)) = k
         /\ \A i \in 1..k : Prefix(p, k)[i] = p[i]
  <1>1. Len(p) \in Nat /\ \A i \in 1..Len(p) : p[i] \in S
    BY LenProperties, ElementOfSeq
  <1>2. 1 \in Int /\ k \in Int /\ \A i \in 1..k : p[i] \in S
    BY <1>1
  <1>3. /\ SubSeq(p, 1, k) \in Seq(S)
        /\ Len(SubSeq(p, 1, k)) = IF 1 <= k THEN k - 1 + 1 ELSE 0
        /\ \A i \in 1..(k - 1 + 1) : SubSeq(p, 1, k)[i] = p[1 + i - 1]
    BY ONLY <1>2, SubSeqProperties
  <1>4. QED  BY <1>1, <1>3 DEF Prefix

LEMMA PrefixOfPrefix ==
  ASSUME NEW S, NEW p \in Seq(S), NEW k \in 0..Len(p), NEW j \in 0..k
  PROVE  Prefix(Prefix(p, k), j) = Prefix(p, j)
  <1>1. Len(p) \in Nat
    BY LenProperties
  <1>2. /\ Prefix(p, k) \in Seq(S) /\ Len(Prefix(p, k)) = k
        /\ \A i \in 1..k : Prefix(p, k)[i] = p[i]
    BY PrefixIs
  <1>3. j \in 0..Len(p) /\ j \in 0..Len(Prefix(p, k))
    BY <1>1, <1>2
  <1>4. /\ Prefix(p, j) \in Seq(S) /\ Len(Prefix(p, j)) = j
        /\ \A i \in 1..j : Prefix(p, j)[i] = p[i]
    BY <1>3, PrefixIs
  <1>5. /\ Prefix(Prefix(p, k), j) \in Seq(S) /\ Len(Prefix(Prefix(p, k), j)) = j
        /\ \A i \in 1..j : Prefix(Prefix(p, k), j)[i] = Prefix(p, k)[i]
    BY <1>2, <1>3, PrefixIs
  <1>6. \A i \in 1..j : i \in 1..k
    BY <1>1
  <1>7. \A i \in 1..j : Prefix(Prefix(p, k), j)[i] = Prefix(p, j)[i]
    BY <1>2, <1>4, <1>5, <1>6
  <1>8. QED  BY <1>4, <1>5, <1>7, SeqEqual

LEMMA PrefixEnds ==
  ASSUME NEW S, NEW p \in Seq(S)
  PROVE  /\ Prefix(p, 0) = << >>
         /\ Prefix(p, Len(p)) = p
         /\ Len(p) \in Nat
         /\ p # << >> => Len(p) >= 1 /\ Parent(p) = Prefix(p, Len(p) - 1)
  <1>1. Len(p) \in Nat /\ (p # << >> => Len(p) \in Nat \ {0})
    BY EmptySeq
  <1>2. SubSeq(p, 1, 0) = << >>
    BY SubSeqEmpty
  <1>3. SubSeq(p, 1, Len(p)) = p
    BY SubSeqFull
  <1>4. QED  BY <1>1, <1>2, <1>3 DEF Prefix, Parent

\* The parent of a position below another is below it too.
LEMMA ParentBelow ==
  ASSUME NEW S, NEW r \in Seq(S), NEW q \in Seq(S), q # << >>
  PROVE  /\ Parent(r \o q) = r \o Parent(q)
         /\ (r \o q)[Len(r \o q)] = q[Len(q)]
         /\ r \o q # << >>
         /\ Append(r \o Parent(q), q[Len(q)]) = r \o q
  <1>1. Len(q) \in Nat /\ Len(q) >= 1 /\ Len(r) \in Nat
    BY EmptySeq, PrefixEnds
  <1>2. /\ Parent(q) \in Seq(S) /\ Len(Parent(q)) = Len(q) - 1
        /\ \A i \in 1..(Len(q) - 1) : Parent(q)[i] = q[i]
    <2>1. Len(q) - 1 \in 0..Len(q)
      BY <1>1
    <2>2. QED  BY <2>1, PrefixIs DEF Prefix, Parent
  <1>3. /\ r \o q \in Seq(S) /\ Len(r \o q) = Len(r) + Len(q)
        /\ \A i \in 1..(Len(r) + Len(q)) :
             (r \o q)[i] = IF i <= Len(r) THEN r[i] ELSE q[i - Len(r)]
    BY ConcatProperties
  <1>4. /\ Parent(r \o q) \in Seq(S) /\ Len(Parent(r \o q)) = Len(r) + Len(q) - 1
        /\ \A i \in 1..(Len(r) + Len(q) - 1) : Parent(r \o q)[i] = (r \o q)[i]
    <2>1. Len(r \o q) - 1 \in 0..Len(r \o q)
      BY <1>1, <1>3
    <2>2. QED  BY <1>3, <2>1, PrefixIs DEF Prefix, Parent
  <1>5. /\ r \o Parent(q) \in Seq(S) /\ Len(r \o Parent(q)) = Len(r) + Len(q) - 1
        /\ \A i \in 1..(Len(r) + Len(q) - 1) :
             (r \o Parent(q))[i] = IF i <= Len(r) THEN r[i] ELSE Parent(q)[i - Len(r)]
    <2>1. /\ r \o Parent(q) \in Seq(S) /\ Len(r \o Parent(q)) = Len(r) + Len(Parent(q))
          /\ \A i \in 1..(Len(r) + Len(Parent(q))) :
               (r \o Parent(q))[i] = IF i <= Len(r) THEN r[i] ELSE Parent(q)[i - Len(r)]
      BY <1>2, ConcatProperties
    <2>2. Len(r) + Len(Parent(q)) = Len(r) + Len(q) - 1
      BY ONLY <1>1, <1>2
    <2>3. QED  BY ONLY <2>1, <2>2
  <1>6. \A i \in 1..(Len(r) + Len(q) - 1) : Parent(r \o q)[i] = (r \o Parent(q))[i]
    <2>1. SUFFICES ASSUME NEW i \in 1..(Len(r) + Len(q) - 1)
          PROVE  Parent(r \o q)[i] = (r \o Parent(q))[i]
      OBVIOUS
    <2>2. i \in 1..(Len(r) + Len(q)) /\ (~(i <= Len(r)) => i - Len(r) \in 1..(Len(q) - 1))
      BY ONLY <1>1, i \in 1..(Len(r) + Len(q) - 1)
    <2>3. Parent(r \o q)[i] = IF i <= Len(r) THEN r[i] ELSE q[i - Len(r)]
      BY <1>3, <1>4, <2>2
    <2>4. QED  BY <1>2, <1>5, <2>2, <2>3
  <1>7. Parent(r \o q) = r \o Parent(q)
    BY <1>4, <1>5, <1>6, SeqEqual
  <1>8. (r \o q)[Len(r \o q)] = q[Len(q)]
    <2>1. /\ Len(r) + Len(q) \in 1..(Len(r) + Len(q)) /\ ~(Len(r) + Len(q) <= Len(r))
          /\ Len(r) + Len(q) - Len(r) = Len(q)
      BY ONLY <1>1
    <2>2. QED  BY <1>3, <2>1
  <1>9. r \o q # << >>
    <2>1. Len(r \o q) # 0
      BY ONLY <1>1, <1>3
    <2>2. QED  BY <2>1, EmptySeq
  <1>10. Append(r \o Parent(q), q[Len(q)]) = r \o q
    <2> DEFINE t == Append(r \o Parent(q), q[Len(q)])
               n == Len(r) + Len(q)
    <2>1. q[Len(q)] \in S
      <3>1. Len(q) \in 1..Len(q)
        BY ONLY <1>1
      <3>2. QED  BY <3>1, ElementOfSeq
    <2>2. /\ t \in Seq(S) /\ Len(t) = Len(r \o Parent(q)) + 1
          /\ \A i \in 1..Len(r \o Parent(q)) : t[i] = (r \o Parent(q))[i]
          /\ t[Len(r \o Parent(q)) + 1] = q[Len(q)]
      BY <1>5, <2>1, AppendProperties
    <2>3. n \in Nat /\ Len(r \o Parent(q)) = n - 1 /\ n - 1 + 1 = n
      BY ONLY <1>1, <1>5
    <2> HIDE DEF t, n
    <2>4. Len(t) = n /\ t[n] = q[Len(q)] /\ \A i \in 1..(n - 1) : t[i] = (r \o Parent(q))[i]
      BY ONLY <2>2, <2>3
    <2>5. \A i \in 1..(n - 1) : (r \o Parent(q))[i] = (r \o q)[i]
      BY <1>4, <1>7 DEF n
    <2>6. (r \o q)[n] = q[Len(q)] /\ Len(r \o q) = n
      BY <1>3, <1>8 DEF n
    <2>7. \A i \in 1..n : i = n \/ i \in 1..(n - 1)
      BY ONLY <2>3
    <2>8. \A i \in 1..Len(t) : t[i] = (r \o q)[i]
      BY ONLY <2>4, <2>5, <2>6, <2>7
    <2>9. QED  BY <1>3, <2>2, <2>4, <2>6, <2>8, SeqEqual DEF t
  <1>11. QED  BY <1>7, <1>8, <1>9, <1>10

\* A position has one place below another, and is there itself only at its root.
LEMMA PlaceBelow ==
  ASSUME NEW S, NEW r \in Seq(S), NEW q \in Seq(S)
  PROVE  /\ r \o << >> = r
         /\ r \o q = r <=> q = << >>
  <1>1. r \o << >> = r
    BY ConcatEmptySeq
  <1>2. r \o q = r => q = << >>
    BY ConcatSimplifications
  <1>3. QED  BY <1>1, <1>2

\* Every prefix of a position is a position.
LEMMA PrefixesArePositions ==
  ASSUME NEW p \in Pointers, NEW k \in 0..Len(p)
  PROVE  /\ Prefix(p, k) \in Pointers
         /\ k # 0 => Prefix(p, k) # << >> /\ Parent(Prefix(p, k)) = Prefix(p, k - 1)
  <1>1. p \in Seq(Steps) /\ Len(p) \in Nat
    BY TreesAssumption, PrefixEnds
  <1> DEFINE P == {j \in 0..Len(p) : Prefix(p, Len(p) - j) \in Pointers}
  <1>2. ASSUME NEW j \in 1..Len(p)
        PROVE  /\ Prefix(p, j) # << >>
               /\ Parent(Prefix(p, j)) = Prefix(p, j - 1)
    <2>1. j \in 0..Len(p) /\ j - 1 \in 0..j
      BY <1>1
    <2>2. Prefix(p, j) \in Seq(Steps) /\ Len(Prefix(p, j)) = j
      BY <1>1, <2>1, PrefixIs
    <2>3. Prefix(Prefix(p, j), j - 1) = Prefix(p, j - 1)
      BY <1>1, <2>1, PrefixOfPrefix
    <2>4. Prefix(p, j) # << >>
      <3>1. j # 0
        OBVIOUS
      <3>2. QED  BY <2>2, <3>1, EmptySeq
    <2>5. Parent(Prefix(p, j)) = Prefix(Prefix(p, j), j - 1)
      BY <2>2 DEF Parent, Prefix
    <2>6. QED  BY <2>3, <2>4, <2>5
  <1>3. 0 \in P
    <2>1. Prefix(p, Len(p)) = p /\ Len(p) - 0 = Len(p) /\ 0 \in 0..Len(p)
      BY <1>1, PrefixEnds
    <2>2. QED  BY <2>1
  <1>4. \A j \in 1..Len(p) : j - 1 \in P => j \in P
    <2>1. SUFFICES ASSUME NEW j \in 1..Len(p), j - 1 \in P  PROVE j \in P
      OBVIOUS
    <2>2. Len(p) - (j - 1) \in 1..Len(p) /\ Len(p) - (j - 1) - 1 = Len(p) - j /\ j \in 0..Len(p)
      BY <1>1
    <2> DEFINE m == Len(p) - (j - 1)
    <2>3. Prefix(p, m) \in Pointers /\ m \in 1..Len(p)
      BY <2>1, <2>2
    <2>4. m - 1 = Len(p) - j
      BY <2>2
    <2> HIDE DEF m
    <2>5. Parent(Prefix(p, m)) \in Pointers
      BY <1>2, <2>3, DocumentsAssumption DEF Parent
    <2>6. Prefix(p, m - 1) \in Pointers
      BY <1>2, <2>3, <2>5
    <2>7. QED  BY <2>2, <2>4, <2>6
  <1>5. 0..Len(p) \subseteq P
    <2> HIDE DEF P
    <2>1. QED  BY <1>1, <1>3, <1>4, UpToInduction
  <1>6. Prefix(p, k) \in Pointers
    <2>1. Len(p) - k \in 0..Len(p) /\ Len(p) - (Len(p) - k) = k
      BY <1>1
    <2>2. Prefix(p, Len(p) - (Len(p) - k)) \in Pointers
      BY <1>5, <2>1
    <2>3. QED  BY <2>1, <2>2
  <1>7. k # 0 => k \in 1..Len(p)
    BY <1>1
  <1>8. QED  BY <1>2, <1>6, <1>7

LEMMA PointerFacts ==
  ASSUME NEW p \in Pointers
  PROVE  /\ p \in Seq(Steps)
         /\ << >> \in Pointers
         /\ p # << >> => Parent(p) \in Pointers
  BY DocumentsAssumption, TreesAssumption DEF Parent

\* Induction over positions, from the root down.
LEMMA PositionInduction ==
  ASSUME NEW P, << >> \in P,
         \A p \in Pointers : p # << >> /\ Parent(p) \in P => p \in P
  PROVE  Pointers \subseteq P
  <1>1. SUFFICES ASSUME NEW p \in Pointers  PROVE p \in P
    OBVIOUS
  <1> DEFINE Q == {k \in 0..Len(p) : Prefix(p, k) \in P}
  <1>2. /\ Len(p) \in Nat /\ Prefix(p, 0) = << >> /\ Prefix(p, Len(p)) = p
        /\ 0 \in 0..Len(p) /\ Len(p) \in 0..Len(p)
    <2>1. Len(p) \in Nat /\ Prefix(p, 0) = << >> /\ Prefix(p, Len(p)) = p
      BY PointerFacts, PrefixEnds
    <2>2. QED  BY <2>1
  <1>3. 0 \in Q
    BY <1>2
  <1>4. \A k \in 1..Len(p) : k - 1 \in Q => k \in Q
    <2>1. SUFFICES ASSUME NEW k \in 1..Len(p), k - 1 \in Q  PROVE k \in Q
      OBVIOUS
    <2>2. k \in 0..Len(p) /\ k # 0
      BY <1>2
    <2>3. /\ Prefix(p, k) \in Pointers /\ Prefix(p, k) # << >>
          /\ Parent(Prefix(p, k)) = Prefix(p, k - 1)
      BY <2>2, PrefixesArePositions
    <2>4. QED  BY <2>1, <2>2, <2>3
  <1>5. 0..Len(p) \subseteq Q
    <2> HIDE DEF Q
    <2>1. QED  BY <1>2, <1>3, <1>4, UpToInduction
  <1>6. QED  BY <1>2, <1>5

-----------------------------------------------------------------------------
(* The walk, position by position.                                         *)

Start(u, d) == [base |-> u, dialect |-> d, root |-> << >>]
Governing == ResourceSet \union {None}

\* Not a step the walk takes from the parent of p, governed by up.
Stops(v, p, up) ==
  \/ up = None
  \/ Sub[v][Parent(p)] = None
  \/ p[Len(p)] \notin Reading[Sub[v][Parent(p)]][up.dialect].steps

\* What governs position p when `up` governs its parent.
Below(v, p, up) ==
  IF Stops(v, p, up) THEN None
  ELSE IF Sub[v][p] = None \/ Reading[Sub[v][p]][up.dialect].id = None THEN up
  ELSE [base    |-> Reading[Sub[v][p]][up.dialect].id,
        dialect |-> DialectUriOf(Sub[v][p], up.dialect),
        root    |-> p]

\* The equations a walk from start satisfies.
Walked(w, v, start) ==
  /\ w[<< >>] = start
  /\ \A p \in Pointers : p # << >> => w[p] = Below(v, p, w[Parent(p)])

LEMMA GoverningFacts ==
  ASSUME NEW g \in Governing, g # None
  PROVE  /\ g \in ResourceSet
         /\ g.base \in URIs /\ g.dialect \in Dialects /\ g.root \in Pointers
  BY DEF Governing, ResourceSet

LEMMA BelowType ==
  ASSUME NEW v \in Values, NEW p \in Pointers, p # << >>, NEW up \in Governing
  PROVE  Below(v, p, up) \in Governing
  <1>1. CASE Stops(v, p, up) \/ Sub[v][p] = None \/ Reading[Sub[v][p]][up.dialect].id = None
    BY <1>1 DEF Below, Governing
  <1>2. CASE ~(Stops(v, p, up) \/ Sub[v][p] = None \/ Reading[Sub[v][p]][up.dialect].id = None)
    <2>1. up.dialect \in Dialects
      BY <1>2, GoverningFacts DEF Stops
    <2>2. Sub[v][p] \in Values
      BY <1>2, DataFacts
    <2>3. Reading[Sub[v][p]][up.dialect].id \in URIs
      BY <1>2, <2>1, <2>2, ReadingFacts
    <2>4. DialectUriOf(Sub[v][p], up.dialect) \in Dialects
      BY <2>1, <2>2, DataFacts, NoneFacts DEF DialectUriOf
    <2>5. QED  BY <1>2, <2>3, <2>4 DEF Below, Governing, ResourceSet
  <1>3. QED  BY <1>1, <1>2

\* One step of the walk down to p, as a function to recur by.
Descent(v, p) ==
  [g \in Governing |-> [k \in 1..Len(p) |-> Below(v, Prefix(p, k), g)]]

\* What governs each prefix of p.
IsDescent(f, v, p, start) ==
  f \in [0..Len(p) -> Governing] /\ Recursion(f, Len(p), start, Descent(v, p))

LEMMA DescentExists ==
  ASSUME NEW v \in Values, NEW p \in Pointers, NEW start \in Governing
  PROVE  \E f : IsDescent(f, v, p, start)
  <1>1. Len(p) \in Nat
    BY PointerFacts, PrefixEnds
  <1>2. ASSUME NEW k \in 1..Len(p), NEW g \in Governing
        PROVE  Below(v, Prefix(p, k), g) \in Governing
    <2>1. k \in 0..Len(p) /\ k # 0
      BY <1>1
    <2>2. QED  BY <2>1, PrefixesArePositions, BelowType
  <1>3. Descent(v, p) \in [Governing -> [1..Len(p) -> Governing]]
    BY <1>2 DEF Descent
  <1>4. \E f \in [0..Len(p) -> Governing] : Recursion(f, Len(p), start, Descent(v, p))
    BY ONLY <1>1, <1>3, start \in Governing, RecursionExists
  <1>5. QED  BY <1>4 DEF IsDescent

\* The descent to the parent is the beginning of the descent to a position.
LEMMA DescentsAgree ==
  ASSUME NEW v \in Values, NEW p \in Pointers, p # << >>, NEW start \in Governing,
         NEW f, IsDescent(f, v, p, start),
         NEW g, IsDescent(g, v, Parent(p), start)
  PROVE  f[Len(p)] = Below(v, p, g[Len(Parent(p))])
  <1>1. /\ p \in Seq(Steps) /\ Len(p) \in Nat /\ Len(p) >= 1
        /\ Parent(p) = Prefix(p, Len(p) - 1) /\ Prefix(p, Len(p)) = p
    BY PointerFacts, PrefixEnds
  <1> DEFINE n == Len(p) - 1
  <1>2. n \in Nat /\ n \in 0..Len(p) /\ 0..n \subseteq 0..Len(p) /\ 1..n \subseteq 1..Len(p)
        /\ Len(p) \in 1..Len(p)
    BY <1>1
  <1>3. Len(Parent(p)) = n
    BY <1>1, <1>2, PrefixIs
  <1>4. ASSUME NEW k \in 1..n, NEW x \in Governing
        PROVE  Descent(v, Parent(p))[x][k] = Descent(v, p)[x][k]
    <2>1. Prefix(Parent(p), k) = Prefix(p, k)
      <3>1. k \in 0..n
        BY <1>2
      <3>2. QED  BY <1>1, <1>2, <3>1, PrefixOfPrefix
    <2>2. k \in 1..Len(p) /\ k \in 1..Len(Parent(p))
      BY <1>2, <1>3
    <2>3. QED  BY <2>1, <2>2 DEF Descent
  <1>5. /\ g \in [0..n -> Governing]
        /\ g[0] = start /\ \A k \in 1..n : g[k] = Descent(v, Parent(p))[g[k - 1]][k]
    BY <1>3 DEF IsDescent, Recursion
  <1>6. /\ f \in [0..Len(p) -> Governing]
        /\ f[0] = start /\ \A k \in 1..Len(p) : f[k] = Descent(v, p)[f[k - 1]][k]
    BY DEF IsDescent, Recursion
  <1> HIDE DEF n
  <1>7. ASSUME NEW k \in 1..n  PROVE k - 1 \in 0..n
    BY ONLY <1>2, k \in 1..n
  <1>8. Recursion(g, n, start, Descent(v, p))
    <2>1. \A k \in 1..n : g[k] = Descent(v, p)[g[k - 1]][k]
      BY <1>4, <1>5, <1>7
    <2>2. QED  BY <1>5, <2>1 DEF Recursion
  <1>9. Recursion(f, n, start, Descent(v, p))
    BY <1>2, <1>6 DEF Recursion
  <1>10. \A k \in 0..n : f[k] = g[k]
    BY ONLY <1>2, <1>8, <1>9, RecursionUnique
  <1>11. f[n] = g[n] /\ f[n] \in Governing
    <2>1. n \in 0..n
      BY ONLY <1>2
    <2>2. QED  BY <1>5, <1>10, <2>1
  <1>12. f[Len(p)] = Descent(v, p)[f[n]][Len(p)]
    BY <1>2, <1>6 DEF n
  <1>13. QED  BY <1>1, <1>2, <1>3, <1>11, <1>12 DEF Descent

\* The recursive function inside Walk exists.
LEMMA WalkedExists ==
  ASSUME NEW v \in Values, NEW start \in Governing
  PROVE  \E at \in [Pointers -> Governing] : Walked(at, v, start)
  <1> DEFINE F  == [p \in Pointers |-> CHOOSE f : IsDescent(f, v, p, start)]
             at == [p \in Pointers |-> F[p][Len(p)]]
  <1>1. ASSUME NEW p \in Pointers
        PROVE  IsDescent(F[p], v, p, start)
    <2>1. \E f : IsDescent(f, v, p, start)
      BY DescentExists
    <2>2. QED  BY <2>1
  <1>2. \A p \in Pointers : at[p] = F[p][Len(p)]
    OBVIOUS
  <1>3. at = [p \in Pointers |-> at[p]]
    OBVIOUS
  <1> HIDE DEF F, at
  <1>4. ASSUME NEW p \in Pointers
        PROVE  at[p] \in Governing
    <2>1. Len(p) \in Nat /\ Len(p) \in 0..Len(p)
      <3>1. Len(p) \in Nat
        BY PointerFacts, PrefixEnds
      <3>2. QED  BY <3>1
    <2>2. QED  BY <1>1, <1>2, <2>1 DEF IsDescent
  <1>5. at \in [Pointers -> Governing]
    BY <1>3, <1>4
  <1>6. at[<< >>] = start
    <2>1. << >> \in Pointers /\ Len(<< >>) = 0
      BY NoneFacts, EmptySeq
    <2>2. IsDescent(F[<< >>], v, << >>, start)
      BY <1>1, <2>1
    <2>3. F[<< >>][0] = start
      BY <2>2 DEF IsDescent, Recursion
    <2>4. QED  BY <1>2, <2>1, <2>3
  <1>7. ASSUME NEW p \in Pointers, p # << >>
        PROVE  at[p] = Below(v, p, at[Parent(p)])
    <2>1. Parent(p) \in Pointers
      BY <1>7, PointerFacts
    <2>2. F[p][Len(p)] = Below(v, p, F[Parent(p)][Len(Parent(p))])
      BY <1>1, <1>7, <2>1, DescentsAgree
    <2>3. QED  BY <1>2, <2>1, <2>2
  <1>8. Walked(at, v, start)
    BY <1>6, <1>7 DEF Walked
  <1>9. QED  BY <1>5, <1>8

\* What the walk of v makes of a first approximation.
Retraced(at, v, start) ==
  [p \in Pointers |-> IF p = << >> THEN start ELSE Below(v, p, at[Parent(p)])]

LEMMA RetracedAt ==
  ASSUME NEW at, NEW v, NEW start, NEW b, b = Retraced(at, v, start)
  PROVE  /\ b[<< >>] = start
         /\ \A p \in Pointers : p # << >> => b[p] = Below(v, p, at[Parent(p)])
         /\ b = [p \in Pointers |-> b[p]]
  BY PointerFacts, NoneFacts DEF Retraced

\* The equations determine the types along every position.
LEMMA WalkedType ==
  ASSUME NEW v \in Values, NEW start \in Governing, NEW w, Walked(w, v, start),
         NEW p \in Pointers
  PROVE  w[p] \in Governing
  <1> DEFINE P == {q \in Pointers : w[q] \in Governing}
  <1>1. << >> \in P
    BY NoneFacts DEF Walked
  <1>2. \A q \in Pointers : q # << >> /\ Parent(q) \in P => q \in P
    BY BelowType DEF Walked
  <1>3. Pointers \subseteq P
    <2> HIDE DEF P
    <2>1. QED  BY <1>1, <1>2, PositionInduction
  <1>4. QED  BY <1>3

\* The walk satisfies its equations.
LEMMA WalkEquations ==
  ASSUME NEW v \in Values, NEW u \in URIs, NEW d \in Dialects
  PROVE  /\ Walk(v, u, d) \in [Pointers -> Governing]
         /\ Walked(Walk(v, u, d), v, Start(u, d))
  <1> DEFINE at == CHOOSE a : a = Retraced(a, v, Start(u, d))
  <1>1. Walk(v, u, d) = [p \in Pointers |-> IF p = << >> THEN Start(u, d) ELSE at[p]]
    BY DEF Walk, Retraced, Below, Stops, Parent, Start
  <1>2. Start(u, d) \in Governing
    BY NoneFacts DEF Start, Governing, ResourceSet
  <1>3. PICK a \in [Pointers -> Governing] : Walked(a, v, Start(u, d))
    BY <1>2, WalkedExists
  <1>4. a = Retraced(a, v, Start(u, d))
    BY <1>3 DEF Walked, Retraced
  <1>5. at = Retraced(at, v, Start(u, d))
    BY <1>4
  <1> HIDE DEF at
  <1>6. /\ at[<< >>] = Start(u, d)
        /\ \A p \in Pointers : p # << >> => at[p] = Below(v, p, at[Parent(p)])
        /\ at = [p \in Pointers |-> at[p]]
    BY ONLY <1>5, RetracedAt
  <1>7. Walk(v, u, d) = at
    BY <1>1, <1>6
  <1>8. Walked(at, v, Start(u, d))
    BY <1>6 DEF Walked
  <1>9. \A p \in Pointers : at[p] \in Governing
    BY <1>2, <1>8, WalkedType
  <1>10. at \in [Pointers -> Governing]
    BY <1>6, <1>9
  <1>11. QED  BY <1>7, <1>8, <1>10

-----------------------------------------------------------------------------
(* A resource within a document.                                           *)

\* The walk w of v has a resource that starts at root.
IsResource(v, w, root) ==
  root \in Visited(w) /\ w[root].root = root /\ Sub[v][root] # None

\* The walk of that resource as a document of its own.
Within(v, w, root) == Walks[Sub[v][root]][w[root].base][w[root].dialect]

\* h governs, seen from the document, what g governs within the resource.
Moves(root, g, h) ==
  /\ h = None <=> g = None
  /\ g # None => /\ h.base = g.base
                 /\ h.dialect = g.dialect
                 /\ h.root = root \o g.root

\* A position starts no resource of its own.
Plain(v, p, up) == Sub[v][p] = None \/ Reading[Sub[v][p]][up.dialect].id = None

LEMMA BelowCases ==
  ASSUME NEW v \in Values, NEW p \in Pointers, p # << >>, NEW up \in Governing
  PROVE  /\ Below(v, p, up) = None <=> Stops(v, p, up)
         /\ ~Stops(v, p, up) /\ Plain(v, p, up) => Below(v, p, up) = up
         /\ ~Stops(v, p, up) /\ ~Plain(v, p, up) =>
              /\ Below(v, p, up).base = Reading[Sub[v][p]][up.dialect].id
              /\ Below(v, p, up).dialect = DialectUriOf(Sub[v][p], up.dialect)
              /\ Below(v, p, up).root = p
  <1>1. CASE Stops(v, p, up)
    BY <1>1 DEF Below
  <1>2. CASE ~Stops(v, p, up) /\ Plain(v, p, up)
    BY <1>2 DEF Below, Plain, Stops
  <1>3. CASE ~Stops(v, p, up) /\ ~Plain(v, p, up)
    <2> DEFINE b == Reading[Sub[v][p]][up.dialect].id
               d == DialectUriOf(Sub[v][p], up.dialect)
    <2>1. Below(v, p, up) = [base |-> b, dialect |-> d, root |-> p]
      BY <1>3 DEF Below, Plain
    <2>2. up.dialect \in Dialects /\ Sub[v][p] \in Values
      BY <1>3, GoverningFacts, DataFacts DEF Stops, Plain
    <2>3. b \in URIs
      BY <1>3, <2>2, ReadingFacts DEF Plain
    <2>4. d \in Dialects
      BY <2>2, DataFacts, NoneFacts DEF DialectUriOf
    <2> HIDE DEF b, d
    <2>5. [base |-> b, dialect |-> d, root |-> p] \in ResourceSet
      BY <2>3, <2>4 DEF ResourceSet
    <2>6. Below(v, p, up) # None
      BY <2>1, <2>5, NoneFacts
    <2>7. Below(v, p, up).base = b /\ Below(v, p, up).dialect = d /\ Below(v, p, up).root = p
      BY <2>1
    <2>8. QED  BY <1>3, <2>6, <2>7 DEF b, d
  <1>4. QED  BY <1>1, <1>2, <1>3

LEMMA TreeFacts ==
  ASSUME NEW v \in Values, NEW root \in Pointers, Sub[v][root] # None
  PROVE  /\ Sub[v][root] \in Values
         /\ \A q \in Pointers : root \o q \in Pointers =>
              Sub[v][root \o q] = Sub[Sub[v][root]][q]
         /\ \A q \in Pointers : Sub[Sub[v][root]][q] # None => root \o q \in Pointers
  BY DataFacts, TreesAssumption

\* One step of the walk within a resource is a step of the document's walk.
LEMMA ShiftStep ==
  ASSUME NEW v \in Values, NEW root \in Pointers, Sub[v][root] # None,
         NEW q \in Pointers, q # << >>, root \o q \in Pointers,
         NEW g \in Governing, NEW h \in Governing, Moves(root, g, h)
  PROVE  Moves(root, Below(Sub[v][root], q, g), Below(v, root \o q, h))
  <1> DEFINE val == Sub[v][root]
             r   == root \o q
  <1>1. /\ root \in Seq(Steps) /\ q \in Seq(Steps)
        /\ Parent(q) \in Pointers /\ r \in Pointers
    BY PointerFacts
  <1>2. /\ Parent(r) = root \o Parent(q) /\ r[Len(r)] = q[Len(q)] /\ r # << >>
    BY <1>1, ParentBelow
  <1>3. root \o Parent(q) \in Pointers
    BY <1>1, <1>2, PointerFacts
  <1>4. val \in Values /\ Sub[v][r] = Sub[val][q] /\ Sub[v][Parent(r)] = Sub[val][Parent(q)]
    BY <1>1, <1>2, <1>3, TreeFacts
  <1> HIDE DEF val, r
  <1>5. CASE g = None
    <2>1. h = None
      BY <1>5 DEF Moves
    <2>2. Stops(val, q, g) /\ Stops(v, r, h)
      BY <1>5, <2>1 DEF Stops
    <2>3. Below(val, q, g) = None /\ Below(v, r, h) = None
      BY <2>2 DEF Below
    <2>4. QED  BY <2>3 DEF Moves, val, r
  <1>6. CASE g # None
    <2>1. h # None /\ h.base = g.base /\ h.dialect = g.dialect /\ h.root = root \o g.root
      BY <1>6 DEF Moves
    <2>2. Stops(val, q, g) <=> Stops(v, r, h)
      BY <1>2, <1>4, <1>6, <2>1 DEF Stops
    <2>3. Plain(val, q, g) <=> Plain(v, r, h)
      BY <1>4, <2>1 DEF Plain
    <2>4. /\ Below(val, q, g) = None <=> Stops(val, q, g)
          /\ ~Stops(val, q, g) /\ Plain(val, q, g) => Below(val, q, g) = g
          /\ ~Stops(val, q, g) /\ ~Plain(val, q, g) =>
               /\ Below(val, q, g).base = Reading[Sub[val][q]][g.dialect].id
               /\ Below(val, q, g).dialect = DialectUriOf(Sub[val][q], g.dialect)
               /\ Below(val, q, g).root = q
      BY <1>4, BelowCases
    <2>5. /\ Below(v, r, h) = None <=> Stops(v, r, h)
          /\ ~Stops(v, r, h) /\ Plain(v, r, h) => Below(v, r, h) = h
          /\ ~Stops(v, r, h) /\ ~Plain(v, r, h) =>
               /\ Below(v, r, h).base = Reading[Sub[v][r]][h.dialect].id
               /\ Below(v, r, h).dialect = DialectUriOf(Sub[v][r], h.dialect)
               /\ Below(v, r, h).root = r
      BY <1>1, <1>2, BelowCases
    <2>6. CASE Stops(val, q, g)
      BY <2>2, <2>4, <2>5, <2>6 DEF Moves, val, r
    <2>7. CASE ~Stops(val, q, g) /\ Plain(val, q, g)
      <3>1. Below(val, q, g) = g /\ Below(v, r, h) = h
        BY <2>2, <2>3, <2>4, <2>5, <2>7
      <3>2. QED  BY <3>1 DEF val, r
    <2>8. CASE ~Stops(val, q, g) /\ ~Plain(val, q, g)
      <3>1. /\ Below(val, q, g) # None /\ Below(v, r, h) # None
            /\ Below(v, r, h).base = Below(val, q, g).base
            /\ Below(v, r, h).dialect = Below(val, q, g).dialect
            /\ Below(val, q, g).root = q /\ Below(v, r, h).root = r
        BY <1>4, <2>1, <2>2, <2>3, <2>4, <2>5, <2>8
      <3>2. Below(v, r, h).root = root \o Below(val, q, g).root
        BY <3>1 DEF r
      <3>3. QED  BY <3>1, <3>2 DEF Moves, val, r
    <2>9. QED  BY <2>6, <2>7, <2>8
  <1>7. QED  BY <1>5, <1>6

\* Where a walk goes within a resource, Pointers has the position.
LEMMA StepsArePositions ==
  ASSUME NEW v \in Values, NEW root \in Pointers, Sub[v][root] # None,
         NEW q \in Pointers, q # << >>, NEW g \in Governing,
         Below(Sub[v][root], q, g) # None, root \o Parent(q) \in Pointers
  PROVE  root \o q \in Pointers
  <1> DEFINE val == Sub[v][root]
  <1>1. val \in Values /\ Parent(q) \in Pointers
    BY TreeFacts, PointerFacts
  <1>2. /\ g # None /\ Sub[val][Parent(q)] # None
        /\ q[Len(q)] \in Reading[Sub[val][Parent(q)]][g.dialect].steps
    BY DEF Below, Stops
  <1>3. Sub[v][root \o Parent(q)] = Sub[val][Parent(q)]
    BY <1>1, TreeFacts
  <1>4. g.dialect \in Dialects
    BY <1>2, GoverningFacts
  <1> HIDE DEF val
  <1>5. Append(root \o Parent(q), q[Len(q)]) \in Pointers
    BY <1>2, <1>3, <1>4, TreesAssumption
  <1>6. root \in Seq(Steps) /\ q \in Seq(Steps)
    BY PointerFacts
  <1>7. QED  BY <1>5, <1>6, ParentBelow

\* What the document's walk w and the resource's walk x say of one position.
Shifted(w, x, root, q) ==
  /\ x[q] # None => root \o q \in Pointers
  /\ root \o q \in Pointers => Moves(root, x[q], w[root \o q])

\* Walking a resource of a document as a document of its own finds, position
\* by position, what the walk of the document found below the resource's root.
LEMMA WalksShift ==
  ASSUME NEW v \in Values, NEW start \in Governing,
         NEW w \in [Pointers -> Governing], Walked(w, v, start),
         NEW root, IsResource(v, w, root)
  PROVE  /\ Within(v, w, root) \in [Pointers -> Governing]
         /\ Within(v, w, root)[<< >>] = Start(w[root].base, w[root].dialect)
         /\ \A q \in Pointers : Shifted(w, Within(v, w, root), root, q)
  <1> DEFINE val == Sub[v][root]
             u   == w[root].base
             d   == w[root].dialect
             x   == Within(v, w, root)
  <1>1. root \in Pointers /\ w[root] # None /\ w[root].root = root /\ val # None
    BY DEF IsResource, Visited
  <1>2. val \in Values /\ u \in URIs /\ d \in Dialects
    BY <1>1, TreeFacts, GoverningFacts
  <1>3. x = Walk(val, u, d)
    BY <1>2 DEF Within, Walks
  <1>4. x \in [Pointers -> Governing] /\ Walked(x, val, Start(u, d))
    BY ONLY <1>2, <1>3, WalkEquations
  <1>5. x[<< >>] = Start(u, d)
    BY <1>4 DEF Walked
  <1> HIDE DEF val, u, d, x
  <1> DEFINE P == {q \in Pointers : Shifted(w, x, root, q)}
  <1>6. << >> \in P
    <2>1. root \o << >> = root /\ << >> \in Pointers
      BY <1>1, PointerFacts, PlaceBelow
    <2>2. /\ x[<< >>].base = u /\ x[<< >>].dialect = d /\ x[<< >>].root = << >>
      BY <1>5 DEF Start
    <2>3. x[<< >>] # None
      BY <1>2, <1>5, NoneFacts DEF Start, ResourceSet
    <2>4. w[root].base = u /\ w[root].dialect = d
      BY DEF u, d
    <2>5. Moves(root, x[<< >>], w[root])
      BY <1>1, <2>1, <2>2, <2>3, <2>4 DEF Moves
    <2>6. QED  BY <1>1, <2>1, <2>5 DEF Shifted
  <1>7. \A q \in Pointers : q # << >> /\ Parent(q) \in P => q \in P
    <2>1. SUFFICES ASSUME NEW q \in Pointers, q # << >>, Parent(q) \in P
          PROVE  Shifted(w, x, root, q)
      OBVIOUS
    <2>2. Parent(q) \in Pointers /\ Shifted(w, x, root, Parent(q))
      BY <2>1
    <2>3. x[Parent(q)] \in Governing /\ x[q] = Below(val, q, x[Parent(q)])
      BY <1>4, <2>1, <2>2 DEF Walked
    <2>4. x[q] # None => root \o q \in Pointers
      <3>1. SUFFICES ASSUME x[q] # None  PROVE root \o q \in Pointers
        OBVIOUS
      <3>2. x[Parent(q)] # None
        BY <2>3, <3>1 DEF Below, Stops
      <3>3. root \o Parent(q) \in Pointers
        BY <2>2, <3>2 DEF Shifted
      <3>4. QED  BY <1>1, <2>1, <2>3, <3>1, <3>3, StepsArePositions DEF val
    <2>5. ASSUME root \o q \in Pointers
          PROVE  Moves(root, x[q], w[root \o q])
      <3>1. Parent(root \o q) = root \o Parent(q) /\ root \o q # << >>
        <4>1. root \in Seq(Steps) /\ q \in Seq(Steps)
          BY <1>1, PointerFacts
        <4>2. QED  BY <2>1, <4>1, ParentBelow
      <3>2. root \o Parent(q) \in Pointers
        BY <2>5, <3>1, PointerFacts
      <3>3. Moves(root, x[Parent(q)], w[root \o Parent(q)])
        BY <2>2, <3>2 DEF Shifted
      <3>4. w[root \o q] = Below(v, root \o q, w[root \o Parent(q)])
        BY <2>5, <3>1 DEF Walked
      <3>5. w[root \o Parent(q)] \in Governing
        BY <3>2
      <3>6. Moves(root, Below(val, q, x[Parent(q)]), Below(v, root \o q, w[root \o Parent(q)]))
        BY <1>1, <2>1, <2>3, <2>5, <3>3, <3>5, ShiftStep DEF val
      <3>7. QED  BY <2>3, <3>4, <3>6
    <2>6. QED  BY <2>4, <2>5 DEF Shifted
  <1>8. Pointers \subseteq P
    <2> HIDE DEF P
    <2>1. QED  BY <1>6, <1>7, PositionInduction
  <1>9. \A q \in Pointers : Shifted(w, x, root, q)
    BY <1>8
  <1>10. QED  BY <1>4, <1>5, <1>9 DEF x, u, d

\* The walk x is the walk w of v, seen from root.
Lies(v, w, x, root) ==
  /\ v \in Values /\ root \in Pointers /\ Sub[v][root] # None
  /\ w \in [Pointers -> Governing] /\ x \in [Pointers -> Governing]
  /\ \A q \in Pointers : Shifted(w, x, root, q)

\* ... and reads there what the document's walk reads.
LEMMA ReadingsShift ==
  ASSUME NEW v, NEW w, NEW x, NEW root, Lies(v, w, x, root),
         NEW q \in Visited(x)
  PROVE  /\ root \o q \in Visited(w)
         /\ w[root \o q].root = root \o x[q].root
         /\ ReadingAt(v, w, root \o q) = ReadingAt(Sub[v][root], x, q)
  <1>1. q \in Pointers /\ x[q] # None
    BY DEF Visited
  <1>2. root \o q \in Pointers /\ Moves(root, x[q], w[root \o q])
    BY <1>1 DEF Lies, Shifted
  <1>3. /\ w[root \o q] # None /\ w[root \o q].dialect = x[q].dialect
        /\ w[root \o q].root = root \o x[q].root
    BY <1>1, <1>2 DEF Moves
  <1>4. Sub[v][root \o q] = Sub[Sub[v][root]][q]
    BY <1>1, <1>2, TreeFacts DEF Lies
  <1>5. QED  BY <1>2, <1>3, <1>4 DEF Visited, ReadingAt

\* The anchors of a resource are those its own walk finds, for any way of
\* naming that depends on what is read at a position only.
LEMMA AnchorsShift ==
  ASSUME NEW v, NEW w, NEW x, NEW root, Lies(v, w, x, root), NEW names, NEW own,
         \A q \in Visited(x) : names[root \o q] = own[q]
  PROVE  AnchorsUnder(w, root, names) = AnchorsUnder(x, << >>, own)
  <1>1. ASSUME NEW n \in Names, NEW q \in Pointers
        PROVE  (\E p \in Visited(w) : p = root \o q /\ w[p].root = root /\ n \in names[p])
                 <=> (\E p \in Visited(x) : p = << >> \o q /\ x[p].root = << >> /\ n \in own[p])
    <2>1. << >> \o q = q
      BY PointerFacts, ConcatEmptySeq
    <2>2. root \in Pointers /\ Shifted(w, x, root, q)
      BY DEF Lies
    <2>3. ASSUME NEW p \in Visited(w), p = root \o q, w[p].root = root, n \in names[p]
          PROVE  q \in Visited(x) /\ x[q].root = << >> /\ n \in own[q]
      <3>1. root \o q \in Pointers /\ w[root \o q] # None
        BY <2>3 DEF Visited
      <3>2. x[q] # None /\ w[root \o q].root = root \o x[q].root
        BY <2>2, <3>1 DEF Shifted, Moves
      <3>3. x[q].root \in Pointers
        BY <3>2, GoverningFacts DEF Lies
      <3>4. x[q].root = << >>
        BY <2>2, <2>3, <3>2, <3>3, PointerFacts, PlaceBelow
      <3>5. q \in Visited(x)
        BY <3>2 DEF Visited
      <3>6. QED  BY <2>3, <3>4, <3>5
    <2>4. q \in Visited(x) =>
            root \o q \in Visited(w) /\ w[root \o q].root = root \o x[q].root
      BY ReadingsShift
    <2>5. ASSUME q \in Visited(x), x[q].root = << >>, n \in own[q]
          PROVE  root \o q \in Visited(w) /\ w[root \o q].root = root /\ n \in names[root \o q]
      <3>1. root \o q \in Visited(w) /\ w[root \o q].root = root \o x[q].root
        BY <2>4, <2>5
      <3>2. root \o << >> = root
        BY <2>2, PointerFacts, PlaceBelow
      <3>3. QED  BY <2>5, <3>1, <3>2
    <2>6. QED  BY <2>1, <2>3, <2>5
  <1>2. \A a \in Names \X Pointers : a \in AnchorsUnder(w, root, names) <=> a \in AnchorsUnder(x, << >>, own)
    <2>1. SUFFICES ASSUME NEW a \in Names \X Pointers
          PROVE  a \in AnchorsUnder(w, root, names) <=> a \in AnchorsUnder(x, << >>, own)
      OBVIOUS
    <2>2. a[1] \in Names /\ a[2] \in Pointers
      OBVIOUS
    <2>3. QED  BY <1>1, <2>2 DEF AnchorsUnder
  <1>3. /\ AnchorsUnder(w, root, names) \subseteq Names \X Pointers
        /\ AnchorsUnder(x, << >>, own) \subseteq Names \X Pointers
    BY DEF AnchorsUnder
  <1>4. QED  BY <1>2, <1>3

-----------------------------------------------------------------------------
(* What a registration stages is what the resource's own walk finds.       *)

\* The entries of u, given its schema and dialect, are what its walk yields.
Current(u, val, d, plain, dynamic, recursive) ==
  LET s == StagedResource(val, Walks[val][u][d], u, u)
  IN /\ plain = s.anchors
     /\ dynamic = s.dynamicAnchors
     /\ recursive = s.recursiveRoot

\* The unions have what the walk of u reads within u itself.
Complete(u, val, d, produces, consumes, covers) ==
  LET w == Walks[val][u][d]
  IN \A p \in Visited(w) : w[p].root = << >> =>
       /\ ReadingAt(val, w, p).produces \subseteq produces
       /\ ReadingAt(val, w, p).consumes \subseteq consumes
       /\ ReadingAt(val, w, p).covers \subseteq covers

\* A successful walk of v from its base.
Succeeds(v, w, base, d) ==
  /\ v \in Values /\ base \in URIs /\ d \in Dialects
  /\ w = Walk(v, base, d)
  /\ \A p \in Visited(w) : Sub[v][p] # None

LEMMA WalkOfRegistration ==
  ASSUME NEW v, NEW w, NEW base, NEW d, Succeeds(v, w, base, d)
  PROVE  /\ w \in [Pointers -> Governing]
         /\ Walked(w, v, Start(base, d))
         /\ w[<< >>] = Start(base, d) /\ w[<< >>] # None
         /\ Start(base, d) \in Governing
  <1>1. /\ v \in Values /\ base \in URIs /\ d \in Dialects
        /\ w = Walk(v, base, d)
    BY DEF Succeeds
  <1>2. w \in [Pointers -> Governing] /\ Walked(w, v, Start(base, d))
    BY ONLY <1>1, WalkEquations
  <1>3. Start(base, d) \in ResourceSet
    BY <1>1, NoneFacts DEF Start, ResourceSet
  <1>4. QED  BY <1>2, <1>3, NoneFacts DEF Walked, Governing

LEMMA ClaimedRoot ==
  ASSUME NEW v, NEW w, NEW base, NEW d, Succeeds(v, w, base, d),
         NEW u \in Claimed(w, base)
  PROVE  /\ IsResource(v, w, RootOf(w, base, u))
         /\ w[RootOf(w, base, u)].base = u
  <1> DEFINE root == RootOf(w, base, u)
  <1>1. w[<< >>] = Start(base, d) /\ w[<< >>] # None
    BY WalkOfRegistration
  <1>2. root \in Visited(w)
    BY <1>1, RootOfType
  <1>3. w[root].root = root /\ w[root].base = u
    <2>1. CASE u = base
      <3>1. root = << >>
        BY <2>1 DEF RootOf
      <3>2. w[<< >>].base = base /\ w[<< >>].root = << >>
        BY <1>1 DEF Start
      <3>3. QED  BY <2>1, <3>1, <3>2
    <2>2. CASE u # base
      <3>1. \E p \in Embedded(w) : w[p].base = u
        BY <2>2 DEF Claimed
      <3>2. root \in Embedded(w) /\ w[root].base = u
        BY <2>2, <3>1 DEF RootOf
      <3>3. QED  BY <3>2 DEF Embedded
    <2>3. QED  BY <2>1, <2>2
  <1>4. Sub[v][root] # None
    BY <1>2 DEF Succeeds
  <1> HIDE DEF root
  <1>5. QED  BY <1>2, <1>3, <1>4 DEF IsResource, root

\* The parts of a staged resource.
LEMMA StagedParts ==
  ASSUME NEW v, NEW w, NEW base, NEW u, NEW root, root = RootOf(w, base, u)
  PROVE  /\ StagedResource(v, w, base, u).value = Sub[v][root]
         /\ StagedResource(v, w, base, u).dialectUri = w[root].dialect
         /\ StagedResource(v, w, base, u).anchors =
              AnchorsUnder(w, root, [p \in Visited(w) |-> PlainNames(v, w, p)])
         /\ StagedResource(v, w, base, u).dynamicAnchors =
              AnchorsUnder(w, root, [p \in Visited(w) |-> DynamicNames(v, w, p)])
         /\ StagedResource(v, w, base, u).recursiveRoot = ReadingAt(v, w, root).recursive
  BY DEF StagedResource

\* ... and where it is staged.
LEMMA StagedLocation ==
  ASSUME NEW v, NEW w, NEW base, NEW u
  PROVE  /\ StagedResource(v, w, base, u).location.documentUri = base
         /\ StagedResource(v, w, base, u).location.pointer = RootOf(w, base, u)
  BY DEF StagedResource

LEMMA StagedIsCurrent ==
  ASSUME NEW v, NEW w, NEW base, NEW d, Succeeds(v, w, base, d),
         NEW u \in Claimed(w, base), NEW s, s = StagedResource(v, w, base, u)
  PROVE  /\ Current(u, s.value, s.dialectUri, s.anchors, s.dynamicAnchors, s.recursiveRoot)
         /\ Complete(u, s.value, s.dialectUri,
                     WalkProduces(v, w), WalkConsumes(v, w), WalkCovers(v, w))
  <1> DEFINE root  == RootOf(w, base, u)
             val   == Sub[v][root]
             x     == Within(v, w, root)
             plain == [p \in Visited(w) |-> PlainNames(v, w, p)]
             dyn   == [p \in Visited(w) |-> DynamicNames(v, w, p)]
             ownPlain == [p \in Visited(x) |-> PlainNames(val, x, p)]
             ownDyn   == [p \in Visited(x) |-> DynamicNames(val, x, p)]
  <1>1. IsResource(v, w, root) /\ w[root].base = u
    BY ClaimedRoot
  <1>2. /\ root \in Pointers /\ w[root] # None /\ val # None
    BY <1>1 DEF IsResource, Visited
  <1>3. /\ v \in Values /\ w \in [Pointers -> Governing]
        /\ Walked(w, v, Start(base, d)) /\ Start(base, d) \in Governing
    BY WalkOfRegistration DEF Succeeds
  <1>4. /\ s.value = val /\ s.dialectUri = w[root].dialect
        /\ s.anchors = AnchorsUnder(w, root, plain)
        /\ s.dynamicAnchors = AnchorsUnder(w, root, dyn)
        /\ s.recursiveRoot = ReadingAt(v, w, root).recursive
    BY StagedParts
  <1> HIDE DEF root
  <1>5. /\ x \in [Pointers -> Governing]
        /\ x[<< >>] = Start(w[root].base, w[root].dialect)
        /\ \A q \in Pointers : Shifted(w, x, root, q)
    BY ONLY <1>1, <1>3, WalksShift
  <1>6. x = Walks[val][u][s.dialectUri]
    BY <1>1, <1>4 DEF Within
  <1> HIDE DEF x, val
  <1>7. Lies(v, w, x, root) /\ val = Sub[v][root]
    BY <1>2, <1>3, <1>5 DEF Lies, val
  <1>8. ASSUME NEW q \in Visited(x)
        PROVE  /\ root \o q \in Visited(w)
               /\ w[root \o q].root = root \o x[q].root
               /\ ReadingAt(v, w, root \o q) = ReadingAt(val, x, q)
    BY <1>7, ReadingsShift
  <1>9. /\ AnchorsUnder(w, root, plain) = AnchorsUnder(x, << >>, ownPlain)
        /\ AnchorsUnder(w, root, dyn) = AnchorsUnder(x, << >>, ownDyn)
    <2>1. /\ \A q \in Visited(x) : plain[root \o q] = ownPlain[q]
          /\ \A q \in Visited(x) : dyn[root \o q] = ownDyn[q]
      BY <1>8 DEF PlainNames, DynamicNames
    <2> HIDE DEF plain, ownPlain, dyn, ownDyn
    <2>2. QED  BY <1>7, <2>1, AnchorsShift
  <1>10. ReadingAt(v, w, root) = ReadingAt(val, x, << >>)
    <2>1. << >> \in Pointers /\ root \o << >> = root
      BY <1>2, PointerFacts, PlaceBelow
    <2>2. Shifted(w, x, root, << >>) /\ IsResource(v, w, root)
      BY <1>1, <1>5, <2>1
    <2>3. << >> \in Visited(x)
      <3>1. w[root].base \in URIs /\ w[root].dialect \in Dialects
        BY <1>2, <1>3, GoverningFacts
      <3>2. Start(w[root].base, w[root].dialect) \in ResourceSet
        BY <2>1, <3>1 DEF Start, ResourceSet
      <3>3. QED  BY <1>5, <2>1, <3>2, NoneFacts DEF Visited
    <2>4. ReadingAt(v, w, root \o << >>) = ReadingAt(val, x, << >>)
      BY <1>8, <2>3
    <2>5. QED  BY <2>1, <2>4
  <1>11. RootOf(x, u, u) = << >>
    BY DEF RootOf
  <1>12. /\ StagedResource(val, x, u, u).anchors = AnchorsUnder(x, << >>, ownPlain)
         /\ StagedResource(val, x, u, u).dynamicAnchors = AnchorsUnder(x, << >>, ownDyn)
         /\ StagedResource(val, x, u, u).recursiveRoot = ReadingAt(val, x, << >>).recursive
    BY <1>11 DEF StagedResource
  <1> HIDE DEF plain, dyn, ownPlain, ownDyn
  <1>13. Current(u, s.value, s.dialectUri, s.anchors, s.dynamicAnchors, s.recursiveRoot)
    BY <1>4, <1>6, <1>9, <1>10, <1>12 DEF Current
  <1>14. Complete(u, s.value, s.dialectUri,
                  WalkProduces(v, w), WalkConsumes(v, w), WalkCovers(v, w))
    <2>1. SUFFICES ASSUME NEW p \in Visited(x)
          PROVE  /\ ReadingAt(val, x, p).produces \subseteq WalkProduces(v, w)
                 /\ ReadingAt(val, x, p).consumes \subseteq WalkConsumes(v, w)
                 /\ ReadingAt(val, x, p).covers \subseteq WalkCovers(v, w)
      BY <1>4, <1>6 DEF Complete
    <2>3. /\ root \o p \in Visited(w)
          /\ ReadingAt(v, w, root \o p) = ReadingAt(val, x, p)
      BY <1>8
    <2>4. QED  BY <2>3 DEF WalkProduces, WalkConsumes, WalkCovers
  <1>15. QED  BY <1>13, <1>14

LEMMA StagedRecursive ==
  ASSUME NEW v, NEW w, NEW base, NEW d, Succeeds(v, w, base, d),
         NEW u \in Claimed(w, base)
  PROVE  StagedResource(v, w, base, u).recursiveRoot \in BOOLEAN
  <1> DEFINE root == RootOf(w, base, u)
  <1>1. IsResource(v, w, root)
    BY ClaimedRoot
  <1>2. StagedResource(v, w, base, u).recursiveRoot = ReadingAt(v, w, root).recursive
    BY DEF StagedResource
  <1>3. v \in Values /\ w \in [Pointers -> Governing]
    BY WalkOfRegistration DEF Succeeds
  <1> HIDE DEF root
  <1>4. root \in Pointers /\ w[root] # None /\ Sub[v][root] # None
    BY <1>1 DEF IsResource, Visited
  <1>5. Sub[v][root] \in Values /\ w[root].dialect \in Dialects
    BY <1>3, <1>4, TreeFacts, GoverningFacts
  <1>6. QED  BY <1>2, <1>5, ReadingFacts DEF ReadingAt

-----------------------------------------------------------------------------
(* The two invariants.                                                     *)

\* What a registration does to the entries and unions, and the walk it is of.
Registers(v, w, base, d) ==
  /\ Succeeds(v, w, base, d)
  /\ ResourcesFree(v, w, base)
  /\ EntryStep(GoneBy(base), Stage(v, w, base))
  /\ recursiveRoots' =
       (recursiveRoots \ (GoneBy(base) \union Claimed(w, base)))
         \union {u \in Claimed(w, base) : StagedResource(v, w, base, u).recursiveRoot}
  /\ ownedResources' =
       [u \in URIs |-> IF u = base THEN Claimed(w, base)
                      ELSE IF u \in Absorbed(Claimed(w, base), base) THEN {}
                      ELSE ownedResources[u]]
  /\ CommitFacts(v, w)

LEMMA RegisterIsWalk ==
  ASSUME TypeOK, TypeOK', NEW v \in Documents, NEW r \in URIs, NEW d \in Dialects,
         NEW ranged \in BOOLEAN, Register(v, r, d, ranged)
  PROVE  \E w, base, dial : Registers(v, w, base, dial)
  <1> DEFINE dial == DialectUriOf(v, d)
             base == BaseUriOf(v, r, d)
             w    == Walks[v][base][dial]
             staged == Stage(v, w, base)
  <1>1. v \in Values /\ base \in URIs /\ dial \in Dialects
    BY DataFacts, BaseType
  <1>2. /\ RetrievalFree(r, base) /\ WalkSucceeds(v, w) /\ ResourcesFree(v, w, base)
        /\ Commit(base, staged, r, ranged)
        /\ CommitFacts(v, w)
        /\ dialects' = dialects
    BY DEF Register
  <1>3. StageOK(base, staged, r)
    BY <1>1, <1>2, RegisterStage
  <1>4. DOMAIN staged = Claimed(w, base)
        /\ \A u \in Claimed(w, base) : staged[u] = StagedResource(v, w, base, u)
    BY DEF Stage
  <1>5. w = Walk(v, base, dial)
    <2> HIDE DEF base, dial
    <2>1. QED  BY <1>1 DEF Walks
  <1> HIDE DEF w, base, dial, staged
  <1>6. RegisterStep(base, staged, r, ranged)
    BY <1>2, <1>3 DEF RegisterStep, TypeOK
  <1>7. EntryStep(GoneBy(base), staged)
    BY <1>6, CommitEntries
  <1>8. recursiveRoots' =
          (recursiveRoots \ (GoneBy(base) \union Claimed(w, base)))
            \union {u \in Claimed(w, base) : StagedResource(v, w, base, u).recursiveRoot}
    <2>1. recursiveRoots' = (recursiveRoots \ (GoneBy(base) \union DOMAIN staged))
                              \union {u \in DOMAIN staged : staged[u].recursiveRoot}
      BY <1>2 DEF Commit, GoneBy
    <2>2. {u \in DOMAIN staged : staged[u].recursiveRoot}
            = {u \in Claimed(w, base) : StagedResource(v, w, base, u).recursiveRoot}
      BY <1>4
    <2>3. QED  BY <1>4, <2>1, <2>2
  <1>9. Succeeds(v, w, base, dial)
    BY <1>1, <1>2, <1>5 DEF Succeeds, WalkSucceeds
  <1>10. ownedResources' =
           [u \in URIs |-> IF u = base THEN Claimed(w, base)
                          ELSE IF u \in Absorbed(Claimed(w, base), base) THEN {}
                          ELSE ownedResources[u]]
    BY <1>2, <1>4 DEF Commit
  <1>11. Registers(v, w, base, dial)
    BY <1>2, <1>7, <1>8, <1>9, <1>10 DEF Registers, staged
  <1>12. QED  BY <1>11

\* The two invariants, resource by resource.
EntryHolds(u) ==
  /\ Current(u, documents[u], documentDialects[u], anchors[u], dynamicAnchors[u],
             u \in recursiveRoots)
  /\ Complete(u, documents[u], documentDialects[u], produced, consumed, coverageProducers)

WalkInv == \A u \in URIs : Registered(u) => EntryHolds(u)

LEMMA WalkInvIs == WalkInv <=> EntriesAreCurrent /\ FactsComplete
  BY DEF WalkInv, EntryHolds, EntriesAreCurrent, FactsComplete, Current, Complete

LEMMA CompleteGrows ==
  ASSUME NEW u, NEW val, NEW d, NEW p, NEW c, NEW k, Complete(u, val, d, p, c, k),
         NEW p2, NEW c2, NEW k2, p \subseteq p2, c \subseteq c2, k \subseteq k2
  PROVE  Complete(u, val, d, p2, c2, k2)
  BY DEF Complete

\* A resource a step leaves alone keeps its entries, and the unions only grow.
LEMMA EntryKept ==
  ASSUME NEW u \in URIs, EntryHolds(u),
         documents'[u] = documents[u], documentDialects'[u] = documentDialects[u],
         anchors'[u] = anchors[u], dynamicAnchors'[u] = dynamicAnchors[u],
         u \in recursiveRoots' <=> u \in recursiveRoots,
         produced \subseteq produced', consumed \subseteq consumed',
         coverageProducers \subseteq coverageProducers'
  PROVE  EntryHolds(u)'
  <1>1. Complete(u, documents[u], documentDialects[u], produced', consumed', coverageProducers')
    BY CompleteGrows DEF EntryHolds
  <1>2. Current(u, documents[u], documentDialects[u], anchors[u], dynamicAnchors[u],
                u \in recursiveRoots')
    BY DEF EntryHolds, Current
  <1>3. QED  BY <1>1, <1>2 DEF EntryHolds

LEMMA RegisterWalks ==
  ASSUME WalkInv, NEW v, NEW w, NEW base, NEW d, Registers(v, w, base, d)
  PROVE  WalkInv'
  <1> DEFINE staged == Stage(v, w, base)
  <1>1. /\ DOMAIN staged = Claimed(w, base)
        /\ \A u \in Claimed(w, base) : staged[u] = StagedResource(v, w, base, u)
    BY DEF Stage
  <1>2. EntryStep(GoneBy(base), staged) /\ CommitFacts(v, w) /\ Succeeds(v, w, base, d)
    BY DEF Registers
  <1>3. recursiveRoots' =
          (recursiveRoots \ (GoneBy(base) \union Claimed(w, base)))
            \union {u \in Claimed(w, base) : StagedResource(v, w, base, u).recursiveRoot}
    BY DEF Registers
  <1>4. /\ produced \subseteq produced' /\ WalkProduces(v, w) \subseteq produced'
        /\ consumed \subseteq consumed' /\ WalkConsumes(v, w) \subseteq consumed'
        /\ coverageProducers \subseteq coverageProducers'
        /\ WalkCovers(v, w) \subseteq coverageProducers'
    BY <1>2 DEF CommitFacts
  <1> HIDE DEF staged
  <1>5. SUFFICES ASSUME NEW u \in URIs, documents'[u] # None  PROVE EntryHolds(u)'
    BY DEF WalkInv, Registered
  <1>6. CASE u \in Claimed(w, base)
    <2> DEFINE s == StagedResource(v, w, base, u)
    <2>1. /\ documents'[u] = s.value /\ documentDialects'[u] = s.dialectUri
          /\ anchors'[u] = s.anchors /\ dynamicAnchors'[u] = s.dynamicAnchors
      BY <1>1, <1>2, <1>6 DEF EntryStep
    <2>2. u \in recursiveRoots' <=> s.recursiveRoot
      BY <1>3, <1>6
    <2>3. /\ Current(u, s.value, s.dialectUri, s.anchors, s.dynamicAnchors, s.recursiveRoot)
          /\ Complete(u, s.value, s.dialectUri,
                      WalkProduces(v, w), WalkConsumes(v, w), WalkCovers(v, w))
      BY <1>2, <1>6, StagedIsCurrent
    <2>4. s.recursiveRoot \in BOOLEAN
      BY <1>2, <1>6, StagedRecursive
    <2> HIDE DEF s
    <2>5. Complete(u, s.value, s.dialectUri, produced', consumed', coverageProducers')
      BY <1>4, <2>3, CompleteGrows
    <2>6. (u \in recursiveRoots') = s.recursiveRoot
      BY <2>2, <2>4
    <2>7. Current(u, s.value, s.dialectUri, s.anchors, s.dynamicAnchors, u \in recursiveRoots')
      BY <2>3, <2>6 DEF Current
    <2>8. QED  BY <2>1, <2>5, <2>7 DEF EntryHolds
  <1>7. CASE u \notin Claimed(w, base)
    <2>1. u \notin GoneBy(base)
      BY <1>1, <1>2, <1>5, <1>7 DEF EntryStep
    <2>2. /\ documents'[u] = documents[u] /\ documentDialects'[u] = documentDialects[u]
          /\ anchors'[u] = anchors[u] /\ dynamicAnchors'[u] = dynamicAnchors[u]
      BY <1>1, <1>2, <1>7, <2>1 DEF EntryStep
    <2>3. u \in recursiveRoots' <=> u \in recursiveRoots
      BY <1>3, <1>7, <2>1
    <2>4. EntryHolds(u)
      BY <1>5, <2>2 DEF WalkInv, Registered
    <2>5. QED  BY <1>4, <2>2, <2>3, <2>4, EntryKept
  <1>8. QED  BY <1>6, <1>7

LEMMA UnregisterWalks ==
  ASSUME WalkInv, NEW uri \in URIs, Unregister(uri)
  PROVE  WalkInv'
  <1>1. EntryStep(Evicted(Canonical(uri)), << >>) /\ DOMAIN << >> = {}
    BY UnregisterEntries
  <1>2. /\ recursiveRoots' = recursiveRoots \ Evicted(Canonical(uri))
        /\ produced' = produced /\ consumed' = consumed
        /\ coverageProducers' = coverageProducers
    BY DEF Unregister, facts
  <1>3. SUFFICES ASSUME NEW u \in URIs, documents'[u] # None  PROVE EntryHolds(u)'
    BY DEF WalkInv, Registered
  <1>4. u \notin Evicted(Canonical(uri))
    BY <1>1, <1>3 DEF EntryStep
  <1>5. /\ documents'[u] = documents[u] /\ documentDialects'[u] = documentDialects[u]
        /\ anchors'[u] = anchors[u] /\ dynamicAnchors'[u] = dynamicAnchors[u]
    BY <1>1, <1>4 DEF EntryStep
  <1>6. EntryHolds(u)
    BY <1>3, <1>5 DEF WalkInv, Registered
  <1>7. QED  BY <1>2, <1>4, <1>5, <1>6, EntryKept

LEMMA QuietWalks == WalkInv /\ QuietStep => WalkInv'
  BY DEF WalkInv, Registered, EntryHolds, QuietStep, indexes, facts

LEMMA InitWalks == Init => WalkInv
  BY DEF Init, WalkInv, Registered

LEMMA NextWalks == TypeOK /\ WalkInv /\ [Next]_vars => WalkInv'
  <1>1. SUFFICES ASSUME TypeOK, WalkInv, [Next]_vars  PROVE WalkInv'
    OBVIOUS
  <1>2. TypeOK'
    BY <1>1, NextType
  <1>3. CASE \E v \in Documents, r \in URIs, d \in Dialects, ranged \in BOOLEAN :
               Register(v, r, d, ranged)
    BY <1>1, <1>2, <1>3, RegisterIsWalk, RegisterWalks
  <1>4. CASE \E u \in URIs : Unregister(u)
    BY <1>1, <1>4, UnregisterWalks
  <1>5. CASE QuietStep
    BY <1>1, <1>5, QuietWalks
  <1>6. QED  BY <1>1, <1>3, <1>4, <1>5, QuietSteps DEF Next

LEMMA WalkInvHolds == Spec => []WalkInv
  <1>1. TypeOK /\ WalkInv /\ [Next]_vars => TypeOK' /\ WalkInv'
    BY NextType, NextWalks
  <1>2. QED  BY <1>1, TypeCorrect, InitWalks, NextWalks, PTL DEF Spec

\* The anchor indexes of every registered resource are what walking its
\* present schema under its present dialect yields.
THEOREM EntriesStayCurrent == Spec => []EntriesAreCurrent
  <1>1. WalkInv => EntriesAreCurrent
    BY WalkInvIs
  <1>2. QED  BY <1>1, WalkInvHolds, PTL

\* The keyword unions never miss what a registered resource reads or covers.
THEOREM FactsStayComplete == Spec => []FactsComplete
  <1>1. WalkInv => FactsComplete
    BY WalkInvIs
  <1>2. QED  BY <1>1, WalkInvHolds, PTL

-----------------------------------------------------------------------------
(* Every resource is owned by the document it is located in.               *)

\* A document that a step makes a resource of another leaves none of its
\* resources behind.
AbsorbsWhole ==
  \A d \in URIs : IsDocument(d) /\ ~IsDocument(d)' /\ Registered(d)' =>
    \A u \in OwnedBy(d) : u \notin OwnedBy(d)'

\* The dialects name resources by the same keyword and find subschemas at the
\* same places, whatever else they read differently.
DialectsReadAlike ==
  \A v \in Values : \A d, e \in Dialects :
    /\ Reading[v][d].id = Reading[v][e].id
    /\ Reading[v][d].steps = Reading[v][e].steps

\* A registered resource is where walking its document finds it.
Located(u) ==
  LET l == locations[u]
      w == Walks[documents[l.documentUri]][l.documentUri][documentDialects[l.documentUri]]
  IN w[l.pointer] # None /\ w[l.pointer].base = u /\ w[l.pointer].root = l.pointer

LocatedByWalk == \A u \in URIs : Registered(u) => Located(u)

\* A step leaves a resource and its document alone.
Undisturbed(u) ==
  LET d == locations[u].documentUri
  IN /\ Registered(u) /\ documents'[u] = documents[u] /\ locations'[u] = locations[u]
     /\ documents'[d] = documents[d]
     /\ documentDialects'[d] = documentDialects[d]
     /\ ownedResources'[d] = ownedResources[d]

\* The document of a registered resource is located at itself and owns it.
LEMMA OwnerFacts ==
  ASSUME TypeOK, IndexesAgree, RootsOwn, ResourcesAreOwned,
         NEW u \in URIs, Registered(u), NEW d, d = locations[u].documentUri
  PROVE  /\ d \in URIs /\ u \in ownedResources[d] /\ u \in OwnedBy(d)
         /\ IsDocument(d) /\ locations[d] # None /\ locations[d].documentUri = d
         /\ documents[d] # None
         /\ locations[u].pointer \in Pointers
         /\ Sub[documents[d]][locations[u].pointer] = documents[u]
  <1>1. locations[u] # None
    BY DEF IndexesAgree
  <1>2. locations[u] \in LocationSet
    BY <1>1 DEF TypeOK
  <1>3. d \in URIs /\ locations[u].pointer \in Pointers
    BY <1>2 DEF LocationSet
  <1>4. /\ u \in ownedResources[d] /\ documents[d] # None
        /\ Sub[documents[d]][locations[u].pointer] = documents[u]
    BY DEF ResourcesAreOwned, Registered
  <1>5. IsDocument(d)
    BY <1>3, <1>4 DEF RootsOwn
  <1>6. locations[d] # None /\ locations[d].documentUri = d
    BY <1>5 DEF IsDocument, OwnedBy
  <1>7. u \in OwnedBy(d)
    BY <1>1, OwnedByFacts
  <1>8. QED  BY <1>3, <1>4, <1>5, <1>6, <1>7

\* A claimed resource is registered, so it has a location.
LEMMA LocatedClaim ==
  ASSUME NEW v, NEW w, NEW base, NEW d, Registers(v, w, base, d),
         NEW u \in Claimed(w, base)
  PROVE  locations'[u] # None
  <1>1. Succeeds(v, w, base, d) /\ EntryStep(GoneBy(base), Stage(v, w, base))
    BY DEF Registers
  <1>2. u \in URIs
    BY <1>1 DEF Claimed, Succeeds
  <1> PICK root : root = RootOf(w, base, u)
    OBVIOUS
  <1>3. root \in Pointers
    BY <1>1, ClaimedRoot DEF IsResource, Visited
  <1>4. [documentUri |-> base, pointer |-> root] # None
    <2>1. base \in URIs
      BY <1>1 DEF Succeeds
    <2>2. QED  BY <1>3, <2>1, NoneFacts DEF LocationSet
  <1>5. Stage(v, w, base)[u].location = [documentUri |-> base, pointer |-> root]
    BY DEF Stage, StagedResource
  <1>6. locations'[u] = Stage(v, w, base)[u].location
    BY <1>1, <1>2 DEF EntryStep, Stage
  <1>7. QED  BY <1>4, <1>5, <1>6

\* A claimed resource of a registration, entry by entry.
LEMMA ClaimedEntries ==
  ASSUME NEW v, NEW w, NEW base, NEW d, Registers(v, w, base, d),
         NEW u \in Claimed(w, base), NEW root, root = RootOf(w, base, u)
  PROVE  /\ u \in URIs /\ root \in Pointers
         /\ documents'[u] = Sub[v][root] /\ Sub[v][root] # None
         /\ documentDialects'[u] = w[root].dialect
         /\ locations'[u].documentUri = base /\ locations'[u].pointer = root
         /\ w[root] # None /\ w[root].base = u /\ w[root].root = root
  <1>1. Succeeds(v, w, base, d) /\ EntryStep(GoneBy(base), Stage(v, w, base))
    BY DEF Registers
  <1>2. u \in URIs
    BY <1>1 DEF Claimed, Succeeds
  <1>3. u \in DOMAIN Stage(v, w, base) /\ Stage(v, w, base)[u] = StagedResource(v, w, base, u)
    BY DEF Stage
  <1>4. /\ documents'[u] = StagedResource(v, w, base, u).value
        /\ documentDialects'[u] = StagedResource(v, w, base, u).dialectUri
        /\ locations'[u] = StagedResource(v, w, base, u).location
    BY <1>1, <1>2, <1>3 DEF EntryStep
  <1>5. IsResource(v, w, root) /\ w[root].base = u
    BY <1>1, ClaimedRoot
  <1> DEFINE s == StagedResource(v, w, base, u)
  <1>6. /\ s.value = Sub[v][root] /\ s.dialectUri = w[root].dialect
        /\ s.location.documentUri = base /\ s.location.pointer = root
    <2>1. s.value = Sub[v][root] /\ s.dialectUri = w[root].dialect
      BY DEF StagedResource
    <2>2. s.location.documentUri = base /\ s.location.pointer = root
      BY StagedLocation
    <2>3. QED  BY <2>1, <2>2
  <1>7. root \in Pointers /\ w[root] # None /\ w[root].root = root /\ Sub[v][root] # None
    BY <1>5 DEF IsResource, Visited
  <1> HIDE DEF s
  <1>8. QED
    BY <1>2, <1>4, <1>5, <1>6, <1>7 DEF s

\* ... and the document itself.
LEMMA BaseEntries ==
  ASSUME NEW v, NEW w, NEW base, NEW d, Registers(v, w, base, d)
  PROVE  /\ base \in URIs /\ base \in Claimed(w, base)
         /\ documents'[base] = v /\ v # None /\ documentDialects'[base] = d
         /\ ownedResources'[base] = Claimed(w, base)
         /\ Walks[v][base][d] = w
  <1>1. /\ v \in Values /\ base \in URIs /\ d \in Dialects
        /\ w = Walk(v, base, d)
        /\ w[<< >>] = Start(base, d)
    BY WalkOfRegistration DEF Registers, Succeeds
  <1>2. base \in Claimed(w, base) /\ RootOf(w, base, base) = << >>
    BY DEF Claimed, RootOf
  <1>3. documents'[base] = Sub[v][<< >>] /\ documentDialects'[base] = w[<< >>].dialect
    BY <1>2, ClaimedEntries
  <1>4. Sub[v][<< >>] = v /\ v # None /\ w[<< >>].dialect = d
    BY <1>1, NoneFacts, DocumentsAssumption DEF Start
  <1>5. ownedResources'[base] = Claimed(w, base)
    BY <1>1 DEF Registers
  <1>6. Walks[v][base][d] = w
    BY <1>1 DEF Walks
  <1>7. QED  BY <1>1, <1>2, <1>3, <1>4, <1>5, <1>6

\* What stays registered without being claimed belongs to another document,
\* which an absorbing registration would not have left it in.
LEMMA RegisterLeaves ==
  ASSUME TypeOK, IndexesAgree, RootsOwn, ResourcesAreOwned, AbsorbsWhole,
         NEW v, NEW w, NEW base, NEW d, Registers(v, w, base, d),
         NEW u \in URIs, u \notin Claimed(w, base), documents'[u] # None
  PROVE  Undisturbed(u)
  <1> PICK e : e = locations[u].documentUri
    OBVIOUS
  <1>1. /\ EntryStep(GoneBy(base), Stage(v, w, base))
        /\ DOMAIN Stage(v, w, base) = Claimed(w, base)
    BY DEF Registers, Stage
  <1>2. u \notin GoneBy(base)
    BY <1>1 DEF EntryStep
  <1>3. documents'[u] = documents[u] /\ locations'[u] = locations[u]
    BY <1>1, <1>2 DEF EntryStep
  <1>4. Registered(u)
    BY <1>3 DEF Registered
  <1>5. /\ e \in URIs /\ u \in ownedResources[e] /\ u \in OwnedBy(e)
        /\ IsDocument(e) /\ locations[e] # None /\ locations[e].documentUri = e
    BY <1>4, OwnerFacts
  <1>6. e # base
    <2>1. SUFFICES ASSUME e = base  PROVE FALSE
      OBVIOUS
    <2>2. u \in GoneBy(base)
      BY <1>5, <2>1 DEF GoneBy, Evicted
    <2>3. QED  BY <1>2, <2>2
  <1>7. e \notin Claimed(w, base)
    <2>1. SUFFICES ASSUME e \in Claimed(w, base)  PROVE FALSE
      OBVIOUS
    <2>2. /\ documents'[e] # None
          /\ locations'[e].documentUri = base
      BY <2>1, ClaimedEntries
    <2>3. ~IsDocument(e)' /\ Registered(e)'
      BY <1>6, <2>2 DEF IsDocument, OwnedBy, Registered
    <2>4. u \in OwnedBy(e)'
      BY <1>3, <1>5 DEF OwnedBy
    <2>5. QED  BY <1>5, <2>3, <2>4 DEF AbsorbsWhole
  <1>8. e \notin GoneBy(base)
    BY <1>5, <1>6, GoneFacts, OwnedByFacts
  <1>9. documents'[e] = documents[e] /\ documentDialects'[e] = documentDialects[e]
    BY <1>1, <1>5, <1>7, <1>8 DEF EntryStep
  <1>10. ownedResources'[e] = ownedResources[e]
    BY <1>5, <1>6, <1>7 DEF Registers, Absorbed
  <1>11. QED  BY <1>3, <1>4, <1>9, <1>10 DEF Undisturbed

\* Unregistering a document takes everything located in it.
LEMMA UnregisterLeaves ==
  ASSUME TypeOK, IndexesAgree, RootsOwn, ResourcesAreOwned,
         NEW uri \in URIs, Unregister(uri), NEW u \in URIs, documents'[u] # None
  PROVE  Undisturbed(u)
  <1> DEFINE doc == Canonical(uri)
             e   == locations[u].documentUri
  <1>1. EntryStep(Evicted(doc), << >>) /\ DOMAIN << >> = {}
    BY UnregisterEntries
  <1>2. ownedResources' = [ownedResources EXCEPT ![doc] = {}]
    BY DEF Unregister
  <1> HIDE DEF doc
  <1>3. u \notin Evicted(doc)
    BY <1>1 DEF EntryStep
  <1>4. documents'[u] = documents[u] /\ locations'[u] = locations[u]
    BY <1>1, <1>3 DEF EntryStep
  <1>5. Registered(u)
    BY <1>4 DEF Registered
  <1>6. /\ e \in URIs /\ u \in ownedResources[e] /\ u \in OwnedBy(e)
        /\ locations[e] # None /\ locations[e].documentUri = e
    BY <1>5, OwnerFacts
  <1> HIDE DEF e
  <1>7. e # doc
    <2>1. SUFFICES ASSUME e = doc  PROVE FALSE
      OBVIOUS
    <2>2. QED  BY <1>3, <1>6, <2>1 DEF Evicted
  <1>8. e \notin Evicted(doc)
    BY <1>6, <1>7, GoneFacts, OwnedByFacts
  <1>9. documents'[e] = documents[e] /\ documentDialects'[e] = documentDialects[e]
    BY <1>1, <1>6, <1>8 DEF EntryStep
  <1>10. ownedResources'[e] = ownedResources[e]
    BY <1>2, <1>6, <1>7 DEF TypeOK
  <1>11. QED  BY <1>4, <1>5, <1>9, <1>10 DEF Undisturbed, e

\* What the invariants say of a resource left alone goes on holding.
LEMMA UndisturbedStays ==
  ASSUME NEW u \in URIs, Undisturbed(u), Registered(u)
  PROVE  /\ ResourcesAreOwned!(u) => ResourcesAreOwned!(u)'
         /\ Located(u) => Located(u)'
  BY DEF Undisturbed, Located, Registered

\* What a registration claims is owned, and located, by it.
LEMMA ClaimedStays ==
  ASSUME NEW v, NEW w, NEW base, NEW d, Registers(v, w, base, d),
         NEW u \in Claimed(w, base)
  PROVE  ResourcesAreOwned!(u)' /\ Located(u)'
  <1> PICK root : root = RootOf(w, base, u)
    OBVIOUS
  <1>1. /\ documents'[u] = Sub[v][root]
        /\ locations'[u].documentUri = base /\ locations'[u].pointer = root
        /\ w[root] # None /\ w[root].base = u /\ w[root].root = root
    BY ClaimedEntries
  <1>2. /\ documents'[base] = v /\ v # None /\ documentDialects'[base] = d
        /\ ownedResources'[base] = Claimed(w, base) /\ Walks[v][base][d] = w
    BY BaseEntries
  <1>3. ResourcesAreOwned!(u)'
    BY <1>1, <1>2 DEF Registered
  <1>4. Located(u)'
    BY <1>1, <1>2 DEF Located
  <1>5. QED  BY <1>3, <1>4

LEMMA NextOwned ==
  IInv /\ ResourcesAreOwned /\ [Next]_vars /\ [AbsorbsWhole]_vars => ResourcesAreOwned'
  <1>1. SUFFICES ASSUME IInv, ResourcesAreOwned, [Next]_vars, [AbsorbsWhole]_vars
        PROVE  ResourcesAreOwned'
    OBVIOUS
  <1>2. TypeOK /\ IndexesAgree /\ RootsOwn /\ TypeOK'
    BY <1>1, NextType DEF IInv
  <1>3. CASE QuietStep
    BY <1>1, <1>3 DEF QuietStep, indexes, ResourcesAreOwned, Registered
  <1>4. CASE UNCHANGED vars
    BY <1>1, <1>4 DEF vars, indexes, ResourcesAreOwned, Registered
  <1>5. CASE AbsorbsWhole /\ \E v \in Documents, r \in URIs, d \in Dialects, ranged \in BOOLEAN :
               Register(v, r, d, ranged)
    <2>1. PICK v, w, base, d : Registers(v, w, base, d)
      BY <1>2, <1>5, RegisterIsWalk
    <2>2. SUFFICES ASSUME NEW u \in URIs, documents'[u] # None
          PROVE  ResourcesAreOwned!(u)'
      BY DEF ResourcesAreOwned, Registered
    <2>3. CASE u \in Claimed(w, base)
      BY <2>1, <2>3, ClaimedStays
    <2>4. CASE u \notin Claimed(w, base)
      <3>1. Undisturbed(u)
        BY <1>1, <1>2, <1>5, <2>1, <2>2, <2>4, RegisterLeaves
      <3>2. QED  BY <1>1, <3>1, UndisturbedStays DEF ResourcesAreOwned, Undisturbed
    <2>5. QED  BY <2>3, <2>4
  <1>6. CASE \E uri \in URIs : Unregister(uri)
    <2>1. SUFFICES ASSUME NEW u \in URIs, documents'[u] # None
          PROVE  ResourcesAreOwned!(u)'
      BY DEF ResourcesAreOwned, Registered
    <2>2. Undisturbed(u)
      BY <1>1, <1>2, <1>6, <2>1, UnregisterLeaves
    <2>3. QED  BY <1>1, <2>2, UndisturbedStays DEF ResourcesAreOwned, Undisturbed
  <1>7. QED  BY <1>1, <1>2, <1>3, <1>4, <1>5, <1>6, QuietSteps DEF Next


\* The theorem whose hypothesis speaks of the steps: where no absorption leaves
\* a resource behind, every registered resource is listed by the document it is
\* located in and sits there at its pointer (`commit` and `evict`).
THEOREM ResourcesStayOwned == Spec /\ [][AbsorbsWhole]_vars => []ResourcesAreOwned
  <1>1. Init => ResourcesAreOwned
    BY DEF Init, ResourcesAreOwned, Registered
  <1>2. QED  BY <1>1, InvHolds, NextOwned, PTL DEF Spec

-----------------------------------------------------------------------------
(* Dialects that read alike absorb documents whole.                        *)

\* Two walks agree on what resource a position is in.
Alike(g, h) ==
  /\ g = None <=> h = None
  /\ g # None => g.base = h.base /\ g.root = h.root

LEMMA AlikeStep ==
  ASSUME DialectsReadAlike, NEW v \in Values, NEW p \in Pointers, p # << >>,
         NEW g \in Governing, NEW h \in Governing, Alike(g, h)
  PROVE  Alike(Below(v, p, g), Below(v, p, h))
  <1>1. CASE g = None
    <2>1. Stops(v, p, g) /\ Stops(v, p, h)
      BY <1>1 DEF Alike, Stops
    <2>2. QED  BY <2>1 DEF Below, Alike
  <1>2. CASE g # None
    <2>1. /\ h # None /\ g.dialect \in Dialects /\ h.dialect \in Dialects
          /\ g.base = h.base /\ g.root = h.root
      BY <1>2, GoverningFacts DEF Alike
    <2>2. Stops(v, p, g) <=> Stops(v, p, h)
      <3>1. Parent(p) \in Pointers
        BY PointerFacts
      <3>2. Sub[v][Parent(p)] # None =>
              Reading[Sub[v][Parent(p)]][g.dialect].steps
                = Reading[Sub[v][Parent(p)]][h.dialect].steps
        BY <2>1, <3>1, DataFacts DEF DialectsReadAlike
      <3>3. QED  BY <1>2, <2>1, <3>2 DEF Stops
    <2>3. Sub[v][p] # None =>
            Reading[Sub[v][p]][g.dialect].id = Reading[Sub[v][p]][h.dialect].id
      BY <2>1, DataFacts DEF DialectsReadAlike
    <2>4. Plain(v, p, g) <=> Plain(v, p, h)
      BY <2>3 DEF Plain
    <2>5. /\ Below(v, p, g) = None <=> Stops(v, p, g)
          /\ ~Stops(v, p, g) /\ Plain(v, p, g) => Below(v, p, g) = g
          /\ ~Stops(v, p, g) /\ ~Plain(v, p, g) =>
               /\ Below(v, p, g).base = Reading[Sub[v][p]][g.dialect].id
               /\ Below(v, p, g).root = p
      BY BelowCases
    <2>6. /\ Below(v, p, h) = None <=> Stops(v, p, h)
          /\ ~Stops(v, p, h) /\ Plain(v, p, h) => Below(v, p, h) = h
          /\ ~Stops(v, p, h) /\ ~Plain(v, p, h) =>
               /\ Below(v, p, h).base = Reading[Sub[v][p]][h.dialect].id
               /\ Below(v, p, h).root = p
      BY BelowCases
    <2>7. CASE Stops(v, p, g)
      BY <2>2, <2>5, <2>6, <2>7 DEF Alike
    <2>8. CASE ~Stops(v, p, g) /\ Plain(v, p, g)
      <3>1. Below(v, p, g) = g /\ Below(v, p, h) = h
        BY <2>2, <2>4, <2>5, <2>6, <2>8
      <3>2. QED  BY <3>1
    <2>9. CASE ~Stops(v, p, g) /\ ~Plain(v, p, g)
      BY <2>2, <2>3, <2>4, <2>5, <2>6, <2>9 DEF Alike, Plain
    <2>10. QED  BY <2>7, <2>8, <2>9
  <1>3. QED  BY <1>1, <1>2

\* So a schema's walks from one base find the same resources whatever dialect
\* it is registered under.
LEMMA WalksAlike ==
  ASSUME DialectsReadAlike, NEW v \in Values, NEW u \in URIs,
         NEW d \in Dialects, NEW e \in Dialects, NEW p \in Pointers
  PROVE  Alike(Walks[v][u][d][p], Walks[v][u][e][p])
  <1> DEFINE x == Walks[v][u][d]
             y == Walks[v][u][e]
             P == {q \in Pointers : Alike(x[q], y[q])}
  <1>1. x = Walk(v, u, d) /\ y = Walk(v, u, e)
    BY DEF Walks
  <1>2. /\ x \in [Pointers -> Governing] /\ Walked(x, v, Start(u, d))
        /\ y \in [Pointers -> Governing] /\ Walked(y, v, Start(u, e))
    BY <1>1, WalkEquations
  <1> HIDE DEF x, y
  <1>3. << >> \in P
    <2>1. x[<< >>] = Start(u, d) /\ y[<< >>] = Start(u, e)
      BY <1>2 DEF Walked
    <2>2. << >> \in Pointers /\ Start(u, d) \in ResourceSet /\ Start(u, e) \in ResourceSet
      BY NoneFacts DEF Start, ResourceSet
    <2>3. Start(u, d) # None /\ Start(u, e) # None
      BY <2>2, NoneFacts
    <2>4. QED  BY <2>1, <2>2, <2>3 DEF Alike, Start
  <1>4. \A q \in Pointers : q # << >> /\ Parent(q) \in P => q \in P
    <2>1. SUFFICES ASSUME NEW q \in Pointers, q # << >>, Parent(q) \in P
          PROVE  Alike(x[q], y[q])
      OBVIOUS
    <2>2. /\ x[q] = Below(v, q, x[Parent(q)]) /\ y[q] = Below(v, q, y[Parent(q)])
          /\ x[Parent(q)] \in Governing /\ y[Parent(q)] \in Governing
          /\ Alike(x[Parent(q)], y[Parent(q)])
      BY <1>2, <2>1 DEF Walked
    <2>3. Alike(Below(v, q, x[Parent(q)]), Below(v, q, y[Parent(q)]))
      BY <2>1, <2>2, AlikeStep
    <2>4. QED  BY <2>2, <2>3
  <1>5. Pointers \subseteq P
    <2> HIDE DEF P
    <2>1. QED  BY <1>3, <1>4, PositionInduction
  <1>6. QED  BY <1>5 DEF x, y


\* A document that reads alike in whatever dialect embeds it is absorbed whole:
\* the absorbing walk finds each of its resources and claims it.
LEMMA AbsorbedWhole ==
  ASSUME TypeOK, IndexesAgree, RootsOwn, ResourcesAreOwned, LocatedByWalk,
         DialectsReadAlike, NEW v, NEW w, NEW base, NEW d, Registers(v, w, base, d)
  PROVE  AbsorbsWhole
  <1>1. SUFFICES ASSUME NEW e \in URIs, IsDocument(e), ~IsDocument(e)', documents'[e] # None,
                        NEW u \in URIs, locations[u] # None, locations[u].documentUri = e
        PROVE  locations'[u].documentUri # e
    BY DEF AbsorbsWhole, Registered, OwnedBy
  <1>2. /\ EntryStep(GoneBy(base), Stage(v, w, base))
        /\ DOMAIN Stage(v, w, base) = Claimed(w, base)
        /\ Succeeds(v, w, base, d) /\ ResourcesFree(v, w, base)
    BY DEF Registers, Stage
  <1>3. e \in Claimed(w, base)
    <2>1. SUFFICES ASSUME e \notin Claimed(w, base)  PROVE FALSE
      OBVIOUS
    <2>2. locations'[e] = locations[e]
      BY <1>1, <1>2, <2>1 DEF EntryStep
    <2>3. QED  BY <1>1, <2>2 DEF IsDocument, OwnedBy
  <1>4. e # base
    <2>1. SUFFICES ASSUME e = base  PROVE FALSE
      OBVIOUS
    <2>2. locations'[e].documentUri = e
      BY <1>3, <2>1, ClaimedEntries
    <2>3. locations'[e] # None
      BY <1>3, LocatedClaim
    <2>4. QED  BY <1>1, <2>2, <2>3 DEF IsDocument, OwnedBy
  <1> PICK q : q = locations[u].pointer
    OBVIOUS
  <1> PICK root : root = RootOf(w, base, e)
    OBVIOUS
  <1>5. /\ IsResource(v, w, root) /\ w[root].base = e
        /\ root \in Pointers /\ w[root] # None /\ Sub[v][root] # None
        /\ v \in Values /\ w \in [Pointers -> Governing]
        /\ Walked(w, v, Start(base, d)) /\ Start(base, d) \in Governing
    <2>1. IsResource(v, w, root) /\ w[root].base = e
      BY <1>2, <1>3, ClaimedRoot
    <2>2. /\ v \in Values /\ w \in [Pointers -> Governing]
          /\ Walked(w, v, Start(base, d)) /\ Start(base, d) \in Governing
      BY <1>2, WalkOfRegistration DEF Succeeds
    <2>3. QED  BY <2>1, <2>2 DEF IsResource, Visited
  <1>6. /\ Registered(u) /\ Registered(e) /\ q \in Pointers
        /\ documentDialects[e] \in Dialects
    <2>1. Registered(u) /\ locations[e] # None
      BY <1>1 DEF IndexesAgree, IsDocument, OwnedBy
    <2>2. Registered(e) /\ documentDialects[e] # None
      BY <2>1 DEF IndexesAgree
    <2>3. QED  BY <1>1, <2>1, <2>2, OwnerFacts DEF TypeOK
  <1>7. documents[e] = Sub[v][root]
    BY <1>2, <1>3, <1>6 DEF ResourcesFree, Registered
  <1> DEFINE val == Sub[v][root]
             x   == Within(v, w, root)
             y   == Walks[val][e][documentDialects[e]]
  <1>8. y[q] # None /\ y[q].base = u /\ y[q].root = q
    BY <1>1, <1>6, <1>7 DEF LocatedByWalk, Located
  <1>9. Alike(x[q], y[q])
    <2>1. val \in Values /\ w[root].dialect \in Dialects
      BY <1>5, TreeFacts, GoverningFacts
    <2>2. x = Walks[val][e][w[root].dialect]
      BY <1>5 DEF Within
    <2> HIDE DEF val
    <2>3. QED  BY <1>6, <2>1, <2>2, WalksAlike
  <1>10. Shifted(w, x, root, q)
    BY ONLY <1>5, <1>6, WalksShift
  <1> HIDE DEF val, x, y
  <1>11. /\ root \o q \in Pointers /\ w[root \o q] # None
         /\ w[root \o q].base = u /\ w[root \o q].root = root \o q
    BY <1>8, <1>9, <1>10 DEF Alike, Shifted, Moves
  <1>12. u \in Claimed(w, base)
    <2>1. CASE root \o q = << >>
      <3>1. w[root \o q].base = base
        BY <1>5, <2>1 DEF Walked, Start
      <3>2. QED  BY <1>11, <3>1 DEF Claimed
    <2>2. CASE root \o q # << >>
      <3>1. root \o q \in Embedded(w)
        BY <1>11, <2>2 DEF Embedded, Visited
      <3>2. QED  BY <1>1, <1>11, <3>1 DEF Claimed
    <2>3. QED  BY <2>1, <2>2
  <1>13. locations'[u].documentUri = base
    BY <1>12, ClaimedEntries
  <1>14. QED  BY <1>4, <1>13

LEMMA NextLocated ==
  ASSUME IInv, ResourcesAreOwned, LocatedByWalk, DialectsReadAlike, [Next]_vars
  PROVE  ResourcesAreOwned' /\ LocatedByWalk'
  <1>1. TypeOK /\ IndexesAgree /\ RootsOwn /\ TypeOK'
    BY NextType DEF IInv
  <1>2. CASE QuietStep
    BY <1>2 DEF QuietStep, indexes, ResourcesAreOwned, LocatedByWalk, Located, Registered
  <1>3. CASE \E v \in Documents, r \in URIs, d \in Dialects, ranged \in BOOLEAN :
               Register(v, r, d, ranged)
    <2>1. PICK v, w, base, d : Registers(v, w, base, d)
      BY <1>1, <1>3, RegisterIsWalk
    <2>2. AbsorbsWhole
      BY <1>1, <2>1, AbsorbedWhole
    <2>3. ResourcesAreOwned'
      BY <2>2, NextOwned
    <2>4. SUFFICES ASSUME NEW u \in URIs, documents'[u] # None  PROVE Located(u)'
      BY <2>3 DEF LocatedByWalk, Registered
    <2>5. CASE u \in Claimed(w, base)
      BY <2>1, <2>5, ClaimedStays
    <2>6. CASE u \notin Claimed(w, base)
      <3>1. Undisturbed(u)
        BY <1>1, <2>1, <2>2, <2>4, <2>6, RegisterLeaves
      <3>2. QED  BY <3>1, UndisturbedStays DEF LocatedByWalk, Undisturbed
    <2>7. QED  BY <2>5, <2>6
  <1>4. CASE \E uri \in URIs : Unregister(uri)
    <2>1. SUFFICES ASSUME NEW u \in URIs, documents'[u] # None
          PROVE  ResourcesAreOwned!(u)' /\ Located(u)'
      BY DEF ResourcesAreOwned, LocatedByWalk, Registered
    <2>2. Undisturbed(u)
      BY <1>1, <1>4, <2>1, UnregisterLeaves
    <2>3. QED
      BY <2>2, UndisturbedStays DEF ResourcesAreOwned, LocatedByWalk, Undisturbed
  <1>5. QED  BY <1>1, <1>2, <1>3, <1>4, QuietSteps DEF Next

\* Where the dialects differ in anything but how the schemas at hand name
\* themselves and where they hold others (the keywords, the anchors, $schema
\* inside them), every registered resource is listed by the document it is
\* located in and sits there at its pointer, through every order of
\* re-registration, takeover and absorption (`stageResource` and `commit`).
THEOREM ResourcesStayOwnedAlike ==
  ASSUME DialectsReadAlike
  PROVE  Spec => []ResourcesAreOwned
  <1>1. Init => ResourcesAreOwned /\ LocatedByWalk
    BY DEF Init, ResourcesAreOwned, LocatedByWalk, Registered
  <1>2. IInv /\ ResourcesAreOwned /\ LocatedByWalk /\ [Next]_vars
          => ResourcesAreOwned' /\ LocatedByWalk'
    BY NextLocated
  <1>3. QED  BY <1>1, <1>2, InvHolds, PTL DEF Spec
=============================================================================

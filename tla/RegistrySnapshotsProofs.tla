----------------------- MODULE RegistrySnapshotsProofs -----------------------
(***************************************************************************)
(* Proofs about RegistrySnapshots, for every choice of its constants: the    *)
(* heaps stay well formed, no memo outlives what it was made from, and a     *)
(* registry with its snapshots implements RegistryViews.                     *)
(***************************************************************************)
EXTENDS RegistrySnapshots, InductionLemmas

-----------------------------------------------------------------------------
(* The data.                                                                *)

\* What the assumptions say of absence.
LEMMA Absence ==
  /\ None \notin URIs /\ None \notin Nodes /\ None \notin Syntaxes
  /\ None \notin Anchor /\ None \notin Resource /\ None \notin Place
  /\ None \notin Position /\ None \notin RefSet /\ None \notin Memo
  /\ None # Miss /\ None # Source /\ None \notin Views
  /\ Miss \notin RefSet /\ Source \notin Views
BY ContentsAssumption, SnapshotsAssumption

\* What the assumptions say of the documents.
LEMMA Data ==
  /\ Inside \in [Nodes -> [Segments -> Nodes \union {None}]]
  /\ BaseId \in [Syntaxes -> [Nodes -> URIs \union {None}]]
  /\ RootURI \in [Documents -> URIs]
  /\ Claims \in [Documents -> [Syntaxes -> [URIs -> Resource \union {None}]]]
  /\ Queries \subseteq [resource : URIs, fragment : Fragments]
  /\ Scoped \subseteq Queries
  /\ Names \intersect Seq(Segments) = {}
BY ContentsAssumption, SnapshotsAssumption

LEMMA Bounds == MaxMisses \in Nat /\ MaxChanges \in Nat
BY SnapshotsAssumption

\* The documents of a registry, whatever else it holds.
DocumentsSet == [URIs -> Nodes \union {None}]

\* A hop leads to a position, or nowhere when there is nothing there.
LEMMA HopType ==
  ASSUME NEW documents \in DocumentsSet, NEW now \in Syntaxes,
         NEW at \in Position, NEW seg \in Segments
  PROVE  /\ Hop(documents, now, at, seg) \in Position \union {None}
         /\ Inside[at.node][seg] # None => Hop(documents, now, at, seg) \in Position
<1> DEFINE node == Inside[at.node][seg]
           id   == BaseId[at.syntax][node]
<1>1. at.node \in Nodes /\ at.base \in URIs /\ at.pointer \in Seq(Segments)
      /\ at.syntax \in Syntaxes /\ at.current \in BOOLEAN
  BY DEF Position
<1>2. node \in Nodes \union {None}
  BY <1>1, Data
<1>3. CASE node = None
  BY <1>3 DEF Hop
<1>4. CASE node # None /\ id = None
  <2>1. Hop(documents, now, at, seg) =
          [at EXCEPT !.node = node, !.pointer = Append(at.pointer, seg)]
    BY <1>4 DEF Hop
  <2>2. Append(at.pointer, seg) \in Seq(Segments)
    BY <1>1
  <2> QED BY <2>1, <2>2, <1>1, <1>2, <1>4 DEF Position
<1>5. CASE node # None /\ id # None
  <2>1. id \in URIs
    BY <1>1, <1>2, <1>5, Data
  <2>2. Hop(documents, now, at, seg) =
          [node |-> node, base |-> id, pointer |-> Root,
           syntax |-> IF documents[id] = None THEN at.syntax ELSE now,
           current |-> at.current /\ documents[id] = node]
    BY <1>5 DEF Hop
  <2>3. (at.current /\ documents[id] = node) \in BOOLEAN
    BY <1>1
  <2>4. Root \in Seq(Segments)
    BY DEF Root
  <2>5. (IF documents[id] = None THEN at.syntax ELSE now) \in Syntaxes
    BY <1>1
  <2> QED BY <2>1, <2>2, <2>3, <2>4, <2>5, <1>2, <1>5 DEF Position
<1> QED BY <1>3, <1>4, <1>5

\* Where a hop leads depends on the object, its location and the syntax it is
\* read with, and on nothing that is registered.
LEMMA HopPlace ==
  ASSUME NEW documents \in DocumentsSet, NEW now \in Syntaxes,
         NEW other \in DocumentsSet, NEW then \in Syntaxes,
         NEW at \in Position, NEW from \in Position, NEW seg \in Segments,
         PlaceOf(from) = PlaceOf(at), from.syntax = at.syntax
  PROVE  PlaceOf(Hop(documents, now, at, seg)) = PlaceOf(Hop(other, then, from, seg))
<1> DEFINE node == Inside[at.node][seg]
           id   == BaseId[at.syntax][node]
<1>1. at.node = from.node /\ at.base = from.base /\ at.pointer = from.pointer
  <2>1. at # None /\ from # None
    BY Absence
  <2> QED BY <2>1 DEF PlaceOf
<1>2. CASE node = None
  <2>1. Hop(documents, now, at, seg) = None /\ Hop(other, then, from, seg) = None
    BY <1>1, <1>2 DEF Hop
  <2> QED BY <2>1
<1>3. CASE node # None
  <2>1. Hop(documents, now, at, seg) # None /\ Hop(other, then, from, seg) # None
    <3>1. Hop(documents, now, at, seg) \in Position
          /\ Hop(other, then, from, seg) \in Position
      BY <1>1, <1>3, HopType
    <3> QED BY <3>1, Absence
  <2>2. CASE id = None
    <3>1. Hop(documents, now, at, seg) =
            [at EXCEPT !.node = node, !.pointer = Append(at.pointer, seg)]
      BY <1>3, <2>2 DEF Hop
    <3>2. Hop(other, then, from, seg) =
            [from EXCEPT !.node = node, !.pointer = Append(from.pointer, seg)]
      BY <1>1, <1>3, <2>2 DEF Hop
    <3>3. ASSUME NEW p \in Position, NEW q, q = [p EXCEPT !.node = node, !.pointer = Append(p.pointer, seg)]
          PROVE  q.node = node /\ q.base = p.base /\ q.pointer = Append(p.pointer, seg)
      BY <3>3 DEF Position
    <3>4. /\ Hop(documents, now, at, seg).node = node
          /\ Hop(documents, now, at, seg).base = at.base
          /\ Hop(documents, now, at, seg).pointer = Append(at.pointer, seg)
      BY ONLY <3>1, <3>3, at \in Position
    <3>5. /\ Hop(other, then, from, seg).node = node
          /\ Hop(other, then, from, seg).base = from.base
          /\ Hop(other, then, from, seg).pointer = Append(from.pointer, seg)
      BY ONLY <3>2, <3>3, from \in Position
    <3> QED BY <1>1, <2>1, <3>4, <3>5 DEF PlaceOf
  <2>3. CASE id # None
    <3>1. Hop(documents, now, at, seg) =
            [node |-> node, base |-> id, pointer |-> Root,
             syntax |-> IF documents[id] = None THEN at.syntax ELSE now,
             current |-> at.current /\ documents[id] = node]
      BY <1>3, <2>3 DEF Hop
    <3>2. Hop(other, then, from, seg) =
            [node |-> node, base |-> id, pointer |-> Root,
             syntax |-> IF other[id] = None THEN from.syntax ELSE then,
             current |-> from.current /\ other[id] = node]
      BY <1>1, <1>3, <2>3 DEF Hop
    <3>3. /\ Hop(documents, now, at, seg).node = node
          /\ Hop(documents, now, at, seg).base = id
          /\ Hop(documents, now, at, seg).pointer = Root
      BY ONLY <3>1
    <3>4. /\ Hop(other, then, from, seg).node = node
          /\ Hop(other, then, from, seg).base = id
          /\ Hop(other, then, from, seg).pointer = Root
      BY ONLY <3>2
    <3> QED BY <2>1, <3>3, <3>4 DEF PlaceOf
  <2> QED BY <2>2, <2>3
<1> QED BY <1>2, <1>3

\* The empty pointer leads to where it starts, and a pointer to a position or
\* nowhere.
LEMMA FollowType ==
  ASSUME NEW documents \in DocumentsSet, NEW now \in Syntaxes,
         NEW start \in Position, NEW pointer \in Seq(Segments)
  PROVE  /\ Follow(documents, now, start, pointer) \in Position \union {None}
         /\ pointer = Root => Follow(documents, now, start, pointer) = start
<1> DEFINE n == Len(pointer)
           D == Position \union {None}
           step == [d \in D |-> [k \in 1..n |->
                     IF d = None THEN None ELSE Hop(documents, now, d, pointer[k])]]
           body(at) == [k \in 0..n |->
                          IF k = 0 THEN start
                          ELSE IF at[k - 1] = None THEN None
                          ELSE Hop(documents, now, at[k - 1], pointer[k])]
           walk == CHOOSE at : at = body(at)
<1>1. n \in Nat /\ \A k \in 1..n : pointer[k] \in Segments
  OBVIOUS
<1>2. step \in [D -> [1..n -> D]]
  <2>1. ASSUME NEW d \in D, NEW k \in 1..n
        PROVE  (IF d = None THEN None ELSE Hop(documents, now, d, pointer[k])) \in D
    <3>1. CASE d = None
      BY <3>1
    <3>2. CASE d # None
      <4>1. d \in Position /\ pointer[k] \in Segments
        BY <3>2, <1>1
      <4> QED BY <3>2, <4>1, HopType
    <3> QED BY <3>1, <3>2
  <2> QED BY <2>1
<1>3. \A d \in D, k \in 1..n : step[d][k] =
        IF d = None THEN None ELSE Hop(documents, now, d, pointer[k])
  OBVIOUS
<1>4. start \in D
  OBVIOUS
<1> HIDE DEF D, step
<1>5. PICK f \in [0..n -> D] :
        f[0] = start /\ \A k \in 1..n : f[k] = step[f[k - 1]][k]
  <2> HIDE DEF n, body, walk
  <2>1. \E f \in [0..n -> D] : Recursion(f, n, start, step)
    BY ONLY <1>1, <1>2, <1>4, RecursionExists
  <2> QED BY <2>1 DEF Recursion
<1>6. f = body(f)
  <2>1. f = [k \in 0..n |-> f[k]]
    BY <1>5
  <2>2. ASSUME NEW k \in 0..n  PROVE f[k] = body(f)[k]
    <3>1. CASE k = 0
      BY <1>5, <3>1
    <3>2. CASE k # 0
      <4>1. k \in 1..n /\ k - 1 \in 0..n
        BY <1>1, <3>2
      <4>2. f[k - 1] \in D
        BY <1>5, <4>1
      <4>3. f[k] = step[f[k - 1]][k]
        BY <1>5, <4>1
      <4> QED BY <1>3, <3>2, <4>1, <4>2, <4>3
    <3> QED BY <3>1, <3>2
  <2> QED BY <2>1, <2>2
<1>7. walk = body(walk)
  <2> HIDE DEF body
  <2> QED BY <1>6
<1> HIDE DEF walk
<1>8. \A k \in 0..n : walk[k] \in D
  <2> DEFINE P == {k \in 0..n : walk[k] \in D}
  <2>1. 0 \in P
    BY <1>1, <1>4, <1>7
  <2>2. ASSUME NEW k \in 1..n, k - 1 \in P  PROVE k \in P
    <3>1. k \in 0..n /\ k # 0 /\ walk[k - 1] \in D
      BY <1>1, <2>2
    <3>2. walk[k] = IF walk[k - 1] = None THEN None
                    ELSE Hop(documents, now, walk[k - 1], pointer[k])
      BY <1>7, <3>1
    <3>3. walk[k] = step[walk[k - 1]][k]
      BY <1>3, <3>1, <3>2
    <3>4. walk[k] \in D
      BY <1>2, <3>1, <3>3
    <3> QED BY <3>1, <3>4
  <2> HIDE DEF P
  <2>3. 0..n \subseteq P
    BY <1>1, <2>1, <2>2, UpToInduction
  <2> QED BY <2>3 DEF P
<1>9. Follow(documents, now, start, pointer) = walk[n]
  BY DEF Follow, walk
<1>10. walk[n] \in D /\ walk[0] = start
  BY <1>1, <1>7, <1>8
<1>11. pointer = Root => n = 0
  BY DEF Root
<1> QED BY <1>9, <1>10, <1>11 DEF D

-----------------------------------------------------------------------------
(* Maps and heaps.                                                          *)

Maps(D, R) == UNION {[S -> R] : S \in SUBSET D}

\* The empty map, and a map with one entry more.
LEMMA EmptyMap ==
  ASSUME NEW D, NEW R
  PROVE  << >> \in Maps(D, R) /\ DOMAIN << >> = {}
BY DEF Maps

LEMMA ExtendedMap ==
  ASSUME NEW D, NEW R, NEW f \in Maps(D, R), NEW x \in D, NEW y \in R,
         NEW g, g = Put(f, x, y)
  PROVE  /\ g \in Maps(D, R)
         /\ \A z : z \in DOMAIN g <=> z \in DOMAIN f \/ z = x
         /\ g[x] = y
         /\ \A z \in DOMAIN f : z # x => g[z] = f[z]
<1>1. g = [z \in DOMAIN f \union {x} |-> IF z = x THEN y ELSE f[z]]
  BY DEF Put
<1>2. PICK S \in SUBSET D : f \in [S -> R]
  BY DEF Maps
<1>3. g \in [(S \union {x}) -> R]
  BY <1>1, <1>2
<1>4. g \in Maps(D, R)
  BY <1>2, <1>3 DEF Maps
<1> QED BY <1>1, <1>2, <1>4

\* h is the heap with new at a place, one of its own or the next, and the rest
\* as it was.
WritesOnly(h, S, heap, place, new) ==
  /\ h \in Seq(S)
  /\ Len(heap) <= Len(h) /\ place \in 1..Len(h)
  /\ \A i \in 1..Len(h) : i = place \/ i \in 1..Len(heap)
  /\ h[place] = new
  /\ \A i \in 1..Len(heap) : i # place => h[i] = heap[i]
  /\ place = Len(heap) + 1 => Len(h) = Len(heap) + 1
  /\ place # Len(heap) + 1 => Len(h) = Len(heap)

LEMMA WrittenHeap ==
  ASSUME NEW S, NEW heap \in Seq(S), NEW new \in S, NEW place \in 1..(Len(heap) + 1)
  PROVE  WritesOnly(Written(heap, place, new), S, heap, place, new)
<1> DEFINE h == Written(heap, place, new)
<1>1. CASE place = Len(heap) + 1
  <2>1. h = Append(heap, new)
    BY <1>1 DEF Written
  <2> HIDE DEF h
  <2>2. WritesOnly(h, S, heap, place, new)
    BY <1>1, <2>1 DEF WritesOnly
  <2> QED BY <2>2 DEF h
<1>2. CASE place # Len(heap) + 1
  <2>1. h = [heap EXCEPT ![place] = new]
    BY <1>2 DEF Written
  <2>2. place \in 1..Len(heap)
    BY <1>2
  <2> HIDE DEF h
  <2>3. WritesOnly(h, S, heap, place, new)
    BY <1>2, <2>1, <2>2 DEF WritesOnly
  <2> QED BY <2>3 DEF h
<1> QED BY <1>1, <1>2

-----------------------------------------------------------------------------
(* The invariant of the intern maps.  base[i] is the resource that inner map *)
(* i was made for: the code finds the map through that resource, but a ref   *)
(* outlives the entry it was found through.                                  *)

Kid   == [by : Syntaxes, at : Maps(Segments, RefSet)]
Inner == [refs : Maps(Seq(Segments), Nodes), children : Maps(Seq(Segments), Kid)]

\* The refs that are in the inner map they name, if they name one.
Interned(ref, heap, base) ==
  ref.home # 0 =>
    /\ ref.home \in 1..Len(heap)
    /\ ref.pointer \in DOMAIN heap[ref.home].refs
    /\ heap[ref.home].refs[ref.pointer] = ref.node
    /\ base[ref.home] = ref.base

Refs(heap, base) == {ref \in RefSet : Interned(ref, heap, base)}

\* Where a step leads from an object, read with a syntax.
StepFrom(node, base, pointer, syntax, seg) ==
  PlaceOf(Hop([u \in URIs |-> None], syntax, At(node, base, pointer, syntax), seg))

\* Children are memoized on refs that are interned, and are the refs that one
\* step from there leads to.
InnerFits(heap, base, i) ==
  /\ DOMAIN heap[i].children \subseteq DOMAIN heap[i].refs
  /\ \A p \in DOMAIN heap[i].children : \A seg \in DOMAIN heap[i].children[p].at :
       LET kids == heap[i].children[p]
       IN /\ kids.at[seg] \in Refs(heap, base)
          /\ PlaceOfRef(kids.at[seg]) = StepFrom(heap[i].refs[p], base[i], p, kids.by, seg)

HeapFits(heap, base) ==
  /\ heap \in Seq(Inner)
  /\ base \in Seq(URIs) /\ Len(base) = Len(heap)
  /\ \A i \in 1..Len(heap) : InnerFits(heap, base, i)

\* The outer intern map finds, for a resource, an inner map made for it.
OuterFits(interned, heap, base) ==
  /\ interned \in [URIs -> 0..Len(heap)]
  /\ \A u \in URIs : interned[u] # 0 => base[interned[u]] = u

FittingIndexes(heap, base) ==
  {ix \in [documents : DocumentsSet,
           anchors   : [URIs -> [Names -> Refs(heap, base) \union {None}]],
           dynamic   : [URIs -> SUBSET (Names \union {Root})],
           owner     : [URIs -> URIs \union {None}],
           owned     : [URIs -> SUBSET URIs],
           interned  : [URIs -> 0..Len(heap)]] : OuterFits(ix.interned, heap, base)}

FittingMemos(heap, base) ==
  [refs    : [Queries -> Refs(heap, base) \union {None, Miss}],
   scoped  : [Scoped -> [ref : Refs(heap, base), rebinds : BOOLEAN] \union {None}],
   dialect : [URIs -> Syntaxes \union {None}]]

\* Inner maps are never taken away, and neither are their refs.
Grows(heap, base, heap2, base2) ==
  /\ Len(heap) <= Len(heap2)
  /\ \A i \in 1..Len(heap) :
       /\ base2[i] = base[i]
       /\ \A p \in DOMAIN heap[i].refs :
            p \in DOMAIN heap2[i].refs /\ heap2[i].refs[p] = heap[i].refs[p]

LEMMA RefsGrow ==
  ASSUME NEW heap, NEW base, NEW heap2, NEW base2,
         Len(heap) \in Nat, Len(heap2) \in Nat, Grows(heap, base, heap2, base2)
  PROVE  Refs(heap, base) \subseteq Refs(heap2, base2)
<1>1. SUFFICES ASSUME NEW ref \in RefSet, Interned(ref, heap, base), ref.home # 0
               PROVE  Interned(ref, heap2, base2)
  BY DEF Refs, Interned
<1>2. ref.home \in 1..Len(heap) /\ ref.home \in 1..Len(heap2)
  BY <1>1 DEF Interned, Grows
<1> QED BY <1>1, <1>2 DEF Interned, Grows

LEMMA IndexesGrow ==
  ASSUME NEW heap, NEW base, NEW heap2, NEW base2,
         Len(heap) \in Nat, Len(heap2) \in Nat, Grows(heap, base, heap2, base2)
  PROVE  FittingIndexes(heap, base) \subseteq FittingIndexes(heap2, base2)
<1>1. Refs(heap, base) \subseteq Refs(heap2, base2)
  BY RefsGrow
<1> SUFFICES ASSUME NEW ix \in FittingIndexes(heap, base)
             PROVE  ix \in FittingIndexes(heap2, base2)
  OBVIOUS
<1>2. ix.anchors \in [URIs -> [Names -> Refs(heap2, base2) \union {None}]]
  <2>1. ix.anchors \in [URIs -> [Names -> Refs(heap, base) \union {None}]]
    BY DEF FittingIndexes
  <2>2. \A u \in URIs : ix.anchors[u] \in [Names -> Refs(heap2, base2) \union {None}]
    BY <1>1, <2>1
  <2> QED BY <2>1, <2>2
<1>3. OuterFits(ix.interned, heap2, base2)
  BY DEF FittingIndexes, OuterFits, Grows
<1>4. ix.interned \in [URIs -> 0..Len(heap2)]
  BY <1>3 DEF OuterFits
<1> HIDE DEF Grows, OuterFits, Refs
<1> QED BY <1>2, <1>3, <1>4 DEF FittingIndexes

LEMMA MemosGrow ==
  ASSUME NEW heap, NEW base, NEW heap2, NEW base2,
         Len(heap) \in Nat, Len(heap2) \in Nat, Grows(heap, base, heap2, base2)
  PROVE  FittingMemos(heap, base) \subseteq FittingMemos(heap2, base2)
<1>1. Refs(heap, base) \subseteq Refs(heap2, base2)
  BY RefsGrow
<1> SUFFICES ASSUME NEW memos \in FittingMemos(heap, base)
             PROVE  memos \in FittingMemos(heap2, base2)
  OBVIOUS
<1>2. memos.refs \in [Queries -> Refs(heap2, base2) \union {None, Miss}]
  <2>1. memos.refs \in [Queries -> Refs(heap, base) \union {None, Miss}]
    BY DEF FittingMemos
  <2> QED BY <1>1, <2>1
<1>3. memos.scoped \in [Scoped -> [ref : Refs(heap2, base2), rebinds : BOOLEAN] \union {None}]
  <2>1. memos.scoped \in [Scoped -> [ref : Refs(heap, base), rebinds : BOOLEAN] \union {None}]
    BY DEF FittingMemos
  <2>2. [ref : Refs(heap, base), rebinds : BOOLEAN]
          \subseteq [ref : Refs(heap2, base2), rebinds : BOOLEAN]
    BY <1>1
  <2> QED BY <2>1, <2>2
<1> QED BY <1>2, <1>3 DEF FittingMemos

\* The empty inner map.
LEMMA NoRefsFit == NoRefs \in Inner /\ NoRefs.refs = << >> /\ NoRefs.children = << >>
<1>1. << >> \in Maps(Seq(Segments), Nodes) /\ << >> \in Maps(Seq(Segments), Kid)
  BY EmptyMap
<1> QED BY <1>1 DEF NoRefs, Inner

\* A ref added to an inner map, or to a new one, leaves the rest as it was.
LEMMA RefAdded ==
  ASSUME NEW heap, NEW base, HeapFits(heap, base),
         NEW i \in 1..(Len(heap) + 1), NEW p \in Seq(Segments), NEW node \in Nodes,
         NEW u \in URIs, i \in 1..Len(heap) => base[i] = u,
         NEW inner, inner = IF i = Len(heap) + 1 THEN NoRefs ELSE heap[i],
         p \notin DOMAIN inner.refs,
         NEW heap2, heap2 = Written(heap, i, [inner EXCEPT !.refs = Put(inner.refs, p, node)])
  PROVE  \E base2 :
           /\ HeapFits(heap2, base2) /\ Grows(heap, base, heap2, base2)
           /\ i \in 1..Len(heap2) /\ base2[i] = u
           /\ p \in DOMAIN heap2[i].refs /\ heap2[i].refs[p] = node
           /\ \A j \in 1..Len(heap) : heap2[j].children = heap[j].children
<1> DEFINE new   == [inner EXCEPT !.refs = Put(inner.refs, p, node)]
           base2 == IF i = Len(heap) + 1 THEN Append(base, u) ELSE base
<1>1. heap \in Seq(Inner) /\ base \in Seq(URIs) /\ Len(base) = Len(heap) /\ Len(heap) \in Nat
  BY DEF HeapFits
<1>2. inner \in Inner
  BY <1>1, NoRefsFit
<1>3. inner.refs \in Maps(Seq(Segments), Nodes)
  BY <1>2 DEF Inner
<1>4. /\ Put(inner.refs, p, node) \in Maps(Seq(Segments), Nodes)
      /\ p \in DOMAIN Put(inner.refs, p, node)
      /\ \A q \in DOMAIN inner.refs : q \in DOMAIN Put(inner.refs, p, node)
      /\ Put(inner.refs, p, node)[p] = node
      /\ \A q \in DOMAIN inner.refs : q # p => Put(inner.refs, p, node)[q] = inner.refs[q]
  BY ONLY <1>3, p \in Seq(Segments), node \in Nodes, ExtendedMap
<1>5. /\ new \in Inner /\ new.refs = Put(inner.refs, p, node)
      /\ new.children = inner.children
  BY <1>2, <1>4 DEF Inner
<1> HIDE DEF new
<1>6. /\ heap2 \in Seq(Inner)
      /\ Len(heap) <= Len(heap2) /\ i \in 1..Len(heap2)
      /\ \A j \in 1..Len(heap2) : j = i \/ j \in 1..Len(heap)
      /\ heap2[i] = new
      /\ \A j \in 1..Len(heap) : j # i => heap2[j] = heap[j]
      /\ Len(heap2) = IF i = Len(heap) + 1 THEN Len(heap) + 1 ELSE Len(heap)
  <2>1. heap2 = Written(heap, i, new)
    BY DEF new
  <2>2. heap \in Seq(Inner) /\ new \in Inner /\ i \in 1..(Len(heap) + 1)
    BY <1>1, <1>5
  <2>3. WritesOnly(heap2, Inner, heap, i, new)
    BY ONLY <2>1, <2>2, WrittenHeap
  <2> QED BY ONLY <1>1, <2>2, <2>3 DEF WritesOnly
<1>7. /\ base2 \in Seq(URIs) /\ Len(base2) = Len(heap2)
      /\ \A j \in 1..Len(heap) : base2[j] = base[j]
      /\ base2[i] = u
  BY <1>1, <1>6
<1> HIDE DEF base2
<1>8. Len(heap2) \in Nat
  BY <1>6
<1>9. i \in 1..Len(heap) => inner = heap[i]
  BY <1>1
<1>10. Grows(heap, base, heap2, base2)
  <2>1. SUFFICES ASSUME NEW j \in 1..Len(heap), NEW q \in DOMAIN heap[j].refs
                 PROVE  q \in DOMAIN heap2[j].refs /\ heap2[j].refs[q] = heap[j].refs[q]
    BY <1>6, <1>7 DEF Grows
  <2>2. CASE j = i
    BY <1>4, <1>5, <1>6, <1>9, <2>1, <2>2
  <2>3. CASE j # i
    BY <1>6, <2>1, <2>3
  <2> QED BY <2>2, <2>3
<1>11. Refs(heap, base) \subseteq Refs(heap2, base2)
  BY <1>1, <1>8, <1>10, RefsGrow
<1>12. ASSUME NEW j \in 1..Len(heap)
       PROVE  InnerFits(heap2, base2, j) /\ heap2[j].children = heap[j].children
  <2>1. InnerFits(heap, base, j)
    BY DEF HeapFits
  <2>2. heap2[j].children = heap[j].children
    BY <1>5, <1>6, <1>9
  <2>3. \A q \in DOMAIN heap[j].refs :
          q \in DOMAIN heap2[j].refs /\ heap2[j].refs[q] = heap[j].refs[q]
    BY <1>10 DEF Grows
  <2>4. base2[j] = base[j]
    BY <1>7
  <2> QED BY ONLY <1>11, <2>1, <2>2, <2>3, <2>4 DEF InnerFits
<1>13. i = Len(heap) + 1 => InnerFits(heap2, base2, i)
  <2>1. SUFFICES ASSUME i = Len(heap) + 1  PROVE DOMAIN heap2[i].children = {}
    BY DEF InnerFits
  <2>2. heap2[i].children = << >>
    BY <1>5, <1>6, <2>1, NoRefsFit
  <2> QED BY <2>2
<1>14. HeapFits(heap2, base2)
  BY <1>6, <1>7, <1>12, <1>13 DEF HeapFits
<1> QED BY <1>4, <1>5, <1>6, <1>7, <1>10, <1>12, <1>14

\* Interning a position, whether or not it is interned, answers its ref.
LEMMA InternFits ==
  ASSUME NEW heap, NEW base, HeapFits(heap, base),
         NEW ix \in FittingIndexes(heap, base), NEW at \in Position
  PROVE  LET found == Intern(ix, heap, at)
         IN \E base2 :
              /\ HeapFits(found.heap, base2) /\ Grows(heap, base, found.heap, base2)
              /\ OuterFits(found.interned, found.heap, base2)
              /\ found.ref \in Refs(found.heap, base2)
              /\ PlaceOfRef(found.ref) = PlaceOf(at)
              /\ \A j \in 1..Len(heap) : found.heap[j].children = heap[j].children
<1> DEFINE i     == IF ix.interned[at.base] # 0 THEN ix.interned[at.base] ELSE Len(heap) + 1
           inner == IF i = Len(heap) + 1 THEN NoRefs ELSE heap[i]
           to    == [ix.interned EXCEPT ![at.base] = i]
           found == Intern(ix, heap, at)
<1>1. at.node \in Nodes /\ at.base \in URIs /\ at.pointer \in Seq(Segments)
  BY DEF Position
<1>2. heap \in Seq(Inner) /\ Len(heap) \in Nat
  BY DEF HeapFits
<1>3. OuterFits(ix.interned, heap, base)
  BY DEF FittingIndexes
<1>4. i \in 1..(Len(heap) + 1) /\ (i \in 1..Len(heap) => base[i] = at.base)
  BY <1>1, <1>2, <1>3 DEF OuterFits
<1>5. ASSUME NEW home \in Nat
      PROVE  /\ Ref(at, home) \in RefSet
             /\ Ref(at, home).node = at.node /\ Ref(at, home).base = at.base
             /\ Ref(at, home).pointer = at.pointer /\ Ref(at, home).home = home
             /\ PlaceOfRef(Ref(at, home)) = PlaceOf(at)
  <2>1. Ref(at, home) \in RefSet
    BY <1>1 DEF Ref, RefSet
  <2>2. Ref(at, home) # None /\ at # None
    BY <2>1, Absence
  <2> QED BY <2>1, <2>2 DEF PlaceOfRef, PlaceOf, Ref
<1>6. Grows(heap, base, heap, base)
  BY <1>2 DEF Grows
<1>7. CASE ~at.current \/ (at.pointer = Root /\ ix.documents[at.base] # at.node)
  <2>1. found = Found(Ref(at, 0), ix.interned, heap)
    BY <1>7 DEF Intern
  <2>2. Ref(at, 0) \in Refs(heap, base)
    BY <1>5 DEF Refs, Interned
  <2> QED BY <1>3, <1>5, <1>6, <2>1, <2>2 DEF Found
<1>8. CASE /\ ~(~at.current \/ (at.pointer = Root /\ ix.documents[at.base] # at.node))
           /\ at.pointer \notin DOMAIN inner.refs
  <2> DEFINE heap2 == Written(heap, i, [inner EXCEPT !.refs = Put(inner.refs, at.pointer, at.node)])
  <2>1. found = Found(Ref(at, i), to, heap2)
    BY <1>8 DEF Intern
  <2>2. \E base2 :
           /\ HeapFits(heap2, base2) /\ Grows(heap, base, heap2, base2)
           /\ i \in 1..Len(heap2) /\ base2[i] = at.base
           /\ at.pointer \in DOMAIN heap2[i].refs /\ heap2[i].refs[at.pointer] = at.node
           /\ \A j \in 1..Len(heap) : heap2[j].children = heap[j].children
    <3> HIDE DEF i
    <3>1. inner = IF i = Len(heap) + 1 THEN NoRefs ELSE heap[i]
      OBVIOUS
    <3>2. at.pointer \notin DOMAIN inner.refs
      BY <1>8
    <3>3. heap2 = Written(heap, i, [inner EXCEPT !.refs = Put(inner.refs, at.pointer, at.node)])
      OBVIOUS
    <3> HIDE DEF inner, heap2
    <3> QED BY <1>1, <1>4, <3>1, <3>2, <3>3, RefAdded
  <2> HIDE DEF i, heap2
  <2>3. PICK base2 :
           /\ HeapFits(heap2, base2) /\ Grows(heap, base, heap2, base2)
           /\ i \in 1..Len(heap2) /\ base2[i] = at.base
           /\ at.pointer \in DOMAIN heap2[i].refs /\ heap2[i].refs[at.pointer] = at.node
           /\ \A j \in 1..Len(heap) : heap2[j].children = heap[j].children
    BY <2>2
  <2>4. Len(heap2) \in Nat
    BY <2>3 DEF HeapFits
  <2>5. i \in Nat /\ Ref(at, i) \in Refs(heap2, base2)
    BY <1>4, <1>5, <2>3 DEF Refs, Interned
  <2>6. OuterFits(to, heap2, base2)
    <3>1. ASSUME NEW u \in URIs
          PROVE  to[u] \in 0..Len(heap2) /\ (to[u] # 0 => base2[to[u]] = u)
      <4>1. CASE u = at.base
        BY <1>3, <2>3, <4>1 DEF OuterFits
      <4>2. CASE u # at.base
        <5>1. to[u] = ix.interned[u] /\ to[u] \in 0..Len(heap)
          BY <1>3, <4>2 DEF OuterFits
        <5>2. to[u] # 0 => to[u] \in 1..Len(heap) /\ base[to[u]] = u
          BY <1>2, <1>3, <5>1 DEF OuterFits
        <5>3. Len(heap) <= Len(heap2) /\ \A j \in 1..Len(heap) : base2[j] = base[j]
          BY <2>3 DEF Grows
        <5> QED BY <1>2, <2>4, <5>1, <5>2, <5>3
      <4> QED BY <4>1, <4>2
    <3>2. to = [u \in URIs |-> to[u]]
      BY <1>3 DEF OuterFits
    <3> HIDE DEF to
    <3> QED BY <3>1, <3>2 DEF OuterFits
  <2> QED BY <1>5, <2>1, <2>3, <2>5, <2>6 DEF Found
<1>9. CASE /\ ~(~at.current \/ (at.pointer = Root /\ ix.documents[at.base] # at.node))
           /\ at.pointer \in DOMAIN inner.refs
  <2>1. found = Found(Ref(at, IF inner.refs[at.pointer] = at.node THEN i ELSE 0), to, heap)
    BY <1>9 DEF Intern
  <2>2. i # Len(heap) + 1
    BY <1>9, NoRefsFit
  <2>3. i = ix.interned[at.base] /\ i \in 1..Len(heap) /\ inner = heap[i]
    BY <1>2, <1>4, <2>2
  <2>4. to = ix.interned
    BY <1>3, <2>3 DEF OuterFits
  <2>5. Ref(at, IF inner.refs[at.pointer] = at.node THEN i ELSE 0) \in Refs(heap, base)
    <3> HIDE DEF i, inner
    <3>1. i \in Nat
      BY <2>3
    <3> QED BY <1>4, <1>5, <1>9, <2>3, <3>1 DEF Refs, Interned
  <2>6. (IF inner.refs[at.pointer] = at.node THEN i ELSE 0) \in Nat
    BY <2>3
  <2> DEFINE home == IF inner.refs[at.pointer] = at.node THEN i ELSE 0
  <2>7. /\ found.heap = heap /\ found.interned = ix.interned /\ found.ref = Ref(at, home)
        /\ PlaceOfRef(Ref(at, home)) = PlaceOf(at) /\ Ref(at, home) \in Refs(heap, base)
    BY <1>5, <2>1, <2>4, <2>5, <2>6 DEF Found
  <2> HIDE DEF home, i, inner, to
  <2> QED BY <1>3, <1>6, <2>7
<1> QED BY <1>7, <1>8, <1>9

-----------------------------------------------------------------------------
(* The invariant.                                                           *)

UpToDate(me) == me.seen = me.generation

\* What a registry holds, as values: Holding, of its maps.
Held(me, ixs, dias) ==
  LET ix == ixs[me.indexes]
  IN [documents |-> ix.documents,
      anchors   |-> [u \in URIs |-> [n \in Names |-> PlaceOfRef(ix.anchors[u][n])]],
      dynamic   |-> ix.dynamic,
      syntax    |-> dias[me.dialects]]

\* The memos of one table, made for these contents.
CurrentMemos(memos, held) ==
  /\ \A q \in Queries :
       /\ memos.refs[q] = Miss => View!Locate(held, q) = None
       /\ memos.refs[q] \notin {None, Miss} =>
            PlaceOfRef(memos.refs[q]) = View!Locate(held, q)
  /\ \A q \in Scoped : memos.scoped[q] # None =>
       /\ PlaceOfRef(memos.scoped[q].ref) = View!Locate(held, q)
       /\ memos.scoped[q].rebinds <=> q.fragment \in held.dynamic[q.resource]
  /\ \A u \in URIs : memos.dialect[u] \in {None, held.syntax}

RegistryRecords(ixs, tabs, dias) ==
  [indexes : 1..Len(ixs), tables : 1..Len(tabs), shared : BOOLEAN,
   misses : 0..MaxMisses, seen : Nat, dialects : 1..Len(dias),
   dialectsShared : BOOLEAN, generation : Nat]

Typed(reg, ixs, tabs, dias, count) ==
  /\ reg = [x \in DOMAIN reg |-> reg[x]]
  /\ Source \in DOMAIN reg /\ DOMAIN reg \subseteq Registries
  /\ \A x \in DOMAIN reg :
       /\ reg[x] \in RegistryRecords(ixs, tabs, dias)
       /\ reg[x].seen <= reg[x].generation /\ reg[x].generation <= count

\* What the source writes in place nobody else holds, and only the source can
\* be behind its dialects.
Sharing(reg) ==
  /\ ~reg[Source].shared =>
       \A x \in DOMAIN reg : x # Source => reg[x].indexes # reg[Source].indexes
  /\ ~reg[Source].dialectsShared =>
       \A x \in DOMAIN reg : x # Source => reg[x].dialects # reg[Source].dialects
  /\ \A x \in DOMAIN reg : x # Source => UpToDate(reg[x])

\* The memo tables in use are current, and the registries that use one table
\* hold the same.
MemosOf(reg, ixs, tabs, dias) ==
  \A x \in DOMAIN reg : UpToDate(reg[x]) =>
    /\ CurrentMemos(tabs[reg[x].tables], Held(reg[x], ixs, dias))
    /\ \A y \in DOMAIN reg :
         UpToDate(reg[y]) /\ reg[y].tables = reg[x].tables =>
           Held(reg[y], ixs, dias) = Held(reg[x], ixs, dias)

Registered(reg, ixs, tabs, dias, count) ==
  /\ Typed(reg, ixs, tabs, dias, count)
  /\ Sharing(reg)
  /\ MemosOf(reg, ixs, tabs, dias)

InvFor(base) ==
  /\ HeapFits(inners, base)
  /\ indexes \in Seq(FittingIndexes(inners, base))
  /\ tables \in Seq(FittingMemos(inners, base))
  /\ dialects \in Seq(Syntaxes)
  /\ answer.ref \in Refs(inners, base) \union {None}
  /\ changes \in 0..MaxChanges
  /\ Registered(registry, indexes, tables, dialects, changes)

Inv == \E base : InvFor(base)

LEMMA HoldingIsHeld == \A r : Holding(r) = Held(registry[r], indexes, dialects)
BY DEF Holding, Held

\* RegistryViews gives references the meaning RegistryContents gives them.
LEMMA ViewMeaning ==
  /\ \A c, q : View!Locate(c, q) =
       IF q.fragment \in Names THEN c.anchors[q.resource][q.fragment]
       ELSE IF c.documents[q.resource] = None THEN None
       ELSE PlaceOf(Follow(c.documents, c.syntax,
                           At(c.documents[q.resource], q.resource, Root, c.syntax),
                           q.fragment))
  /\ \A c, place, seg : View!Below(c, place, seg) =
       IF c.documents[place.base] = None THEN None
       ELSE PlaceOf(Hop(c.documents, c.syntax,
                        At(place.node, place.base, place.pointer, c.syntax), seg))
<1>1. \A a, b, c, d : View!Hop(a, b, c, d) = Hop(a, b, c, d)
  BY DEF Hop, View!Hop, Root, View!Root
<1>2. \A a, b, c, d : View!Follow(a, b, c, d) = Follow(a, b, c, d)
  BY DEF Follow, View!Follow, Hop, View!Hop, Root, View!Root
<1>3. \A a, b, c, d : View!At(a, b, c, d) = At(a, b, c, d)
  BY DEF At, View!At
<1>4. \A a : View!PlaceOf(a) = PlaceOf(a)
  BY DEF PlaceOf, View!PlaceOf
<1>5. View!Root = Root
  BY DEF Root, View!Root
<1>6. \A c, q : View!Locate(c, q) =
       IF q.fragment \in Names THEN c.anchors[q.resource][q.fragment]
       ELSE IF c.documents[q.resource] = None THEN None
       ELSE PlaceOf(Follow(c.documents, c.syntax,
                           At(c.documents[q.resource], q.resource, Root, c.syntax),
                           q.fragment))
  BY <1>2, <1>3, <1>4, <1>5 DEF View!Locate
<1>7. \A c, place, seg : View!Below(c, place, seg) =
       IF c.documents[place.base] = None THEN None
       ELSE PlaceOf(Hop(c.documents, c.syntax,
                        At(place.node, place.base, place.pointer, c.syntax), seg))
  BY <1>1, <1>3, <1>4 DEF View!Below
<1> QED BY <1>6, <1>7

\* Nobody can tell an empty table from what it was emptied from.
LEMMA NoMemosFit ==
  ASSUME NEW heap, NEW base
  PROVE  NoMemos \in FittingMemos(heap, base) /\ \A held : CurrentMemos(NoMemos, held)
<1>1. NoMemos \in FittingMemos(heap, base)
  BY DEF NoMemos, FittingMemos
<1>2. \A held : CurrentMemos(NoMemos, held)
  BY Absence, Data DEF NoMemos, CurrentMemos
<1> QED BY <1>1, <1>2

\* One registry's tables and counters change; everything else is as it was.
LEMMA OneChanged ==
  ASSUME NEW reg, NEW ixs, NEW tabs, NEW dias, NEW count,
         Registered(reg, ixs, tabs, dias, count),
         NEW r \in DOMAIN reg, NEW tabs2, NEW me \in RegistryRecords(ixs, tabs2, dias),
         Len(tabs) \in Nat, Len(tabs2) \in Nat, Len(tabs) <= Len(tabs2),
         me.indexes = reg[r].indexes, me.shared = reg[r].shared,
         me.dialects = reg[r].dialects, me.dialectsShared = reg[r].dialectsShared,
         me.generation = reg[r].generation, me.seen <= me.generation,
         r # Source => UpToDate(me),
         \A x \in DOMAIN reg : x # r /\ UpToDate(reg[x]) =>
           CurrentMemos(tabs2[reg[x].tables], Held(reg[x], ixs, dias)),
         UpToDate(me) =>
           /\ CurrentMemos(tabs2[me.tables], Held(reg[r], ixs, dias))
           /\ \A x \in DOMAIN reg : x # r /\ UpToDate(reg[x]) /\ reg[x].tables = me.tables =>
                Held(reg[x], ixs, dias) = Held(reg[r], ixs, dias)
  PROVE  Registered([reg EXCEPT ![r] = me], ixs, tabs2, dias, count)
<1> DEFINE reg2 == [reg EXCEPT ![r] = me]
<1>1. /\ reg = [x \in DOMAIN reg |-> reg[x]]
      /\ Source \in DOMAIN reg /\ DOMAIN reg \subseteq Registries
      /\ \A x \in DOMAIN reg :
           /\ reg[x] \in RegistryRecords(ixs, tabs, dias)
           /\ reg[x].seen <= reg[x].generation /\ reg[x].generation <= count
  BY DEF Registered, Typed
<1>2. /\ DOMAIN reg2 = DOMAIN reg
      /\ reg2 = [x \in DOMAIN reg2 |-> reg2[x]]
      /\ reg2[r] = me
      /\ \A x \in DOMAIN reg : x # r => reg2[x] = reg[x]
  BY <1>1
<1> HIDE DEF reg2
<1>3. Held(me, ixs, dias) = Held(reg[r], ixs, dias)
  BY DEF Held
<1>4. Typed(reg2, ixs, tabs2, dias, count)
  <2>1. RegistryRecords(ixs, tabs, dias) \subseteq RegistryRecords(ixs, tabs2, dias)
    BY DEF RegistryRecords
  <2>2. ASSUME NEW x \in DOMAIN reg2
        PROVE  /\ reg2[x] \in RegistryRecords(ixs, tabs2, dias)
               /\ reg2[x].seen <= reg2[x].generation /\ reg2[x].generation <= count
    <3>1. CASE x = r
      BY <1>1, <1>2, <3>1
    <3>2. CASE x # r
      BY <1>1, <1>2, <2>1, <3>2
    <3> QED BY <3>1, <3>2
  <2> QED BY <1>1, <1>2, <2>2 DEF Typed
<1>5. Sharing(reg2)
  <2>1. Sharing(reg)
    BY DEF Registered
  <2>2. \A x \in DOMAIN reg : /\ reg2[x].shared = reg[x].shared
                              /\ reg2[x].indexes = reg[x].indexes
                              /\ reg2[x].dialects = reg[x].dialects
                              /\ reg2[x].dialectsShared = reg[x].dialectsShared
    BY <1>2
  <2>3. \A x \in DOMAIN reg : x # Source => UpToDate(reg2[x])
    BY <1>2, <2>1 DEF Sharing
  <2> QED BY <1>1, <1>2, <2>1, <2>2, <2>3 DEF Sharing
<1>6. MemosOf(reg2, ixs, tabs2, dias)
  <2>1. SUFFICES ASSUME NEW x \in DOMAIN reg, UpToDate(reg2[x])
                 PROVE  /\ CurrentMemos(tabs2[reg2[x].tables], Held(reg2[x], ixs, dias))
                        /\ \A y \in DOMAIN reg :
                             UpToDate(reg2[y]) /\ reg2[y].tables = reg2[x].tables =>
                               Held(reg2[y], ixs, dias) = Held(reg2[x], ixs, dias)
    BY <1>2 DEF MemosOf
  <2>2. CASE x = r
    BY <1>2, <1>3, <2>1, <2>2
  <2>3. CASE x # r
    <3>1. CurrentMemos(tabs2[reg2[x].tables], Held(reg2[x], ixs, dias))
      BY <1>2, <2>1, <2>3
    <3>2. ASSUME NEW y \in DOMAIN reg, UpToDate(reg2[y]), reg2[y].tables = reg2[x].tables
          PROVE  Held(reg2[y], ixs, dias) = Held(reg2[x], ixs, dias)
      <4>1. CASE y = r
        BY <1>2, <1>3, <2>1, <2>3, <3>2, <4>1
      <4>2. CASE y # r
        <5>1. MemosOf(reg, ixs, tabs, dias)
          BY DEF Registered
        <5> QED BY <1>2, <2>1, <2>3, <3>2, <4>2, <5>1 DEF MemosOf
      <4> QED BY <4>1, <4>2
    <3> QED BY <3>1, <3>2
  <2> QED BY <2>2, <2>3
<1> QED BY <1>4, <1>5, <1>6 DEF Registered, reg2

\* Fresh tables are nobody else's.
LEMMA ResetFits ==
  ASSUME NEW base, InvFor(base), NEW r \in DOMAIN registry
  PROVE  LET reset == ResetMemos(r)
         IN \E t \in 1..Len(reset.tables) :
              /\ reset.tables \in Seq(FittingMemos(inners, base))
              /\ Len(tables) <= Len(reset.tables)
              /\ reset.registry = [registry[r] EXCEPT !.tables = t, !.misses = 0]
              /\ reset.tables[t] = NoMemos
              /\ \A x \in DOMAIN registry : x # r =>
                   /\ registry[x].tables # t
                   /\ reset.tables[registry[x].tables] = tables[registry[x].tables]
<1> DEFINE alone == \A x \in DOMAIN registry \ {r} : registry[x].tables # registry[r].tables
<1>1. tables \in Seq(FittingMemos(inners, base)) /\ Len(tables) \in Nat
  BY DEF InvFor
<1>2. \A x \in DOMAIN registry : registry[x].tables \in 1..Len(tables)
  BY DEF InvFor, Registered, Typed, RegistryRecords
<1>3. NoMemos \in FittingMemos(inners, base)
  BY NoMemosFit
<1>4. CASE alone
  <2>1. ResetMemos(r) = [tables   |-> [tables EXCEPT ![registry[r].tables] = NoMemos],
                         registry |-> [registry[r] EXCEPT !.tables = registry[r].tables,
                                                          !.misses = 0]]
    BY <1>4 DEF ResetMemos
  <2>2. [tables EXCEPT ![registry[r].tables] = NoMemos] \in Seq(FittingMemos(inners, base))
        /\ Len([tables EXCEPT ![registry[r].tables] = NoMemos]) = Len(tables)
    BY <1>1, <1>2, <1>3
  <2> DEFINE t      == registry[r].tables
             emptied == [tables EXCEPT ![t] = NoMemos]
  <2>3. t \in 1..Len(emptied) /\ emptied[t] = NoMemos
    BY <1>1, <1>2, <2>2
  <2>4. \A x \in DOMAIN registry : x # r =>
          registry[x].tables # t /\ emptied[registry[x].tables] = tables[registry[x].tables]
    BY <1>1, <1>2, <1>4
  <2>5. ResetMemos(r).tables = emptied
        /\ ResetMemos(r).registry = [registry[r] EXCEPT !.tables = t, !.misses = 0]
    BY <2>1
  <2> HIDE DEF t, emptied
  <2>6. emptied \in Seq(FittingMemos(inners, base)) /\ Len(emptied) = Len(tables)
    BY <2>2 DEF t, emptied
  <2>7. Len(tables) <= Len(emptied)
    BY <1>1, <2>6
  <2> HIDE DEF alone
  <2> QED BY ONLY <2>3, <2>4, <2>5, <2>6, <2>7
<1>5. CASE ~alone
  <2>1. ResetMemos(r) = [tables   |-> Append(tables, NoMemos),
                         registry |-> [registry[r] EXCEPT !.tables = Len(tables) + 1,
                                                          !.misses = 0]]
    BY <1>5 DEF ResetMemos
  <2>2. /\ Append(tables, NoMemos) \in Seq(FittingMemos(inners, base))
        /\ Len(Append(tables, NoMemos)) = Len(tables) + 1
        /\ Append(tables, NoMemos)[Len(tables) + 1] = NoMemos
        /\ \A i \in 1..Len(tables) : Append(tables, NoMemos)[i] = tables[i]
    BY <1>1, <1>3
  <2>3. \A x \in DOMAIN registry : registry[x].tables # Len(tables) + 1
    BY <1>1, <1>2
  <2>4. Len(tables) + 1 \in 1..(Len(tables) + 1) /\ Len(tables) <= Len(tables) + 1
    BY <1>1
  <2> DEFINE t     == Len(tables) + 1
             longer == Append(tables, NoMemos)
  <2>5. ResetMemos(r).tables = longer
        /\ ResetMemos(r).registry = [registry[r] EXCEPT !.tables = t, !.misses = 0]
    BY <2>1
  <2>6. t \in 1..Len(longer) /\ longer[t] = NoMemos /\ Len(tables) <= Len(longer)
        /\ longer \in Seq(FittingMemos(inners, base))
    BY <2>2, <2>4
  <2>7. \A x \in DOMAIN registry : x # r =>
          registry[x].tables # t /\ longer[registry[x].tables] = tables[registry[x].tables]
    BY <1>2, <2>2, <2>3
  <2> HIDE DEF t, longer
  <2> QED BY <2>5, <2>6, <2>7
<1> QED BY <1>4, <1>5

\* Before it answers a registry drops the memos of the dialects it had.
LEMMA SyncedFits ==
  ASSUME NEW base, InvFor(base), NEW r \in DOMAIN registry
  PROVE  LET synced == Synced(r)
             me     == synced.registry
         IN /\ synced.tables \in Seq(FittingMemos(inners, base))
            /\ me \in RegistryRecords(indexes, synced.tables, dialects)
            /\ UpToDate(me)
            /\ me.indexes = registry[r].indexes /\ me.shared = registry[r].shared
            /\ me.dialects = registry[r].dialects
            /\ me.dialectsShared = registry[r].dialectsShared
            /\ me.generation = registry[r].generation
            /\ Registered([registry EXCEPT ![r] = me], indexes, synced.tables, dialects,
                          changes)
<1> DEFINE synced == Synced(r)
           me     == synced.registry
<1>1. /\ tables \in Seq(FittingMemos(inners, base)) /\ Len(tables) \in Nat
      /\ Registered(registry, indexes, tables, dialects, changes)
  BY DEF InvFor
<1>2. /\ registry = [x \in DOMAIN registry |-> registry[x]]
      /\ registry[r] \in RegistryRecords(indexes, tables, dialects)
  BY <1>1 DEF Registered, Typed
<1>3. CASE UpToDate(registry[r])
  <2>1. synced.tables = tables /\ me = registry[r]
    BY <1>3 DEF Synced, UpToDate
  <2>2. [registry EXCEPT ![r] = registry[r]] = registry
    BY <1>2
  <2> QED BY <1>1, <1>2, <1>3, <2>1, <2>2
<1>4. CASE ~UpToDate(registry[r])
  <2> DEFINE reset == ResetMemos(r)
  <2>1. PICK t \in 1..Len(reset.tables) :
              /\ reset.tables \in Seq(FittingMemos(inners, base))
              /\ Len(tables) <= Len(reset.tables)
              /\ reset.registry = [registry[r] EXCEPT !.tables = t, !.misses = 0]
              /\ reset.tables[t] = NoMemos
              /\ \A x \in DOMAIN registry : x # r =>
                   /\ registry[x].tables # t
                   /\ reset.tables[registry[x].tables] = tables[registry[x].tables]
    BY ResetFits
  <2>2. synced = [reset EXCEPT !.registry.seen = registry[r].generation]
    BY <1>4 DEF Synced, UpToDate
  <2>3. DOMAIN reset = {"tables", "registry"}
    BY DEF ResetMemos
  <2>4. synced.tables = reset.tables
        /\ me = [reset.registry EXCEPT !.seen = registry[r].generation]
    BY <2>2, <2>3
  <2> HIDE DEF synced, reset
  <2>5. me = [registry[r] EXCEPT !.tables = t, !.misses = 0, !.seen = registry[r].generation]
    BY <2>1, <2>4
  <2>6. /\ me \in RegistryRecords(indexes, synced.tables, dialects)
        /\ me.indexes = registry[r].indexes /\ me.shared = registry[r].shared
        /\ me.dialects = registry[r].dialects
        /\ me.dialectsShared = registry[r].dialectsShared
        /\ me.generation = registry[r].generation
        /\ me.seen = registry[r].generation /\ me.tables = t
    <3>1. t \in 1..Len(synced.tables) /\ 0 \in 0..MaxMisses
      BY <2>1, <2>4, Bounds
    <3> QED BY <1>2, <2>5, <3>1 DEF RegistryRecords
  <2>7. UpToDate(me) /\ me.seen <= me.generation
    BY <1>2, <2>6 DEF UpToDate, RegistryRecords
  <2>8. \A x \in DOMAIN registry : x # r /\ UpToDate(registry[x]) =>
          /\ CurrentMemos(synced.tables[registry[x].tables], Held(registry[x], indexes, dialects))
          /\ registry[x].tables # me.tables
    <3>1. MemosOf(registry, indexes, tables, dialects)
      BY <1>1 DEF Registered
    <3> QED BY <2>1, <2>4, <2>6, <3>1 DEF MemosOf
  <2>9. CurrentMemos(synced.tables[me.tables], Held(registry[r], indexes, dialects))
    BY <2>1, <2>4, <2>6, NoMemosFit
  <2>10. Len(synced.tables) \in Nat /\ Len(tables) <= Len(synced.tables)
    BY <2>1, <2>4
  <2>11. Registered([registry EXCEPT ![r] = me], indexes, synced.tables, dialects, changes)
    <3> HIDE DEF me
    <3> QED BY ONLY <1>1, <2>6, <2>7, <2>8, <2>9, <2>10, r \in DOMAIN registry, OneChanged
  <2> QED BY <2>1, <2>4, <2>6, <2>7, <2>11 DEF synced
<1> QED BY <1>3, <1>4

\* A current memo table replaces the one a registry uses.
LEMMA MemosWritten ==
  ASSUME NEW reg, NEW ixs, NEW tabs, NEW dias, NEW count, NEW S,
         Registered(reg, ixs, tabs, dias, count), tabs \in Seq(S),
         NEW r \in DOMAIN reg, UpToDate(reg[r]), NEW misses \in 0..MaxMisses,
         NEW memos, CurrentMemos(memos, Held(reg[r], ixs, dias))
  PROVE  Registered([reg EXCEPT ![r] = [reg[r] EXCEPT !.misses = misses]], ixs,
                    [tabs EXCEPT ![reg[r].tables] = memos], dias, count)
<1> DEFINE me    == [reg[r] EXCEPT !.misses = misses]
           tabs2 == [tabs EXCEPT ![reg[r].tables] = memos]
<1>1. /\ reg[r] \in RegistryRecords(ixs, tabs, dias)
      /\ \A x \in DOMAIN reg : reg[x].tables \in 1..Len(tabs)
      /\ reg[r].seen <= reg[r].generation
  BY DEF Registered, Typed, RegistryRecords
<1>2. Len(tabs) \in Nat /\ DOMAIN tabs = 1..Len(tabs)
  OBVIOUS
<1>3. /\ Len(tabs2) = Len(tabs)
      /\ tabs2[reg[r].tables] = memos
      /\ \A i \in 1..Len(tabs) : i # reg[r].tables => tabs2[i] = tabs[i]
  BY <1>1, <1>2
<1> HIDE DEF tabs2
<1>4. /\ me \in RegistryRecords(ixs, tabs2, dias)
      /\ me.indexes = reg[r].indexes /\ me.shared = reg[r].shared
      /\ me.dialects = reg[r].dialects /\ me.dialectsShared = reg[r].dialectsShared
      /\ me.generation = reg[r].generation /\ me.seen = reg[r].seen
      /\ me.tables = reg[r].tables
  BY <1>1, <1>3 DEF RegistryRecords
<1> HIDE DEF me
<1>5. UpToDate(me) /\ me.seen <= me.generation
  BY <1>1, <1>4 DEF UpToDate
<1>6. MemosOf(reg, ixs, tabs, dias)
  BY DEF Registered
<1>7. \A x \in DOMAIN reg : UpToDate(reg[x]) /\ reg[x].tables = reg[r].tables =>
        Held(reg[x], ixs, dias) = Held(reg[r], ixs, dias)
  BY <1>6 DEF MemosOf
<1>8. ASSUME NEW x \in DOMAIN reg, x # r, UpToDate(reg[x])
      PROVE  CurrentMemos(tabs2[reg[x].tables], Held(reg[x], ixs, dias))
  <2>1. CASE reg[x].tables = reg[r].tables
    BY <1>3, <1>7, <1>8, <2>1
  <2>2. CASE reg[x].tables # reg[r].tables
    BY <1>1, <1>3, <1>6, <1>8, <2>2 DEF MemosOf
  <2> QED BY <2>1, <2>2
<1>9. Registered([reg EXCEPT ![r] = me], ixs, tabs2, dias, count)
  <2>1. CurrentMemos(tabs2[me.tables], Held(reg[r], ixs, dias))
    BY <1>3, <1>4
  <2>2. Len(tabs2) \in Nat /\ Len(tabs) <= Len(tabs2)
    BY <1>2, <1>3
  <2> QED BY ONLY Registered(reg, ixs, tabs, dias, count), r \in DOMAIN reg,
                  <1>2, <1>4, <1>5, <1>7, <1>8, <2>1, <2>2, OneChanged
<1> QED BY <1>9 DEF me, tabs2

\* A lookup leaves heaps, tables and counters that fit.
LookupFits(r, lookup, memos, base, base2) ==
  /\ HeapFits(lookup.heap, base2) /\ Grows(inners, base, lookup.heap, base2)
  /\ OuterFits(lookup.interned, lookup.heap, base2)
  /\ lookup.ref \in Refs(lookup.heap, base2) \union {None}
  /\ memos \in Seq(FittingMemos(lookup.heap, base2))
  /\ lookup.me.indexes = registry[r].indexes /\ lookup.me.dialects = registry[r].dialects
  /\ Registered([registry EXCEPT ![r] = lookup.me], indexes, memos, dialects, changes)

\* An answer over heaps that fit leaves the invariant, and what every registry
\* holds.
LEMMA AnswerFits ==
  ASSUME NEW base, InvFor(base), NEW r \in DOMAIN registry,
         NEW asked, NEW lookup, NEW memos, NEW rebinds,
         Answer(r, asked, lookup, memos, rebinds),
         NEW base2, LookupFits(r, lookup, memos, base, base2)
  PROVE  /\ InvFor(base2)'
         /\ DOMAIN registry' = DOMAIN registry
         /\ \A x \in DOMAIN registry : Holding(x)' = Holding(x)
<1> DEFINE k == registry[r].indexes
<1> USE DEF LookupFits
<1>1. /\ indexes \in Seq(FittingIndexes(inners, base)) /\ Len(indexes) \in Nat
      /\ inners \in Seq(Inner) /\ Len(inners) \in Nat
      /\ dialects \in Seq(Syntaxes) /\ changes \in 0..MaxChanges
  BY DEF InvFor, HeapFits
<1>2. k \in 1..Len(indexes)
  BY DEF InvFor, Registered, Typed, RegistryRecords
<1>3. /\ registry' = [registry EXCEPT ![r] = lookup.me]
      /\ indexes' = [indexes EXCEPT ![k].interned = lookup.interned]
      /\ tables' = memos /\ inners' = lookup.heap /\ answer'.ref = lookup.ref
      /\ dialects' = dialects /\ changes' = changes
  BY DEF Answer
<1>4. Len(lookup.heap) \in Nat
  BY DEF HeapFits
<1>5. FittingIndexes(inners, base) \subseteq FittingIndexes(lookup.heap, base2)
  BY <1>1, <1>4, IndexesGrow
<1>6. [indexes[k] EXCEPT !.interned = lookup.interned] \in FittingIndexes(lookup.heap, base2)
  <2>1. indexes[k] \in FittingIndexes(lookup.heap, base2)
    BY <1>1, <1>2, <1>5
  <2> QED BY <2>1 DEF FittingIndexes, OuterFits
<1>7. indexes' \in Seq(FittingIndexes(lookup.heap, base2)) /\ Len(indexes') = Len(indexes)
  <2>1. indexes \in Seq(FittingIndexes(lookup.heap, base2))
    BY <1>1, <1>5
  <2> QED BY <1>2, <1>3, <1>6, <2>1
<1>8. \A i \in 1..Len(indexes) : /\ indexes'[i].documents = indexes[i].documents
                                 /\ indexes'[i].anchors = indexes[i].anchors
                                 /\ indexes'[i].dynamic = indexes[i].dynamic
  <2>1. DOMAIN indexes[k] = {"documents", "anchors", "dynamic", "owner", "owned", "interned"}
    BY <1>1, <1>2 DEF FittingIndexes
  <2> QED BY <1>1, <1>2, <1>3, <2>1
<1>9. \A x \in DOMAIN registry' : Held(registry'[x], indexes', dialects)
                                    = Held(registry'[x], indexes, dialects)
  <2>1. \A x \in DOMAIN registry' : registry'[x].indexes \in 1..Len(indexes)
    BY <1>3 DEF Registered, Typed, RegistryRecords
  <2> QED BY <1>8, <2>1 DEF Held
<1>10. Registered(registry', indexes', memos, dialects, changes)
  <2>1. Registered(registry', indexes, memos, dialects, changes)
    BY <1>3
  <2>2. Typed(registry', indexes', memos, dialects, changes)
    BY <1>7, <2>1 DEF Registered, Typed, RegistryRecords
  <2>3. MemosOf(registry', indexes', memos, dialects)
    BY <1>9, <2>1 DEF Registered, MemosOf
  <2> QED BY <2>1, <2>2, <2>3 DEF Registered
<1>11. InvFor(base2)'
  BY <1>1, <1>3, <1>7, <1>10 DEF InvFor
<1>12. DOMAIN registry' = DOMAIN registry
  BY <1>3
<1>13. \A x \in DOMAIN registry : Held(registry'[x], indexes, dialects)
                                    = Held(registry[x], indexes, dialects)
  BY <1>3 DEF Held
<1>14. \A x \in DOMAIN registry : Holding(x)' = Held(registry'[x], indexes', dialects)
  BY <1>3 DEF Holding, Held
<1> QED BY <1>9, <1>11, <1>12, <1>13, <1>14, HoldingIsHeld

-----------------------------------------------------------------------------
(* Lookups.                                                                 *)

\* What the registries use is there.
LEMMA InUse ==
  ASSUME NEW base, InvFor(base), NEW r \in DOMAIN registry
  PROVE  /\ registry[r] \in RegistryRecords(indexes, tables, dialects)
         /\ indexes[registry[r].indexes] \in FittingIndexes(inners, base)
         /\ indexes[registry[r].indexes].documents \in DocumentsSet
         /\ OuterFits(indexes[registry[r].indexes].interned, inners, base)
         /\ tables[registry[r].tables] \in FittingMemos(inners, base)
         /\ dialects[registry[r].dialects] \in Syntaxes
         /\ Holding(r).documents = indexes[registry[r].indexes].documents
         /\ Holding(r).syntax = dialects[registry[r].dialects]
<1>1. registry[r] \in RegistryRecords(indexes, tables, dialects)
  BY DEF InvFor, Registered, Typed
<1>2. /\ registry[r].indexes \in 1..Len(indexes) /\ registry[r].tables \in 1..Len(tables)
      /\ registry[r].dialects \in 1..Len(dialects)
  BY <1>1 DEF RegistryRecords
<1>3. /\ indexes[registry[r].indexes] \in FittingIndexes(inners, base)
      /\ tables[registry[r].tables] \in FittingMemos(inners, base)
      /\ dialects[registry[r].dialects] \in Syntaxes
  BY <1>2 DEF InvFor
<1>4. /\ indexes[registry[r].indexes].documents \in DocumentsSet
      /\ OuterFits(indexes[registry[r].indexes].interned, inners, base)
  BY <1>3 DEF FittingIndexes
<1> QED BY <1>1, <1>3, <1>4 DEF Holding

\* A lookup without memos finds what the contents say, as a ref.
LEMMA LocatedFits ==
  ASSUME NEW base, InvFor(base), NEW r \in DOMAIN registry, NEW q \in Queries,
         NEW memos, memos.dialect[q.resource] \in {None, dialects[registry[r].dialects]}
  PROVE  LET found == Located(r, memos, q)
         IN \E base2 :
              /\ HeapFits(found.heap, base2) /\ Grows(inners, base, found.heap, base2)
              /\ OuterFits(found.interned, found.heap, base2)
              /\ found.ref \in Refs(found.heap, base2) \union {None}
              /\ PlaceOfRef(found.ref) = View!Locate(Holding(r), q)
<1> DEFINE ix    == indexes[registry[r].indexes]
           now   == dialects[registry[r].dialects]
           root  == ix.documents[q.resource]
           at    == Follow(ix.documents, now,
                           At(root, q.resource, Root, DialectFor(r, memos, q.resource)),
                           q.fragment)
           found == Located(r, memos, q)
<1>1. /\ HeapFits(inners, base) /\ Len(inners) \in Nat
      /\ ix \in FittingIndexes(inners, base) /\ ix.documents \in DocumentsSet
      /\ OuterFits(ix.interned, inners, base) /\ now \in Syntaxes
      /\ Holding(r).documents = ix.documents /\ Holding(r).syntax = now
  BY InUse DEF InvFor, HeapFits
<1>2. q.resource \in URIs /\ q.fragment \in Fragments
  BY Data
<1>3. Grows(inners, base, inners, base)
  BY <1>1 DEF Grows
<1>4. DialectFor(r, memos, q.resource) = now
  BY <1>1, Absence DEF DialectFor
<1>5. PlaceOfRef(None) = None
  BY DEF PlaceOfRef
<1>6. CASE q.fragment \in Names
  <2>1. found = Found(ix.anchors[q.resource][q.fragment], ix.interned, inners)
    BY <1>6 DEF Located
  <2>2. ix.anchors[q.resource][q.fragment] \in Refs(inners, base) \union {None}
    BY <1>1, <1>2, <1>6 DEF FittingIndexes
  <2>3. View!Locate(Holding(r), q) = PlaceOfRef(ix.anchors[q.resource][q.fragment])
    <3>1. View!Locate(Holding(r), q) = Holding(r).anchors[q.resource][q.fragment]
      BY <1>6, ViewMeaning
    <3>2. Holding(r).anchors = [u \in URIs |-> [n \in Names |-> PlaceOfRef(ix.anchors[u][n])]]
      BY DEF Holding
    <3> HIDE DEF ix
    <3> QED BY ONLY <1>2, <1>6, <3>1, <3>2
  <2>4. /\ found.ref = ix.anchors[q.resource][q.fragment]
        /\ found.interned = ix.interned /\ found.heap = inners
    BY <2>1 DEF Found
  <2>5. HeapFits(inners, base) /\ OuterFits(ix.interned, inners, base)
    BY <1>1
  <2> HIDE DEF ix
  <2> QED BY ONLY <1>3, <2>2, <2>3, <2>4, <2>5
<1>7. CASE q.fragment \notin Names /\ root = None
  <2>1. found = Found(None, ix.interned, inners)
    BY <1>7 DEF Located
  <2>2. View!Locate(Holding(r), q) = None
    BY <1>1, <1>7, ViewMeaning
  <2> QED BY <1>1, <1>3, <1>5, <2>1, <2>2 DEF Found
<1>8. CASE q.fragment \notin Names /\ root # None
  <2>1. q.fragment \in Seq(Segments)
    BY <1>2, <1>8 DEF Fragments
  <2>2. At(root, q.resource, Root, now) \in Position
    <3>1. root \in Nodes
      BY <1>1, <1>2, <1>8 DEF DocumentsSet
    <3>2. Root \in Seq(Segments)
      BY DEF Root
    <3> QED BY <1>1, <1>2, <3>1, <3>2 DEF At, Position
  <2>3. at \in Position \union {None}
    BY <1>1, <1>4, <2>1, <2>2, FollowType
  <2>4. View!Locate(Holding(r), q) = PlaceOf(at)
    BY <1>1, <1>4, <1>8, ViewMeaning
  <2>5. CASE at = None
    <3>1. found = Found(None, ix.interned, inners)
      BY <1>8, <2>5 DEF Located
    <3>2. PlaceOf(at) = None
      BY <2>5 DEF PlaceOf
    <3> QED BY <1>1, <1>3, <1>5, <2>4, <3>1, <3>2 DEF Found
  <2>6. CASE at # None
    <3>1. found = Intern(ix, inners, at)
      BY <1>8, <2>6 DEF Located
    <3> HIDE DEF at, ix, found
    <3>2. at \in Position
      BY <2>3, <2>6
    <3>3. \E base2 :
              /\ HeapFits(found.heap, base2) /\ Grows(inners, base, found.heap, base2)
              /\ OuterFits(found.interned, found.heap, base2)
              /\ found.ref \in Refs(found.heap, base2)
              /\ PlaceOfRef(found.ref) = PlaceOf(at)
      BY <1>1, <3>1, <3>2, InternFits
    <3> QED BY <2>4, <3>3 DEF found
  <2> QED BY <2>5, <2>6
<1> QED BY <1>6, <1>7, <1>8

\* resolveMemo answers what the contents say, and memoizes nothing else.
LEMMA ResolveMemoFits ==
  ASSUME NEW base, InvFor(base), NEW r \in DOMAIN registry, NEW q \in Queries
  PROVE  LET lookup == ResolveMemo(r, q)
         IN /\ \E base2 : LookupFits(r, lookup, lookup.tables, base, base2)
            /\ PlaceOfRef(lookup.ref) = View!Locate(Holding(r), q)
            /\ UpToDate(lookup.me)
<1> DEFINE synced == Synced(r)
           me     == synced.registry
           regS   == [registry EXCEPT ![r] = me]
           memos  == synced.tables[me.tables]
           found  == Located(r, memos, q)
           keep   == IF found.ref # None THEN found.ref ELSE IF Room(me) THEN Miss ELSE None
           ix     == indexes[me.indexes]
           lookup == ResolveMemo(r, q)
           held   == Holding(r)
<1>1. /\ synced.tables \in Seq(FittingMemos(inners, base))
      /\ me \in RegistryRecords(indexes, synced.tables, dialects)
      /\ UpToDate(me)
      /\ me.indexes = registry[r].indexes /\ me.dialects = registry[r].dialects
      /\ Registered(regS, indexes, synced.tables, dialects, changes)
  BY SyncedFits
<1>2. /\ HeapFits(inners, base) /\ Len(inners) \in Nat
      /\ OuterFits(ix.interned, inners, base)
      /\ Grows(inners, base, inners, base)
      /\ held.syntax = dialects[registry[r].dialects]
  <2>1. Grows(inners, base, inners, base)
    BY DEF InvFor, HeapFits, Grows
  <2>2. HeapFits(inners, base) /\ Len(inners) \in Nat
    BY DEF InvFor, HeapFits
  <2>3. OuterFits(ix.interned, inners, base)
    BY <1>1, InUse
  <2>4. held.syntax = dialects[registry[r].dialects]
    BY InUse
  <2> QED BY <2>1, <2>2, <2>3, <2>4
<1> HIDE DEF synced
<1>3. me.tables \in 1..Len(synced.tables) /\ me.misses \in 0..MaxMisses
  BY <1>1 DEF RegistryRecords
<1>4. memos \in FittingMemos(inners, base)
  BY <1>1, <1>3
<1>5. r \in DOMAIN regS /\ regS[r] = me
  OBVIOUS
<1>6. Held(me, indexes, dialects) = held
  BY <1>1, HoldingIsHeld DEF Held
<1>7. CurrentMemos(memos, held)
  BY <1>1, <1>5, <1>6 DEF Registered, MemosOf
<1>8. q.resource \in URIs
  BY Data
<1>9. CASE memos.refs[q] # None
  <2>1. /\ lookup.ref = (IF memos.refs[q] = Miss THEN None ELSE memos.refs[q])
        /\ lookup.me = me /\ lookup.tables = synced.tables
        /\ lookup.interned = ix.interned /\ lookup.heap = inners
    BY <1>9 DEF ResolveMemo, synced
  <2>2. memos.refs[q] \in Refs(inners, base) \union {None, Miss}
    BY <1>4 DEF FittingMemos
  <2>3. PlaceOfRef(lookup.ref) = View!Locate(held, q)
    <3>1. CASE memos.refs[q] = Miss
      BY <1>7, <2>1, <3>1 DEF CurrentMemos, PlaceOfRef
    <3>2. CASE memos.refs[q] # Miss
      BY <1>7, <1>9, <2>1, <3>2 DEF CurrentMemos
    <3> QED BY <3>1, <3>2
  <2>4. lookup.ref \in Refs(inners, base) \union {None}
    BY <2>1, <2>2
  <2> HIDE DEF lookup, ix
  <2>5. LookupFits(r, lookup, lookup.tables, base, base)
    BY <1>1, <1>2, <2>1, <2>4 DEF LookupFits
  <2> QED BY <1>1, <2>1, <2>3, <2>5 DEF lookup
<1>10. CASE memos.refs[q] = None
  <2> DEFINE memos2 == [Consulted(r, memos, q) EXCEPT !.refs[q] = keep]
             tables2 == [synced.tables EXCEPT ![me.tables] = memos2]
             misses == IF found.ref = None /\ Room(me) THEN me.misses + 1 ELSE me.misses
  <2>1. /\ lookup.ref = found.ref
        /\ lookup.me = (IF found.ref = None /\ Room(me)
                        THEN [me EXCEPT !.misses = me.misses + 1] ELSE me)
        /\ lookup.tables = tables2
        /\ lookup.interned = found.interned /\ lookup.heap = found.heap
    BY <1>10 DEF ResolveMemo, synced
  <2>2. memos.dialect[q.resource] \in {None, dialects[registry[r].dialects]}
    BY <1>2, <1>7, <1>8 DEF CurrentMemos
  <2>3. PICK base2 :
              /\ HeapFits(found.heap, base2) /\ Grows(inners, base, found.heap, base2)
              /\ OuterFits(found.interned, found.heap, base2)
              /\ found.ref \in Refs(found.heap, base2) \union {None}
              /\ PlaceOfRef(found.ref) = View!Locate(held, q)
    <3> HIDE DEF memos, held
    <3>1. \E base2 :
              /\ HeapFits(found.heap, base2) /\ Grows(inners, base, found.heap, base2)
              /\ OuterFits(found.interned, found.heap, base2)
              /\ found.ref \in Refs(found.heap, base2) \union {None}
              /\ PlaceOfRef(found.ref) = View!Locate(Holding(r), q)
      BY <2>2, LocatedFits
    <3> QED BY <3>1 DEF held
  <2> HIDE DEF found, memos
  <2>4. Len(found.heap) \in Nat /\ FittingMemos(inners, base) \subseteq FittingMemos(found.heap, base2)
    <3>1. Len(found.heap) \in Nat
      BY <2>3 DEF HeapFits
    <3> QED BY <1>2, <2>3, <3>1, MemosGrow
  <2>5. DialectFor(r, memos, q.resource) = held.syntax /\ held.syntax \in Syntaxes
    <3>1. held.syntax \in Syntaxes
      BY <1>2, InUse
    <3> QED BY <1>2, <2>2, <3>1, Absence DEF DialectFor
  <2>6. /\ Consulted(r, memos, q) \in FittingMemos(found.heap, base2)
        /\ CurrentMemos(Consulted(r, memos, q), held)
        /\ Consulted(r, memos, q).refs = memos.refs
    <3> DEFINE noted == [memos EXCEPT !.dialect[q.resource] = DialectFor(r, memos, q.resource)]
    <3>1. memos \in FittingMemos(found.heap, base2)
      BY <1>4, <2>4
    <3>2. /\ noted \in FittingMemos(found.heap, base2)
          /\ noted.refs = memos.refs /\ noted.scoped = memos.scoped
          /\ \A u \in URIs : noted.dialect[u] \in {memos.dialect[u], held.syntax}
      BY <1>8, <2>5, <3>1 DEF FittingMemos
    <3> HIDE DEF noted
    <3>3. CurrentMemos(noted, held)
      BY <1>7, <3>2 DEF CurrentMemos
    <3>4. Consulted(r, memos, q) = memos \/ Consulted(r, memos, q) = noted
      BY DEF Consulted, noted
    <3> QED BY <1>7, <3>1, <3>2, <3>3, <3>4
  <2>7. keep \in Refs(found.heap, base2) \union {None, Miss}
    BY <2>3
  <2>8. /\ memos2 \in FittingMemos(found.heap, base2)
        /\ memos2.refs = [memos.refs EXCEPT ![q] = keep]
        /\ memos2.scoped = Consulted(r, memos, q).scoped
        /\ memos2.dialect = Consulted(r, memos, q).dialect
    <3> HIDE DEF keep
    <3> QED BY <2>6, <2>7 DEF FittingMemos
  <2>9. CurrentMemos(memos2, held)
    <3>1. ASSUME NEW p \in Queries
          PROVE  /\ memos2.refs[p] = Miss => View!Locate(held, p) = None
                 /\ memos2.refs[p] \notin {None, Miss} =>
                      PlaceOfRef(memos2.refs[p]) = View!Locate(held, p)
      <4>1. CASE p = q
        <5>1. memos2.refs[q] = keep
          BY <1>4, <2>8 DEF FittingMemos
        <5>2. found.ref = None => PlaceOfRef(found.ref) = None
          BY DEF PlaceOfRef
        <5>3. found.ref # Miss
          BY <2>3, Absence DEF Refs
        <5> QED BY <2>3, <4>1, <5>1, <5>2, <5>3
      <4>2. CASE p # q
        <5>1. memos2.refs[p] = memos.refs[p]
          BY <1>4, <2>8, <4>2 DEF FittingMemos
        <5> QED BY <1>7, <5>1 DEF CurrentMemos
      <4> QED BY <4>1, <4>2
    <3> HIDE DEF memos2
    <3> QED BY <2>6, <2>8, <3>1 DEF CurrentMemos
  <2>10. misses \in 0..MaxMisses /\ lookup.me = [me EXCEPT !.misses = misses]
    <3>1. me.misses \in Nat /\ MaxMisses \in Nat
      BY <1>3, Bounds
    <3>2. me = [me EXCEPT !.misses = me.misses]
      BY <1>1 DEF RegistryRecords
    <3> QED BY <1>3, <2>1, <3>1, <3>2 DEF Room
  <2> HIDE DEF misses, memos2, lookup, me, tables2
  <2>11. Registered([registry EXCEPT ![r] = lookup.me], indexes, tables2, dialects, changes)
    <3>1. UpToDate(regS[r]) /\ CurrentMemos(memos2, Held(regS[r], indexes, dialects))
      BY <1>1, <1>5, <1>6, <2>9
    <3> DEFINE tables3 == [synced.tables EXCEPT ![regS[r].tables] = memos2]
               regM == [regS EXCEPT ![r] = [regS[r] EXCEPT !.misses = misses]]
    <3>2. Registered(regM, indexes, tables3, dialects, changes)
      <4> HIDE DEF regS
      <4> QED BY <1>1, <1>5, <2>10, <3>1, MemosWritten
    <3>3. regM = [registry EXCEPT ![r] = lookup.me] /\ tables3 = tables2
      BY <1>5, <2>10 DEF tables2
    <3> QED BY <3>2, <3>3
  <2>12. tables2 \in Seq(FittingMemos(found.heap, base2))
    <3>1. synced.tables \in Seq(FittingMemos(found.heap, base2))
      BY <1>1, <2>4
    <3> QED BY <1>3, <2>8, <3>1 DEF tables2
  <2>13. lookup.me.indexes = me.indexes /\ lookup.me.dialects = me.dialects
         /\ UpToDate(lookup.me)
    BY <1>1, <2>10 DEF UpToDate, RegistryRecords
  <2>14. LookupFits(r, lookup, lookup.tables, base, base2)
    BY <1>1, <2>1, <2>3, <2>11, <2>12, <2>13 DEF LookupFits
  <2> QED BY <2>1, <2>3, <2>13, <2>14 DEF lookup
<1> QED BY <1>9, <1>10

\* What every registry holds is as it was.
Frame ==
  /\ DOMAIN registry' = DOMAIN registry
  /\ \A x \in DOMAIN registry : Holding(x)' = Holding(x)

\* The reference was resolved in what the registry holds.
Asked(r, q) ==
  /\ r \in DOMAIN registry
  /\ answer'.registry = r /\ answer'.asked = q
  /\ PlaceOfRef(answer'.ref) = View!Locate(Holding(r), q)
  /\ \/ answer'.rebinds = FALSE
     \/ /\ answer'.ref # None
        /\ answer'.rebinds = (q.fragment \in Holding(r).dynamic[q.resource])

\* The step was taken from the ref last answered.
AskedBelow(r, seg) ==
  /\ r \in DOMAIN registry /\ answer.ref # None
  /\ answer'.registry = r /\ answer'.asked = None /\ answer'.rebinds = FALSE
  /\ PlaceOfRef(answer'.ref) = View!Below(Holding(r), PlaceOfRef(answer.ref), seg)

LEMMA ResolveRefStep ==
  ASSUME Inv, NEW r \in Registries, NEW q \in Queries, ResolveRef(r, q)
  PROVE  Inv' /\ Frame /\ Asked(r, q)
<1>1. PICK base : InvFor(base)
  BY DEF Inv
<1> DEFINE lookup == ResolveMemo(r, q)
<1>2. r \in DOMAIN registry /\ Answer(r, q, lookup, lookup.tables, FALSE)
  BY DEF ResolveRef
<1>3. /\ \E base2 : LookupFits(r, lookup, lookup.tables, base, base2)
      /\ PlaceOfRef(lookup.ref) = View!Locate(Holding(r), q)
  BY <1>1, <1>2, ResolveMemoFits
<1>4. PICK base2 : LookupFits(r, lookup, lookup.tables, base, base2)
  BY <1>3
<1> HIDE DEF lookup
<1>5. InvFor(base2)' /\ Frame
  BY <1>1, <1>2, <1>4, AnswerFits DEF Frame
<1>6. Asked(r, q)
  BY <1>2, <1>3 DEF Answer, Asked
<1> QED BY <1>5, <1>6 DEF Inv

LEMMA RootRefStep ==
  ASSUME Inv, NEW r \in Registries, NEW u \in URIs, RootRef(r, u)
  PROVE  Inv' /\ Frame /\ Asked(r, RootOf(u))
<1>1. PICK base : InvFor(base)
  BY DEF Inv
<1> DEFINE ix     == indexes[registry[r].indexes]
           now    == dialects[registry[r].dialects]
           at     == At(ix.documents[u], u, Root, now)
           found  == IF ix.documents[u] = None THEN Found(None, ix.interned, inners)
                     ELSE Intern(ix, inners, at)
           lookup == [ref |-> found.ref, me |-> registry[r], interned |-> found.interned,
                      heap |-> found.heap]
<1>2. r \in DOMAIN registry /\ Answer(r, RootOf(u), lookup, tables, FALSE)
  BY DEF RootRef
<1>3. /\ ix \in FittingIndexes(inners, base) /\ ix.documents \in DocumentsSet
      /\ OuterFits(ix.interned, inners, base) /\ now \in Syntaxes
      /\ Holding(r).documents = ix.documents /\ Holding(r).syntax = now
  BY <1>1, <1>2, InUse
<1>4. HeapFits(inners, base) /\ Len(inners) \in Nat /\ tables \in Seq(FittingMemos(inners, base))
  BY <1>1 DEF InvFor, HeapFits
<1>5. Root \in Seq(Segments) /\ Root \notin Names
  <2>1. Root \in Seq(Segments)
    BY DEF Root
  <2> QED BY <2>1, Data
<1>6. RootOf(u).resource = u /\ RootOf(u).fragment = Root
  BY DEF RootOf
<1>7. \E base2 :
        /\ HeapFits(found.heap, base2) /\ Grows(inners, base, found.heap, base2)
        /\ OuterFits(found.interned, found.heap, base2)
        /\ found.ref \in Refs(found.heap, base2) \union {None}
        /\ PlaceOfRef(found.ref) = View!Locate(Holding(r), RootOf(u))
  <2>1. CASE ix.documents[u] = None
    <3>1. found = Found(None, ix.interned, inners)
      BY <2>1
    <3>2. View!Locate(Holding(r), RootOf(u)) = None
      BY <1>3, <1>5, <1>6, <2>1, ViewMeaning
    <3>3. Grows(inners, base, inners, base)
      BY <1>4 DEF Grows
    <3>4. found.ref = None /\ found.interned = ix.interned /\ found.heap = inners
      BY <3>1 DEF Found
    <3>5. PlaceOfRef(None) = None
      BY DEF PlaceOfRef
    <3> HIDE DEF found, ix
    <3> QED BY <1>3, <1>4, <3>2, <3>3, <3>4, <3>5
  <2>2. CASE ix.documents[u] # None
    <3>1. at \in Position
      <4>1. ix.documents[u] \in Nodes
        BY <1>3, <2>2 DEF DocumentsSet
      <4> QED BY <1>3, <1>5, <4>1 DEF At, Position
    <3>2. View!Locate(Holding(r), RootOf(u)) = PlaceOf(at)
      <4>1. Follow(ix.documents, now, at, Root) = at
        BY <1>3, <1>5, <3>1, FollowType
      <4> QED BY <1>3, <1>5, <1>6, <2>2, <4>1, ViewMeaning
    <3>3. found = Intern(ix, inners, at)
      BY <2>2
    <3> HIDE DEF found, at, ix
    <3> QED BY <1>3, <1>4, <3>1, <3>2, <3>3, InternFits
  <2> QED BY <2>1, <2>2
<1>8. PICK base2 :
        /\ HeapFits(found.heap, base2) /\ Grows(inners, base, found.heap, base2)
        /\ OuterFits(found.interned, found.heap, base2)
        /\ found.ref \in Refs(found.heap, base2) \union {None}
        /\ PlaceOfRef(found.ref) = View!Locate(Holding(r), RootOf(u))
  BY <1>7
<1> HIDE DEF found
<1>9. tables \in Seq(FittingMemos(found.heap, base2))
  <2>1. Len(found.heap) \in Nat
    BY <1>8 DEF HeapFits
  <2>2. FittingMemos(inners, base) \subseteq FittingMemos(found.heap, base2)
    BY <1>4, <1>8, <2>1, MemosGrow
  <2> QED BY <1>4, <2>2
<1>10. Registered([registry EXCEPT ![r] = registry[r]], indexes, tables, dialects, changes)
  <2>1. Registered(registry, indexes, tables, dialects, changes)
    BY <1>1 DEF InvFor
  <2>2. registry = [x \in DOMAIN registry |-> registry[x]]
    BY <2>1 DEF Registered, Typed
  <2>3. [registry EXCEPT ![r] = registry[r]] = registry
    BY <2>2
  <2> QED BY <2>1, <2>3
<1>11. LookupFits(r, lookup, tables, base, base2)
  BY <1>8, <1>9, <1>10 DEF LookupFits
<1>12. lookup.ref = found.ref
  OBVIOUS
<1> HIDE DEF lookup
<1>13. InvFor(base2)' /\ Frame
  BY <1>1, <1>2, <1>11, AnswerFits DEF Frame
<1>14. Asked(r, RootOf(u))
  BY <1>2, <1>8, <1>12 DEF Answer, Asked
<1> QED BY <1>13, <1>14 DEF Inv

LEMMA ScopedReferenceStep ==
  ASSUME Inv, NEW r \in Registries, NEW q \in Scoped, ScopedReference(r, q)
  PROVE  Inv' /\ Frame /\ Asked(r, q)
<1>1. PICK base : InvFor(base)
  BY DEF Inv
<1> DEFINE synced  == Synced(r)
           me      == synced.registry
           memos   == synced.tables[me.tables]
           known   == memos.scoped[q]
           lookup  == ResolveMemo(r, q)
           ix      == indexes[registry[r].indexes]
           rebinds == q.fragment \in ix.dynamic[q.resource]
           memo    == [ref |-> lookup.ref, rebinds |-> rebinds]
<1>2. r \in DOMAIN registry /\ q \in Queries
  BY Data DEF ScopedReference
<1>3. Holding(r).dynamic = ix.dynamic
  BY DEF Holding
<1>4. /\ synced.tables \in Seq(FittingMemos(inners, base))
      /\ me \in RegistryRecords(indexes, synced.tables, dialects)
      /\ UpToDate(me)
      /\ me.indexes = registry[r].indexes /\ me.dialects = registry[r].dialects
      /\ Registered([registry EXCEPT ![r] = me], indexes, synced.tables, dialects, changes)
  BY <1>1, <1>2, SyncedFits
<1>5. CASE known # None
  <2> DEFINE hit == [ref |-> known.ref, me |-> me, tables |-> synced.tables,
                     interned |-> ix.interned, heap |-> inners]
  <2>1. Answer(r, q, hit, synced.tables, known.rebinds)
    BY <1>5 DEF ScopedReference
  <2>2. /\ HeapFits(inners, base) /\ OuterFits(ix.interned, inners, base)
        /\ Grows(inners, base, inners, base)
    <3>1. Grows(inners, base, inners, base) /\ HeapFits(inners, base)
      BY <1>1 DEF InvFor, HeapFits, Grows
    <3> QED BY <1>1, <1>2, <3>1, InUse
  <2>3. memos \in FittingMemos(inners, base) /\ CurrentMemos(memos, Holding(r))
    <3>1. me.tables \in 1..Len(synced.tables)
      BY <1>4 DEF RegistryRecords
    <3>2. Held(me, indexes, dialects) = Holding(r)
      BY <1>4, HoldingIsHeld DEF Held
    <3> DEFINE regS == [registry EXCEPT ![r] = me]
    <3>3. r \in DOMAIN regS /\ regS[r] = me
      BY <1>2
    <3> HIDE DEF synced
    <3>4. CurrentMemos(memos, Holding(r))
      BY <1>4, <3>2, <3>3 DEF Registered, MemosOf
    <3> QED BY <1>4, <3>1, <3>4
  <2>4. known \in [ref : Refs(inners, base), rebinds : BOOLEAN]
    BY <1>5, <2>3 DEF FittingMemos
  <2>5. /\ PlaceOfRef(known.ref) = View!Locate(Holding(r), q)
        /\ known.rebinds <=> q.fragment \in Holding(r).dynamic[q.resource]
    BY <1>5, <2>3 DEF CurrentMemos
  <2>6. LookupFits(r, hit, synced.tables, base, base)
    <3> HIDE DEF synced, ix, known
    <3> QED BY <1>4, <2>2, <2>4 DEF LookupFits
  <2>7. hit.ref = known.ref /\ known.ref # None /\ known.rebinds \in BOOLEAN
    BY <2>4, Absence DEF Refs
  <2> HIDE DEF hit, synced, known
  <2>8. InvFor(base)' /\ Frame
    BY <1>1, <1>2, <2>1, <2>6, AnswerFits DEF Frame
  <2>9. Asked(r, q)
    BY <1>2, <2>1, <2>5, <2>7 DEF Answer, Asked
  <2> QED BY <2>8, <2>9 DEF Inv
<1>6. /\ \E base2 : LookupFits(r, lookup, lookup.tables, base, base2)
      /\ PlaceOfRef(lookup.ref) = View!Locate(Holding(r), q)
      /\ UpToDate(lookup.me)
  BY <1>1, <1>2, ResolveMemoFits
<1>7. PICK base2 : LookupFits(r, lookup, lookup.tables, base, base2)
  BY <1>6
<1>8. CASE known = None /\ lookup.ref = None
  <2>1. Answer(r, q, lookup, lookup.tables, FALSE)
    BY <1>8 DEF ScopedReference
  <2> HIDE DEF lookup
  <2>2. InvFor(base2)' /\ Frame
    BY <1>1, <1>2, <1>7, <2>1, AnswerFits DEF Frame
  <2>3. Asked(r, q)
    BY <1>2, <1>6, <2>1 DEF Answer, Asked
  <2> QED BY <2>2, <2>3 DEF Inv
<1>9. CASE known = None /\ lookup.ref # None
  <2> DEFINE place   == lookup.me.tables
             memos2  == [lookup.tables[place] EXCEPT !.scoped[q] = memo]
             tables2 == [lookup.tables EXCEPT ![place].scoped[q] = memo]
             regL    == [registry EXCEPT ![r] = lookup.me]
  <2>1. Answer(r, q, lookup, tables2, rebinds)
    BY <1>9 DEF ScopedReference
  <2> HIDE DEF lookup
  <2>2. /\ Registered(regL, indexes, lookup.tables, dialects, changes)
        /\ lookup.tables \in Seq(FittingMemos(lookup.heap, base2))
        /\ lookup.ref \in Refs(lookup.heap, base2)
        /\ lookup.me.indexes = registry[r].indexes
        /\ lookup.me.dialects = registry[r].dialects
    BY <1>7, <1>9 DEF LookupFits
  <2>3. r \in DOMAIN regL /\ regL[r] = lookup.me
    BY <1>2
  <2>4. lookup.me \in RegistryRecords(indexes, lookup.tables, dialects)
    BY <2>2, <2>3 DEF Registered, Typed
  <2>5. place \in 1..Len(lookup.tables) /\ lookup.me.misses \in 0..MaxMisses
        /\ lookup.me = [lookup.me EXCEPT !.misses = lookup.me.misses]
    BY <2>4 DEF RegistryRecords
  <2>6. lookup.tables[place] \in FittingMemos(lookup.heap, base2)
    BY <2>2, <2>5
  <2>7. Held(lookup.me, indexes, dialects) = Holding(r)
    BY <2>2, HoldingIsHeld DEF Held
  <2>8. CurrentMemos(lookup.tables[place], Holding(r))
    <3> HIDE DEF regL
    <3> QED BY <1>6, <2>2, <2>3, <2>7 DEF Registered, MemosOf
  <2>9. /\ memos2 \in FittingMemos(lookup.heap, base2)
        /\ memos2.refs = lookup.tables[place].refs
        /\ memos2.dialect = lookup.tables[place].dialect
        /\ memos2.scoped[q] = memo
        /\ \A p \in Scoped : p # q => memos2.scoped[p] = lookup.tables[place].scoped[p]
    <3>1. memo \in [ref : Refs(lookup.heap, base2), rebinds : BOOLEAN]
      BY <2>2
    <3> HIDE DEF memo
    <3> QED BY <2>6, <3>1 DEF FittingMemos
  <2>10. CurrentMemos(memos2, Holding(r))
    <3>1. ASSUME NEW p \in Scoped, memos2.scoped[p] # None
          PROVE  /\ PlaceOfRef(memos2.scoped[p].ref) = View!Locate(Holding(r), p)
                 /\ memos2.scoped[p].rebinds <=> p.fragment \in Holding(r).dynamic[p.resource]
      <4>1. CASE p = q
        <5>1. memo.ref = lookup.ref /\ memo.rebinds = rebinds
          OBVIOUS
        <5> HIDE DEF memo
        <5> QED BY <1>3, <1>6, <2>9, <4>1, <5>1
      <4>2. CASE p # q
        BY <2>8, <2>9, <3>1, <4>2 DEF CurrentMemos
      <4> QED BY <4>1, <4>2
    <3> HIDE DEF memos2
    <3> QED BY <2>8, <2>9, <3>1 DEF CurrentMemos
  <2>11. tables2 = [lookup.tables EXCEPT ![place] = memos2]
    OBVIOUS
  <2> HIDE DEF memos2, tables2, memo, place
  <2>12. Registered(regL, indexes, tables2, dialects, changes)
    <3> DEFINE regM == [regL EXCEPT ![r] = [regL[r] EXCEPT !.misses = lookup.me.misses]]
    <3>1. regL[r].tables = place /\ UpToDate(regL[r])
      BY <1>6, <2>3 DEF place
    <3>2. CurrentMemos(memos2, Held(regL[r], indexes, dialects))
      BY <2>3, <2>7, <2>10
    <3>3. regM = regL
      BY <2>3, <2>5
    <3> HIDE DEF regL
    <3>4. Registered(regM, indexes, [lookup.tables EXCEPT ![regL[r].tables] = memos2], dialects,
                     changes)
      BY <2>2, <2>3, <2>5, <3>1, <3>2, MemosWritten
    <3> QED BY <2>11, <3>1, <3>3, <3>4
  <2>13. tables2 \in Seq(FittingMemos(lookup.heap, base2))
    BY <2>2, <2>5, <2>9, <2>11
  <2>14. LookupFits(r, lookup, tables2, base, base2)
    BY <1>7, <2>12, <2>13 DEF LookupFits
  <2>15. InvFor(base2)' /\ Frame
    BY <1>1, <1>2, <2>1, <2>14, AnswerFits DEF Frame
  <2>16. Asked(r, q)
    BY <1>2, <1>3, <1>6, <1>9, <2>1 DEF Answer, Asked
  <2> QED BY <2>15, <2>16 DEF Inv
<1> QED BY <1>5, <1>8, <1>9

-----------------------------------------------------------------------------
(* Steps below a ref.                                                       *)

LEMMA GrowsTransitively ==
  ASSUME NEW heap, NEW base, NEW heap2, NEW base2, NEW heap3, NEW base3,
         Len(heap) \in Nat, Len(heap2) \in Nat, Len(heap3) \in Nat,
         Grows(heap, base, heap2, base2), Grows(heap2, base2, heap3, base3)
  PROVE  Grows(heap, base, heap3, base3)
<1>1. \A i \in 1..Len(heap) : i \in 1..Len(heap2)
  BY DEF Grows
<1> QED BY <1>1 DEF Grows

\* A child is noted on the ref it is below.
LEMMA ChildrenNoted ==
  ASSUME NEW heap, NEW base, HeapFits(heap, base),
         NEW i \in 1..Len(heap), NEW p \in DOMAIN heap[i].refs, NEW syntax \in Syntaxes,
         NEW seg \in Segments, NEW ref \in Refs(heap, base),
         PlaceOfRef(ref) = StepFrom(heap[i].refs[p], base[i], p, syntax, seg),
         NEW kids \in Maps(Segments, RefSet),
         \A s \in DOMAIN kids :
           /\ kids[s] \in Refs(heap, base)
           /\ PlaceOfRef(kids[s]) = StepFrom(heap[i].refs[p], base[i], p, syntax, s),
         NEW noted,
         noted = Put(heap[i].children, p, [by |-> syntax, at |-> Put(kids, seg, ref)]),
         NEW heap2, heap2 = [heap EXCEPT ![i].children = noted]
  PROVE  HeapFits(heap2, base) /\ Grows(heap, base, heap2, base)
<1> DEFINE more == Put(kids, seg, ref)
           kid  == [by |-> syntax, at |-> more]
<1>1. /\ heap \in Seq(Inner) /\ Len(heap) \in Nat /\ heap[i] \in Inner
      /\ base \in Seq(URIs) /\ Len(base) = Len(heap)
      /\ \A j \in 1..Len(heap) : InnerFits(heap, base, j)
  BY DEF HeapFits
<1>2. ref \in RefSet
  BY DEF Refs
<1>3. /\ more \in Maps(Segments, RefSet)
      /\ \A s : s \in DOMAIN more <=> s \in DOMAIN kids \/ s = seg
      /\ more[seg] = ref
      /\ \A s \in DOMAIN kids : s # seg => more[s] = kids[s]
  <2> HIDE DEF more
  <2>1. more = Put(kids, seg, ref)
    BY DEF more
  <2> QED BY ONLY <1>2, <2>1, kids \in Maps(Segments, RefSet), seg \in Segments, ExtendedMap
<1> HIDE DEF more
<1>4. kid \in Kid /\ kid.by = syntax /\ kid.at = more
  BY <1>3 DEF Kid
<1> HIDE DEF kid
<1>5. /\ heap[i].children \in Maps(Seq(Segments), Kid)
      /\ heap[i].refs \in Maps(Seq(Segments), Nodes)
      /\ p \in Seq(Segments)
  BY <1>1 DEF Inner, Maps
<1>6. noted = Put(heap[i].children, p, kid)
  BY DEF kid, more
<1>7. /\ noted \in Maps(Seq(Segments), Kid)
      /\ \A o : o \in DOMAIN noted <=> o \in DOMAIN heap[i].children \/ o = p
      /\ noted[p] = kid
      /\ \A o \in DOMAIN heap[i].children : o # p => noted[o] = heap[i].children[o]
  BY ONLY <1>4, <1>5, <1>6, ExtendedMap
<1>8. /\ heap2 \in Seq(Inner) /\ Len(heap2) = Len(heap)
      /\ heap2[i].refs = heap[i].refs /\ heap2[i].children = noted
      /\ \A j \in 1..Len(heap) : j # i => heap2[j] = heap[j]
  <2>1. [heap[i] EXCEPT !.children = noted] \in Inner
        /\ [heap[i] EXCEPT !.children = noted].refs = heap[i].refs
        /\ [heap[i] EXCEPT !.children = noted].children = noted
    BY <1>1, <1>7 DEF Inner
  <2>2. heap2 = [heap EXCEPT ![i] = [heap[i] EXCEPT !.children = noted]]
    BY <1>1
  <2> QED BY <1>1, <2>1, <2>2
<1>9. Grows(heap, base, heap2, base)
  <2>1. SUFFICES ASSUME NEW j \in 1..Len(heap), NEW o \in DOMAIN heap[j].refs
                 PROVE  o \in DOMAIN heap2[j].refs /\ heap2[j].refs[o] = heap[j].refs[o]
    BY <1>1, <1>8 DEF Grows
  <2>2. CASE j = i
    BY <1>8, <2>1, <2>2
  <2>3. CASE j # i
    BY <1>8, <2>1, <2>3
  <2> QED BY <2>2, <2>3
<1>10. Refs(heap, base) \subseteq Refs(heap2, base)
  BY <1>1, <1>8, <1>9, RefsGrow
<1>11. ASSUME NEW j \in 1..Len(heap)  PROVE InnerFits(heap2, base, j)
  <2>1. InnerFits(heap, base, j)
    BY <1>1
  <2>2. CASE j # i
    <3>1. heap2[j] = heap[j]
      BY <1>8, <2>2
    <3> QED BY ONLY <1>10, <2>1, <3>1 DEF InnerFits
  <2>3. CASE j = i
    <3>1. DOMAIN heap2[i].children \subseteq DOMAIN heap2[i].refs
      BY <1>7, <1>8, <2>1, <2>3 DEF InnerFits
    <3>2. ASSUME NEW o \in DOMAIN heap2[i].children, NEW s \in DOMAIN heap2[i].children[o].at
          PROVE  LET its == heap2[i].children[o]
                 IN /\ its.at[s] \in Refs(heap2, base)
                    /\ PlaceOfRef(its.at[s]) = StepFrom(heap2[i].refs[o], base[i], o, its.by, s)
      <4>1. CASE o = p
        <5>1. heap2[i].children[o] = kid /\ s \in DOMAIN more
          BY <1>4, <1>7, <1>8, <3>2, <4>1
        <5>2. more[s] \in Refs(heap, base)
              /\ PlaceOfRef(more[s]) = StepFrom(heap[i].refs[p], base[i], p, syntax, s)
          BY <1>3, <5>1
        <5> QED BY <1>4, <1>8, <1>10, <4>1, <5>1, <5>2
      <4>2. CASE o # p
        <5>1. o \in DOMAIN heap[i].children /\ heap2[i].children[o] = heap[i].children[o]
          BY <1>7, <1>8, <3>2, <4>2
        <5>2. s \in DOMAIN heap[i].children[o].at
          BY <3>2, <5>1
        <5>3. LET its == heap[i].children[o]
              IN /\ its.at[s] \in Refs(heap, base)
                 /\ PlaceOfRef(its.at[s]) = StepFrom(heap[i].refs[o], base[i], o, its.by, s)
          BY <2>1, <2>3, <5>1, <5>2 DEF InnerFits
        <5> QED BY <1>8, <1>10, <5>1, <5>3
      <4> QED BY <4>1, <4>2
    <3>3. InnerFits(heap2, base, i)
      BY ONLY <3>1, <3>2 DEF InnerFits
    <3> QED BY <2>3, <3>3
  <2> QED BY <2>2, <2>3
<1>12. HeapFits(heap2, base)
  BY <1>1, <1>8, <1>11 DEF HeapFits
<1> QED BY <1>9, <1>12

\* What Child finds, with the maps it leaves.
Stepped(ix, now, syntax, ref, seg) ==
  LET kids  == ChildrenOf(inners, ref, syntax)
      live  == /\ ref.home # 0 /\ ix.interned[ref.base] = ref.home
      at    == Hop(ix.documents, now,
                   [At(ref.node, ref.base, ref.pointer, syntax) EXCEPT !.current = live], seg)
      found == IF at = None THEN Found(None, ix.interned, inners) ELSE Intern(ix, inners, at)
      noted == Put(found.heap[ref.home].children, ref.pointer,
                   [by |-> syntax, at |-> Put(kids, seg, found.ref)])
  IN IF ix.documents[ref.base] = None THEN Found(None, ix.interned, inners)
     ELSE IF seg \in DOMAIN kids THEN Found(kids[seg], ix.interned, inners)
     ELSE IF at = None \/ ~at.current THEN found
     ELSE [found EXCEPT !.heap[ref.home].children = noted]

\* The children read with a syntax are where steps with it lead.
LEMMA ChildrenFit ==
  ASSUME NEW base, HeapFits(inners, base), NEW ref \in Refs(inners, base),
         NEW syntax \in Syntaxes, NEW kids, kids = ChildrenOf(inners, ref, syntax)
  PROVE  /\ kids \in Maps(Segments, RefSet)
         /\ \A s \in DOMAIN kids :
              /\ kids[s] \in Refs(inners, base)
              /\ PlaceOfRef(kids[s])
                   = StepFrom(ref.node, ref.base, ref.pointer, syntax, s)
<1> DEFINE its == inners[ref.home].children[ref.pointer]
<1>1. CASE kids = << >>
  BY <1>1, EmptyMap
<1>2. CASE kids # << >>
  <2>1. /\ ref.home # 0 /\ ref.pointer \in DOMAIN inners[ref.home].children
        /\ its.by = syntax /\ kids = its.at
    BY <1>2 DEF ChildrenOf
  <2>2. /\ ref.home \in 1..Len(inners) /\ inners[ref.home].refs[ref.pointer] = ref.node
        /\ base[ref.home] = ref.base
    BY <2>1 DEF Refs, Interned
  <2>3. inners[ref.home] \in Inner /\ InnerFits(inners, base, ref.home)
    BY <2>2 DEF HeapFits
  <2>4. its \in Kid
    BY <2>1, <2>3 DEF Inner, Maps
  <2>5. kids \in Maps(Segments, RefSet)
    BY <2>1, <2>4 DEF Kid
  <2>6. \A s \in DOMAIN its.at :
          /\ its.at[s] \in Refs(inners, base)
          /\ PlaceOfRef(its.at[s]) = StepFrom(inners[ref.home].refs[ref.pointer],
                                              base[ref.home], ref.pointer, its.by, s)
    BY <2>1, <2>3 DEF InnerFits
  <2> QED BY <2>1, <2>2, <2>5, <2>6
<1> QED BY <1>1, <1>2

LEMMA SteppedFits ==
  ASSUME NEW base, HeapFits(inners, base), NEW ix \in FittingIndexes(inners, base),
         NEW now \in Syntaxes, NEW ref \in Refs(inners, base), NEW seg \in Segments,
         NEW result, result = Stepped(ix, now, now, ref, seg)
  PROVE  \E base2 :
           /\ HeapFits(result.heap, base2) /\ Grows(inners, base, result.heap, base2)
           /\ OuterFits(result.interned, result.heap, base2)
           /\ result.ref \in Refs(result.heap, base2) \union {None}
           /\ PlaceOfRef(result.ref) =
                IF ix.documents[ref.base] = None THEN None
                ELSE PlaceOf(Hop(ix.documents, now,
                                 At(ref.node, ref.base, ref.pointer, now), seg))
<1> DEFINE kids  == ChildrenOf(inners, ref, now)
           live  == /\ ref.home # 0 /\ ix.interned[ref.base] = ref.home
           here  == At(ref.node, ref.base, ref.pointer, now)
           start == [here EXCEPT !.current = live]
           at    == Hop(ix.documents, now, start, seg)
           found == IF at = None THEN Found(None, ix.interned, inners)
                    ELSE Intern(ix, inners, at)
           noted == Put(found.heap[ref.home].children, ref.pointer,
                        [by |-> now, at |-> Put(kids, seg, found.ref)])
           below == IF ix.documents[ref.base] = None THEN None
                    ELSE PlaceOf(Hop(ix.documents, now, here, seg))
<1>1. result = IF ix.documents[ref.base] = None THEN Found(None, ix.interned, inners)
               ELSE IF seg \in DOMAIN kids THEN Found(kids[seg], ix.interned, inners)
               ELSE IF at = None \/ ~at.current THEN found
               ELSE [found EXCEPT !.heap[ref.home].children = noted]
  BY DEF Stepped
<1>2. /\ ref \in RefSet /\ ref.node \in Nodes /\ ref.base \in URIs
      /\ ref.pointer \in Seq(Segments) /\ ref.home \in Nat
  BY DEF Refs, RefSet
<1>3. /\ ix.documents \in DocumentsSet /\ OuterFits(ix.interned, inners, base)
      /\ Len(inners) \in Nat
  BY DEF FittingIndexes, HeapFits
<1>4. Grows(inners, base, inners, base)
  BY <1>3 DEF Grows
<1>5. /\ here \in Position /\ start \in Position
      /\ PlaceOf(start) = PlaceOf(here) /\ start.syntax = here.syntax
      /\ start.current = live
  <2>1. live \in BOOLEAN
    OBVIOUS
  <2> HIDE DEF live
  <2>2. here \in Position /\ start \in Position
    BY <1>2, <2>1 DEF At, Position
  <2>3. here # None /\ start # None
    BY <2>2, Absence
  <2> QED BY <2>2, <2>3 DEF At, Position, PlaceOf
<1>6. /\ at \in Position \union {None}
      /\ PlaceOf(at) = PlaceOf(Hop(ix.documents, now, here, seg))
      /\ StepFrom(ref.node, ref.base, ref.pointer, now, seg) = PlaceOf(at)
  <2>1. [u \in URIs |-> None] \in DocumentsSet
    BY DEF DocumentsSet
  <2> HIDE DEF start, here
  <2>2. at \in Position \union {None}
    BY <1>3, <1>5, HopType
  <2>3. PlaceOf(at) = PlaceOf(Hop(ix.documents, now, here, seg))
    BY <1>3, <1>5, HopPlace
  <2>4. PlaceOf(Hop([u \in URIs |-> None], now, here, seg)) = PlaceOf(at)
    BY <1>3, <1>5, <2>1, HopPlace
  <2> QED BY <2>2, <2>3, <2>4 DEF StepFrom, here
<1>7. at # None /\ at.current => live
  <2> HIDE DEF live
  <2>1. start.current = live /\ start \in Position
    BY <1>5
  <2> HIDE DEF start
  <2> QED BY <2>1 DEF Hop, Position
<1>8. /\ kids \in Maps(Segments, RefSet)
      /\ \A s \in DOMAIN kids :
           /\ kids[s] \in Refs(inners, base)
           /\ PlaceOfRef(kids[s]) = StepFrom(ref.node, ref.base, ref.pointer, now, s)
  <2> HIDE DEF kids
  <2>1. kids = ChildrenOf(inners, ref, now)
    BY DEF kids
  <2> QED BY <2>1, ChildrenFit
<1>9. PlaceOfRef(None) = None
  BY DEF PlaceOfRef
<1> HIDE DEF kids, start, here, live, at
<1>10. CASE ix.documents[ref.base] = None
  <2>1. result = Found(None, ix.interned, inners)
    BY <1>1, <1>10
  <2> QED BY <1>3, <1>4, <1>9, <1>10, <2>1 DEF Found
<1>11. CASE ix.documents[ref.base] # None /\ seg \in DOMAIN kids
  <2>1. result = Found(kids[seg], ix.interned, inners)
    BY <1>1, <1>11
  <2>2. PlaceOfRef(kids[seg]) = below
    BY <1>6, <1>8, <1>11
  <2> QED BY <1>3, <1>4, <1>8, <1>11, <2>1, <2>2 DEF Found, here
<1>12. CASE ix.documents[ref.base] # None /\ seg \notin DOMAIN kids /\ at = None
  <2>1. result = Found(None, ix.interned, inners)
    BY <1>1, <1>12
  <2>2. below = None
    BY <1>6, <1>12 DEF PlaceOf
  <2> QED BY <1>3, <1>4, <1>9, <1>12, <2>1, <2>2 DEF Found, here
<1>13. CASE ix.documents[ref.base] # None /\ seg \notin DOMAIN kids /\ at # None
  <2>1. at \in Position /\ found = Intern(ix, inners, at) /\ below = PlaceOf(at)
    BY <1>6, <1>13
  <2> HIDE DEF found
  <2>2. PICK base2 :
          /\ HeapFits(found.heap, base2) /\ Grows(inners, base, found.heap, base2)
          /\ OuterFits(found.interned, found.heap, base2)
          /\ found.ref \in Refs(found.heap, base2)
          /\ PlaceOfRef(found.ref) = PlaceOf(at)
          /\ \A j \in 1..Len(inners) : found.heap[j].children = inners[j].children
    BY <2>1, InternFits
  <2>3. CASE ~at.current
    <3>1. result = found
      BY <1>1, <1>13, <2>3
    <3> QED BY <1>13, <2>1, <2>2, <3>1 DEF here
  <2>4. CASE at.current
    <3> DEFINE heap2 == [found.heap EXCEPT ![ref.home].children = noted]
    <3>1. result.heap = heap2 /\ result.interned = found.interned /\ result.ref = found.ref
      <4>1. result = [found EXCEPT !.heap[ref.home].children = noted]
        BY <1>1, <1>13, <2>4
      <4>2. DOMAIN found = {"ref", "interned", "heap"}
        BY <2>1 DEF Intern, Found
      <4> HIDE DEF noted
      <4> QED BY <4>1, <4>2
    <3>2. /\ ref.home \in 1..Len(inners) /\ ref.home \in 1..Len(found.heap)
          /\ Len(found.heap) \in Nat /\ base2[ref.home] = ref.base
          /\ ref.pointer \in DOMAIN found.heap[ref.home].refs
          /\ found.heap[ref.home].refs[ref.pointer] = ref.node
      <4>1. ref.home # 0
        BY <1>7, <1>13, <2>4 DEF live
      <4>2. Interned(ref, inners, base)
        BY DEF Refs
      <4>3. Len(found.heap) \in Nat
        BY <2>2 DEF HeapFits
      <4> QED BY <1>3, <2>2, <4>1, <4>2, <4>3 DEF Interned, Grows
    <3>3. Refs(inners, base) \subseteq Refs(found.heap, base2)
      BY <1>3, <2>2, <3>2, RefsGrow
    <3>4. \A s \in DOMAIN kids :
            /\ kids[s] \in Refs(found.heap, base2)
            /\ PlaceOfRef(kids[s]) =
                 StepFrom(found.heap[ref.home].refs[ref.pointer], base2[ref.home],
                          ref.pointer, now, s)
      BY <1>8, <3>2, <3>3
    <3>5. PlaceOfRef(found.ref) =
            StepFrom(found.heap[ref.home].refs[ref.pointer], base2[ref.home],
                     ref.pointer, now, seg)
      BY <1>6, <2>2, <3>2
    <3>6. noted = Put(found.heap[ref.home].children, ref.pointer,
                      [by |-> now, at |-> Put(kids, seg, found.ref)])
      OBVIOUS
    <3>7. heap2 = [found.heap EXCEPT ![ref.home].children = noted]
      OBVIOUS
    <3> HIDE DEF noted, heap2
    <3>8. HeapFits(heap2, base2) /\ Grows(found.heap, base2, heap2, base2)
      BY ONLY <1>8, <2>2, <3>2, <3>4, <3>5, <3>6, <3>7, now \in Syntaxes, seg \in Segments,
              ChildrenNoted
    <3>9. Len(heap2) \in Nat /\ Len(heap2) = Len(found.heap)
      BY <2>2, <3>7, <3>8 DEF HeapFits
    <3>10. Grows(inners, base, heap2, base2)
      BY <1>3, <2>2, <3>2, <3>8, <3>9, GrowsTransitively
    <3>11. OuterFits(found.interned, heap2, base2)
      BY <2>2, <3>9 DEF OuterFits
    <3>12. found.ref \in Refs(heap2, base2)
      BY <2>2, <3>2, <3>8, <3>9, RefsGrow
    <3> QED BY <1>13, <2>1, <2>2, <3>1, <3>8, <3>10, <3>11, <3>12 DEF here
  <2> QED BY <2>3, <2>4
<1> QED BY <1>10, <1>11, <1>12, <1>13

LEMMA ChildStep ==
  ASSUME Inv, NEW r \in Registries, NEW seg \in Segments, Child(r, seg)
  PROVE  Inv' /\ Frame /\ AskedBelow(r, seg)
<1>1. PICK base : InvFor(base)
  BY DEF Inv
<1> DEFINE synced  == Synced(r)
           me      == synced.registry
           ix      == indexes[me.indexes]
           now     == dialects[me.dialects]
           ref     == answer.ref
           memos   == synced.tables[me.tables]
           syntax  == DialectFor(r, memos, ref.base)
           result  == Stepped(ix, now, syntax, ref, seg)
           lookup  == [ref |-> result.ref, me |-> me, interned |-> result.interned,
                       heap |-> result.heap]
           tables2 == IF ix.documents[ref.base] = None THEN synced.tables
                      ELSE [synced.tables EXCEPT ![me.tables].dialect[ref.base] = syntax]
<1>2. /\ r \in DOMAIN registry /\ ref # None
      /\ Answer(r, None, lookup, tables2, FALSE)
  BY DEF Child, Stepped
<1>3. /\ synced.tables \in Seq(FittingMemos(inners, base))
      /\ me \in RegistryRecords(indexes, synced.tables, dialects)
      /\ UpToDate(me)
      /\ me.indexes = registry[r].indexes /\ me.dialects = registry[r].dialects
      /\ Registered([registry EXCEPT ![r] = me], indexes, synced.tables, dialects, changes)
  BY <1>1, <1>2, SyncedFits
<1>4. /\ ref \in Refs(inners, base) /\ HeapFits(inners, base)
      /\ ref.base \in URIs
  BY <1>1, <1>2 DEF InvFor, Refs, RefSet
<1> HIDE DEF synced
<1>5. /\ ix \in FittingIndexes(inners, base) /\ now \in Syntaxes
      /\ Holding(r).documents = ix.documents /\ Holding(r).syntax = now
  BY <1>1, <1>2, <1>3, InUse
<1>6. /\ me.tables \in 1..Len(synced.tables) /\ me.misses \in 0..MaxMisses
      /\ me = [me EXCEPT !.misses = me.misses]
  BY <1>3 DEF RegistryRecords
<1>7. memos \in FittingMemos(inners, base) /\ CurrentMemos(memos, Holding(r))
  <2>1. Held(me, indexes, dialects) = Holding(r)
    BY <1>3, HoldingIsHeld DEF Held
  <2> DEFINE regS == [registry EXCEPT ![r] = me]
  <2>2. r \in DOMAIN regS /\ regS[r] = me
    BY <1>2
  <2>3. CurrentMemos(memos, Holding(r))
    BY <1>3, <2>1, <2>2 DEF Registered, MemosOf
  <2> QED BY <1>3, <1>6, <2>3
<1>8. syntax = now
  <2>1. memos.dialect[ref.base] \in {None, now}
    BY <1>4, <1>5, <1>7 DEF CurrentMemos
  <2> QED BY <1>3, <2>1 DEF DialectFor
<1> HIDE DEF ix, now, ref, memos, syntax
<1>9. \E base2 :
        /\ HeapFits(result.heap, base2) /\ Grows(inners, base, result.heap, base2)
        /\ OuterFits(result.interned, result.heap, base2)
        /\ result.ref \in Refs(result.heap, base2) \union {None}
        /\ PlaceOfRef(result.ref) =
             IF ix.documents[ref.base] = None THEN None
             ELSE PlaceOf(Hop(ix.documents, now,
                              At(ref.node, ref.base, ref.pointer, now), seg))
  <2>1. result = Stepped(ix, now, now, ref, seg)
    BY <1>8
  <2> HIDE DEF result
  <2> QED BY <1>4, <1>5, <2>1, SteppedFits
<1> HIDE DEF result
<1>10. PICK base2 :
        /\ HeapFits(result.heap, base2) /\ Grows(inners, base, result.heap, base2)
        /\ OuterFits(result.interned, result.heap, base2)
        /\ result.ref \in Refs(result.heap, base2) \union {None}
        /\ PlaceOfRef(result.ref) =
             IF ix.documents[ref.base] = None THEN None
             ELSE PlaceOf(Hop(ix.documents, now,
                              At(ref.node, ref.base, ref.pointer, now), seg))
  BY <1>9
<1>11. PlaceOfRef(result.ref) = View!Below(Holding(r), PlaceOfRef(answer.ref), seg)
  <2>1. PlaceOfRef(ref) = [node |-> ref.node, base |-> ref.base, pointer |-> ref.pointer]
    BY <1>2 DEF PlaceOfRef
  <2> QED BY <1>5, <1>10, <2>1, ViewMeaning DEF ref
<1>12. /\ tables2 \in Seq(FittingMemos(inners, base))
       /\ Registered([registry EXCEPT ![r] = me], indexes, tables2, dialects, changes)
  <2>1. CASE ix.documents[ref.base] = None
    <3>1. tables2 = synced.tables
      BY <2>1
    <3> QED BY <1>3, <3>1
  <2>2. CASE ix.documents[ref.base] # None
    <3> DEFINE memos2 == [memos EXCEPT !.dialect[ref.base] = now]
               regS   == [registry EXCEPT ![r] = me]
    <3>1. tables2 = [synced.tables EXCEPT ![me.tables] = memos2]
      BY <1>8, <2>2 DEF memos
    <3>2. /\ memos2 \in FittingMemos(inners, base)
          /\ memos2.refs = memos.refs /\ memos2.scoped = memos.scoped
          /\ memos2.dialect = [memos.dialect EXCEPT ![ref.base] = now]
          /\ memos.dialect \in [URIs -> Syntaxes \union {None}]
      BY <1>4, <1>5, <1>7 DEF FittingMemos
    <3>3. CurrentMemos(memos2, Holding(r))
      <4> HIDE DEF memos2
      <4>1. \A u \in URIs : memos2.dialect[u] \in {None, Holding(r).syntax}
        BY ONLY <1>5, <1>7, <3>2 DEF CurrentMemos
      <4> QED BY <1>7, <3>2, <4>1 DEF CurrentMemos
    <3> HIDE DEF memos2, tables2
    <3>4. tables2 \in Seq(FittingMemos(inners, base))
      BY <1>3, <1>6, <3>1, <3>2
    <3>5. r \in DOMAIN regS /\ regS[r] = me
      BY <1>2
    <3>6. Held(me, indexes, dialects) = Holding(r)
      BY <1>3, HoldingIsHeld DEF Held
    <3> DEFINE regM == [regS EXCEPT ![r] = [regS[r] EXCEPT !.misses = me.misses]]
    <3>7. regM = regS
      BY <1>6, <3>5
    <3>8. /\ Registered(regS, indexes, synced.tables, dialects, changes)
          /\ UpToDate(regS[r]) /\ CurrentMemos(memos2, Held(regS[r], indexes, dialects))
      BY <1>3, <3>3, <3>5, <3>6
    <3> HIDE DEF regS
    <3>9. Registered(regM, indexes, [synced.tables EXCEPT ![regS[r].tables] = memos2],
                     dialects, changes)
      BY <1>3, <1>6, <3>5, <3>8, MemosWritten
    <3> QED BY <3>1, <3>4, <3>5, <3>7, <3>9 DEF regS
  <2> QED BY <2>1, <2>2
<1> HIDE DEF tables2
<1>13. tables2 \in Seq(FittingMemos(result.heap, base2))
  <2>1. Len(inners) \in Nat /\ Len(result.heap) \in Nat
    BY <1>4, <1>10 DEF HeapFits
  <2>2. FittingMemos(inners, base) \subseteq FittingMemos(result.heap, base2)
    BY <1>10, <2>1, MemosGrow
  <2> QED BY <1>12, <2>2
<1>14. LookupFits(r, lookup, tables2, base, base2)
  BY <1>3, <1>10, <1>12, <1>13 DEF LookupFits
<1>15. lookup.ref = result.ref
  OBVIOUS
<1> HIDE DEF lookup
<1>16. InvFor(base2)' /\ Frame
  BY <1>1, <1>2, <1>14, AnswerFits DEF Frame
<1>17. AskedBelow(r, seg)
  BY <1>2, <1>11, <1>15 DEF Answer, AskedBelow, ref
<1> QED BY <1>16, <1>17 DEF Inv

-----------------------------------------------------------------------------
(* Snapshots.                                                               *)

\* What a registry holds depends on its indexes and its dialects alone.
LEMMA HeldOf ==
  \A me, you, ixs, dias :
    me.indexes = you.indexes /\ me.dialects = you.dialects =>
      Held(me, ixs, dias) = Held(you, ixs, dias)
BY DEF Held

\* A snapshot holds what the registry it was taken of holds.
Taken(r, v) ==
  /\ r \in DOMAIN registry /\ v \in Views \ DOMAIN registry
  /\ \A x : x \in DOMAIN registry' <=> x \in DOMAIN registry \/ x = v
  /\ \A x \in DOMAIN registry' : Holding(x)' = IF x = v THEN Holding(r) ELSE Holding(x)
  /\ UNCHANGED answer

LEMMA SnapshotStep ==
  ASSUME Inv, NEW r \in Registries, NEW v \in Views, Snapshot(r, v)
  PROVE  Inv' /\ Taken(r, v)
<1>1. PICK base : InvFor(base)
  BY DEF Inv
<1> DEFINE synced == Synced(r)
           me     == synced.registry
           regS   == [registry EXCEPT ![r] = me]
           tabs   == synced.tables
           reg    == registry'
           origin(x) == IF x = v THEN r ELSE x
<1>2. /\ r \in DOMAIN registry /\ v \in Views \ DOMAIN registry
      /\ tables' = tabs
      /\ registry' = [x \in DOMAIN registry \union {v} |->
           IF x = v
           THEN [me EXCEPT !.shared = FALSE, !.dialectsShared = FALSE,
                           !.seen = registry[r].generation]
           ELSE IF x = r
           THEN [me EXCEPT !.shared = TRUE, !.dialectsShared = TRUE]
           ELSE registry[x]]
      /\ UNCHANGED <<indexes, inners, dialects, answer, changes>>
  BY DEF Snapshot
<1>3. /\ tabs \in Seq(FittingMemos(inners, base))
      /\ me \in RegistryRecords(indexes, tabs, dialects)
      /\ UpToDate(me)
      /\ me.indexes = registry[r].indexes /\ me.dialects = registry[r].dialects
      /\ me.generation = registry[r].generation
      /\ Registered(regS, indexes, tabs, dialects, changes)
  BY <1>1, <1>2, SyncedFits
<1> HIDE DEF synced, tabs
<1>4. /\ Typed(regS, indexes, tabs, dialects, changes)
      /\ Sharing(regS) /\ MemosOf(regS, indexes, tabs, dialects)
  BY <1>3 DEF Registered
<1>5. /\ \A x : x \in DOMAIN regS <=> x \in DOMAIN registry
      /\ regS[r] = me
      /\ \A x \in DOMAIN registry : x # r => regS[x] = registry[x]
  BY <1>2
<1>6. Source \in DOMAIN registry /\ v # Source /\ v # r
  BY <1>2, <1>4, <1>5 DEF Typed
<1>7. /\ \A x : x \in DOMAIN reg <=> x \in DOMAIN registry \/ x = v
      /\ reg = [x \in DOMAIN reg |-> reg[x]]
      /\ reg[v] = [me EXCEPT !.shared = FALSE, !.dialectsShared = FALSE,
                             !.seen = registry[r].generation]
      /\ reg[r] = [me EXCEPT !.shared = TRUE, !.dialectsShared = TRUE]
      /\ \A x \in DOMAIN registry : x # r => reg[x] = registry[x]
  BY <1>2, <1>6
<1>8. /\ reg[v] \in RegistryRecords(indexes, tabs, dialects)
      /\ reg[r] \in RegistryRecords(indexes, tabs, dialects)
      /\ reg[v].indexes = me.indexes /\ reg[r].indexes = me.indexes
      /\ reg[v].tables = me.tables /\ reg[r].tables = me.tables
      /\ reg[v].dialects = me.dialects /\ reg[r].dialects = me.dialects
      /\ reg[v].generation = me.generation /\ reg[r].generation = me.generation
      /\ reg[v].seen = me.generation /\ reg[r].seen = me.seen
      /\ reg[r].shared = TRUE /\ reg[r].dialectsShared = TRUE
  <2>1. registry[r].generation \in Nat
    BY <1>3 DEF RegistryRecords
  <2> HIDE DEF me, reg
  <2> QED BY <1>3, <1>7, <2>1 DEF RegistryRecords
<1>9. \A x \in DOMAIN reg :
        /\ origin(x) \in DOMAIN regS
        /\ reg[x] \in RegistryRecords(indexes, tabs, dialects)
        /\ reg[x].indexes = regS[origin(x)].indexes
        /\ reg[x].tables = regS[origin(x)].tables
        /\ reg[x].dialects = regS[origin(x)].dialects
        /\ reg[x].generation = regS[origin(x)].generation
        /\ UpToDate(reg[x]) <=> UpToDate(regS[origin(x)])
        /\ reg[x].seen <= reg[x].generation /\ reg[x].generation <= changes
  <2>1. SUFFICES ASSUME NEW x \in DOMAIN reg
        PROVE /\ origin(x) \in DOMAIN regS
              /\ reg[x] \in RegistryRecords(indexes, tabs, dialects)
              /\ reg[x].indexes = regS[origin(x)].indexes
              /\ reg[x].tables = regS[origin(x)].tables
              /\ reg[x].dialects = regS[origin(x)].dialects
              /\ reg[x].generation = regS[origin(x)].generation
              /\ UpToDate(reg[x]) <=> UpToDate(regS[origin(x)])
              /\ reg[x].seen <= reg[x].generation /\ reg[x].generation <= changes
    OBVIOUS
  <2>2. /\ me.seen = me.generation /\ me.generation \in Nat /\ me.generation <= changes
        /\ \A y \in DOMAIN regS :
             /\ regS[y] \in RegistryRecords(indexes, tabs, dialects)
             /\ regS[y].seen <= regS[y].generation /\ regS[y].generation <= changes
    BY <1>2, <1>3, <1>4, <1>5 DEF UpToDate, Typed, RegistryRecords
  <2> HIDE DEF me, regS, reg
  <2>3. CASE x = v
    BY <1>2, <1>5, <1>8, <2>2, <2>3 DEF UpToDate
  <2>4. CASE x = r
    BY <1>2, <1>5, <1>6, <1>8, <2>2, <2>4 DEF UpToDate
  <2>5. CASE x # v /\ x # r
    <3>1. origin(x) = x /\ x \in DOMAIN regS /\ reg[x] = regS[x]
      BY <1>5, <1>7, <2>1, <2>5
    <3> QED BY <2>2, <3>1
  <2> QED BY <2>3, <2>4, <2>5
<1>10. Typed(reg, indexes, tabs, dialects, changes)
  <2>1. DOMAIN reg \subseteq Registries
    BY <1>4, <1>5, <1>7 DEF Typed, Registries
  <2> HIDE DEF reg
  <2> QED BY <1>6, <1>7, <1>9, <2>1 DEF Typed
<1>11. Sharing(reg)
  <2>1. ASSUME NEW x \in DOMAIN reg, x # Source  PROVE UpToDate(reg[x])
    <3>1. CASE origin(x) = Source
      BY <1>3, <1>5, <1>9, <2>1, <3>1
    <3>2. CASE origin(x) # Source
      BY <1>4, <1>9, <3>2 DEF Sharing
    <3> QED BY <3>1, <3>2
  <2>2. CASE r = Source
    BY <1>8, <2>1, <2>2 DEF Sharing
  <2>3. CASE r # Source
    <3>1. reg[Source] = regS[Source] /\ origin(Source) = Source
      BY <1>5, <1>6, <1>7, <2>3
    <3>2. \A x \in DOMAIN reg : x # Source => origin(x) # Source
      BY <2>3
    <3> HIDE DEF reg, regS, origin
    <3> QED BY <1>4, <1>9, <2>1, <3>1, <3>2 DEF Sharing
  <2> QED BY <2>2, <2>3
<1>12. \A x \in DOMAIN reg : Held(reg[x], indexes, dialects)
                               = Held(regS[origin(x)], indexes, dialects)
  <2> HIDE DEF reg, regS, origin
  <2> QED BY <1>9, HeldOf
<1>13. MemosOf(reg, indexes, tabs, dialects)
  <2> HIDE DEF reg, regS, origin
  <2> QED BY <1>4, <1>9, <1>12 DEF MemosOf
<1>14. InvFor(base)'
  <2>1. Registered(registry', indexes, tabs, dialects, changes)
    BY <1>10, <1>11, <1>13 DEF Registered
  <2> QED BY <1>1, <1>2, <1>3, <2>1 DEF InvFor
<1>15. \A x \in DOMAIN registry : Held(regS[x], indexes, dialects) = Holding(x)
  <2>1. Held(me, indexes, dialects) = Held(registry[r], indexes, dialects)
    BY <1>3, HeldOf
  <2> QED BY <1>5, <2>1, HoldingIsHeld
<1>16. \A x \in DOMAIN registry' : Holding(x)' = IF x = v THEN Holding(r) ELSE Holding(x)
  <2>1. \A x : Holding(x)' = Held(registry'[x], indexes, dialects)
    BY <1>2 DEF Holding, Held
  <2> HIDE DEF regS
  <2> QED BY <1>2, <1>5, <1>7, <1>12, <1>15, <2>1
<1> QED BY <1>2, <1>7, <1>14, <1>16 DEF Inv, Taken

-----------------------------------------------------------------------------
(* Registration.                                                            *)

\* A finite set, as a sequence, loses nothing.
LEMMA SequenceOfSet ==
  ASSUME NEW S, IsFiniteSet(S), NEW order, order = SetToSeq(S)
  PROVE  order \in Seq(S) /\ \A x \in S : \E i \in DOMAIN order : order[i] = x
<1> DEFINE c == Cardinality(S)
<1>1. c \in Nat /\ ExistsBijection(1..c, S)
  BY FS_CardinalityType
<1>2. PICK g \in [1..c -> S] : IsInjective(g)
  BY <1>1 DEF ExistsBijection, Bijection, Injection
<1>3. order = CHOOSE f \in [1..c -> S] : IsInjective(f)
  BY DEF SetToSeq
<1>4. order \in [1..c -> S] /\ IsInjective(order)
  <2> HIDE DEF c
  <2> QED BY <1>2, <1>3
<1>5. order \in Injection(1..c, S)
  BY <1>4 DEF Injection
<1>6. Cardinality(1..c) = c
  BY <1>1, FS_Interval
<1>7. order \in Surjection(1..c, S)
  BY <1>5, <1>6, FS_Injection
<1>8. order \in Seq(S) /\ DOMAIN order = 1..c
  BY <1>1, <1>4
<1>9. \A x \in S : \E i \in 1..c : order[i] = x
  BY <1>7 DEF Surjection
<1> QED BY <1>8, <1>9

\* The inner map made for a staged resource holds the refs of its anchors.
HoldsAnchors(inner, resource) ==
  /\ inner \in Inner /\ inner.children = << >>
  /\ \A n \in Names :
       LET a == resource.anchors[n]
       IN a # None => a.pointer \in DOMAIN inner.refs /\ inner.refs[a.pointer] = a.node

LEMMA AnchorInnerFits ==
  ASSUME NEW d \in Documents, NEW s \in Syntaxes, NEW u \in URIs, Claims[d][s][u] # None
  PROVE  HoldsAnchors(AnchorInner(Claims[d][s][u]), Claims[d][s][u])
<1> DEFINE inner    == AnchorInner(Claims[d][s][u])
           resource == Claims[d][s][u]
           places   == {resource.anchors[n] : n \in Names} \ {None}
           refs     == [p \in {a.pointer : a \in places} |->
                          (CHOOSE a \in places : a.pointer = p).node]
<1>1. resource \in Resource
  BY Data
<1>2. places \subseteq Anchor
  BY <1>1 DEF Resource
<1>3. \A a, b \in places : a.pointer = b.pointer => a.node = b.node
  <2>1. \A v \in URIs : Claims[d][s][v] # None =>
          \A a, b \in {Claims[d][s][v].anchors[n] : n \in Names} \ {None} :
            a.pointer = b.pointer => a.node = b.node
    BY ONLY SnapshotsAssumption, d \in Documents, s \in Syntaxes
  <2> QED BY ONLY <2>1, u \in URIs, Claims[d][s][u] # None
<1>4. inner = [refs |-> refs, children |-> << >>]
  BY DEF AnchorInner
<1> HIDE DEF places, inner
<1>5. \A a \in places : /\ a.pointer \in DOMAIN refs /\ refs[a.pointer] = a.node
                        /\ a.pointer \in Seq(Segments) /\ a.node \in Nodes
  BY <1>2, <1>3 DEF Anchor
<1>6. DOMAIN refs = {a.pointer : a \in places}
  OBVIOUS
<1>7. DOMAIN refs \subseteq Seq(Segments) /\ \A p \in DOMAIN refs : refs[p] \in Nodes
  <2> HIDE DEF refs
  <2> QED BY <1>5, <1>6
<1>8. refs \in [DOMAIN refs -> Nodes]
  BY <1>7
<1>9. refs \in Maps(Seq(Segments), Nodes) /\ << >> \in Maps(Seq(Segments), Kid)
  <2> HIDE DEF refs
  <2> QED BY <1>7, <1>8, EmptyMap DEF Maps
<1> HIDE DEF refs
<1>10. inner \in Inner /\ inner.refs = refs /\ inner.children = << >>
  BY <1>4, <1>9 DEF Inner
<1>11. \A n \in Names : resource.anchors[n] # None => resource.anchors[n] \in places
  BY DEF places
<1>12. HoldsAnchors(inner, resource)
  BY <1>5, <1>10, <1>11 DEF HoldsAnchors
<1> QED BY <1>12 DEF inner

\* A document's resources are taken out of the indexes.
LEMMA EvictFits ==
  ASSUME NEW heap, NEW base, NEW ix \in FittingIndexes(heap, base), NEW doc \in URIs
  PROVE  Evict(ix, doc) \in FittingIndexes(heap, base)
<1> DEFINE gone == Evicted(ix, doc)
           new  == Evict(ix, doc)
<1>1. /\ ix.documents \in DocumentsSet
      /\ ix.anchors \in [URIs -> [Names -> Refs(heap, base) \union {None}]]
      /\ ix.dynamic \in [URIs -> SUBSET (Names \union {Root})]
      /\ ix.owner \in [URIs -> URIs \union {None}] /\ ix.owned \in [URIs -> SUBSET URIs]
      /\ OuterFits(ix.interned, heap, base)
  BY DEF FittingIndexes
<1> HIDE DEF gone
<1>2. /\ new.documents = [u \in URIs |-> IF u \in gone THEN None ELSE ix.documents[u]]
      /\ new.anchors = [u \in URIs |-> IF u \in gone THEN [n \in Names |-> None]
                                       ELSE ix.anchors[u]]
      /\ new.dynamic = [u \in URIs |-> IF u \in gone THEN {} ELSE ix.dynamic[u]]
      /\ new.owner = [u \in URIs |-> IF u \in gone THEN None ELSE ix.owner[u]]
      /\ new.owned = [ix.owned EXCEPT ![doc] = {}]
      /\ new.interned = [u \in URIs |-> IF u \in gone THEN 0 ELSE ix.interned[u]]
  BY DEF Evict, NoIndexes, Dropped, gone
<1>3. DOMAIN new = {"documents", "anchors", "dynamic", "owner", "owned", "interned"}
      /\ new = [documents |-> new.documents, anchors |-> new.anchors,
                dynamic |-> new.dynamic, owner |-> new.owner, owned |-> new.owned,
                interned |-> new.interned]
  BY DEF Evict
<1> HIDE DEF new
<1>4. new.documents \in DocumentsSet
  BY <1>1, <1>2 DEF DocumentsSet
<1>5. new.anchors \in [URIs -> [Names -> Refs(heap, base) \union {None}]]
  BY <1>1, <1>2
<1>6. new.dynamic \in [URIs -> SUBSET (Names \union {Root})]
  BY <1>1, <1>2
<1>7. new.owner \in [URIs -> URIs \union {None}] /\ new.owned \in [URIs -> SUBSET URIs]
  BY <1>1, <1>2
<1>8. OuterFits(new.interned, heap, base)
  BY <1>1, <1>2 DEF OuterFits
<1>9. new.interned \in [URIs -> 0..Len(heap)]
  BY <1>8 DEF OuterFits
<1>10. new \in [documents : DocumentsSet,
                anchors   : [URIs -> [Names -> Refs(heap, base) \union {None}]],
                dynamic   : [URIs -> SUBSET (Names \union {Root})],
                owner     : [URIs -> URIs \union {None}],
                owned     : [URIs -> SUBSET URIs],
                interned  : [URIs -> 0..Len(heap)]]
  BY <1>3, <1>4, <1>5, <1>6, <1>7, <1>9
<1> QED BY <1>8, <1>10 DEF FittingIndexes, new

\* A function on an initial segment is a sequence.
LEMMA Listed ==
  ASSUME NEW S, NEW n \in Nat, NEW f \in [1..n -> S]
  PROVE  f \in Seq(S) /\ Len(f) = n
OBVIOUS

\* Two heaps, one after the other.
LEMMA Concatenated ==
  ASSUME NEW S, NEW front \in Seq(S), NEW back \in Seq(S), NEW all, all = front \o back
  PROVE  /\ all \in Seq(S) /\ Len(all) = Len(front) + Len(back)
         /\ \A j \in 1..Len(front) : all[j] = front[j]
         /\ \A i \in 1..Len(back) : all[Len(front) + i] = back[i]
<1>1. all \in Seq(S) /\ Len(all) = Len(front) + Len(back)
  OBVIOUS
<1>2. \A j \in 1..Len(front) : all[j] = front[j]
  OBVIOUS
<1>3. ASSUME NEW i \in 1..Len(back)  PROVE all[Len(front) + i] = back[i]
  <2>1. Len(front) + i \in 1..(Len(front) + Len(back)) /\ ~(Len(front) + i <= Len(front))
        /\ Len(front) + i - Len(front) = i
    OBVIOUS
  <2> QED BY <2>1
<1> QED BY <1>1, <1>2, <1>3

\* The inner maps made for the anchors of the staged resources.
Appended(stage, order) == [i \in DOMAIN order |-> AnchorInner(stage[order[i]])]

\* The refs of the anchors are in inner maps of their own, after the first n.
Homed(stage, order, n, heap, base) ==
  /\ \A u \in URIs :
       stage[u] # None /\ (\E m \in Names : stage[u].anchors[m] # None) =>
         \E i \in DOMAIN order : order[i] = u
  /\ \A i \in DOMAIN order :
       /\ n + i \in 1..Len(heap) /\ base[n + i] = order[i]
       /\ i \in Nat /\ order[i] \in URIs
       /\ \A m \in Names :
            LET a == stage[order[i]].anchors[m]
            IN a # None => /\ a.pointer \in DOMAIN heap[n + i].refs
                           /\ heap[n + i].refs[a.pointer] = a.node

\* The inner maps of a registration's anchors are appended.
LEMMA AnchorsFit ==
  ASSUME NEW base, HeapFits(inners, base),
         NEW d \in Documents, NEW s \in Syntaxes,
         NEW order, order = Anchored(Claims[d][s]),
         NEW heap2, heap2 = inners \o Appended(Claims[d][s], order),
         NEW base2, base2 = base \o order
  PROVE  /\ HeapFits(heap2, base2) /\ Grows(inners, base, heap2, base2)
         /\ Homed(Claims[d][s], order, Len(inners), heap2, base2)
<1> DEFINE stage == Claims[d][s]
           S     == {u \in URIs : stage[u] # None /\ \E n \in Names : stage[u].anchors[n] # None}
           more  == [i \in DOMAIN order |-> AnchorInner(stage[order[i]])]
<1>1. IsFiniteSet(S)
  <2>1. IsFiniteSet({u \in URIs : Claims[d][s][u] # None})
    BY SnapshotsAssumption
  <2>2. S \subseteq {u \in URIs : Claims[d][s][u] # None}
    OBVIOUS
  <2> QED BY ONLY <2>1, <2>2, FS_Subset
<1>2. order = SetToSeq(S)
  BY DEF Anchored
<1> HIDE DEF S
<1>3. order \in Seq(S) /\ \A x \in S : \E i \in DOMAIN order : order[i] = x
  BY <1>1, <1>2, SequenceOfSet
<1>4. /\ inners \in Seq(Inner) /\ Len(inners) \in Nat
      /\ base \in Seq(URIs) /\ Len(base) = Len(inners)
      /\ \A j \in 1..Len(inners) : InnerFits(inners, base, j)
  BY DEF HeapFits
<1>5. /\ order \in Seq(URIs) /\ Len(order) \in Nat /\ DOMAIN order = 1..Len(order)
      /\ \A i \in 1..Len(order) : order[i] \in URIs /\ stage[order[i]] # None
  <2>1. S \subseteq URIs /\ \A u \in S : stage[u] # None
    BY DEF S
  <2> QED BY <1>3, <2>1
<1>6. \A i \in 1..Len(order) :
        /\ AnchorInner(stage[order[i]]) \in Inner
        /\ AnchorInner(stage[order[i]]).children = << >>
        /\ \A n \in Names :
             LET a == stage[order[i]].anchors[n]
             IN a # None => /\ a.pointer \in DOMAIN AnchorInner(stage[order[i]]).refs
                            /\ AnchorInner(stage[order[i]]).refs[a.pointer] = a.node
  <2> SUFFICES ASSUME NEW i \in 1..Len(order)
               PROVE  HoldsAnchors(AnchorInner(stage[order[i]]), stage[order[i]])
    BY DEF HoldsAnchors
  <2>1. order[i] \in URIs /\ Claims[d][s][order[i]] # None
    BY <1>5
  <2> QED BY <2>1, AnchorInnerFits DEF stage
<1>7. /\ more \in Seq(Inner) /\ Len(more) = Len(order)
      /\ \A i \in 1..Len(order) : more[i] = AnchorInner(stage[order[i]])
  <2>1. DOMAIN more = 1..Len(order)
        /\ \A i \in 1..Len(order) : more[i] = AnchorInner(stage[order[i]])
    BY <1>5
  <2>2. more \in [1..Len(order) -> Inner]
    <3>1. more = [i \in 1..Len(order) |-> more[i]]
      BY <1>5
    <3> HIDE DEF more
    <3> QED BY <1>6, <2>1, <3>1
  <2> HIDE DEF more
  <2>3. more \in Seq(Inner) /\ Len(more) = Len(order)
    BY ONLY <1>5, <2>2, Listed
  <2> QED BY ONLY <2>1, <2>3
<1>8. heap2 = inners \o more
  BY DEF Appended
<1> HIDE DEF more, stage
<1>9. /\ heap2 \in Seq(Inner) /\ Len(heap2) = Len(inners) + Len(order)
      /\ \A j \in 1..Len(inners) : heap2[j] = inners[j]
      /\ \A i \in 1..Len(order) : heap2[Len(inners) + i] = more[i]
  <2>1. /\ heap2 \in Seq(Inner) /\ Len(heap2) = Len(inners) + Len(more)
        /\ \A j \in 1..Len(inners) : heap2[j] = inners[j]
        /\ \A i \in 1..Len(more) : heap2[Len(inners) + i] = more[i]
    <3>1. inners \in Seq(Inner) /\ more \in Seq(Inner)
      BY <1>4, <1>7
    <3> QED BY ONLY <1>8, <3>1, Concatenated
  <2> QED BY ONLY <1>7, <2>1
<1>10. /\ base2 \in Seq(URIs) /\ Len(base2) = Len(inners) + Len(order)
       /\ \A j \in 1..Len(inners) : base2[j] = base[j]
       /\ \A i \in 1..Len(order) : base2[Len(inners) + i] = order[i]
  <2>1. /\ base2 \in Seq(URIs) /\ Len(base2) = Len(base) + Len(order)
        /\ \A j \in 1..Len(base) : base2[j] = base[j]
        /\ \A i \in 1..Len(order) : base2[Len(base) + i] = order[i]
    <3>1. base \in Seq(URIs) /\ order \in Seq(URIs)
      BY <1>4, <1>5
    <3> QED BY ONLY base2 = base \o order, <3>1, Concatenated
  <2> QED BY ONLY <1>4, <2>1
<1>11. Grows(inners, base, heap2, base2)
  BY <1>4, <1>5, <1>9, <1>10 DEF Grows
<1>12. Len(heap2) \in Nat
  BY <1>4, <1>5, <1>9
<1>13. Refs(inners, base) \subseteq Refs(heap2, base2)
  <2>1. Len(inners) \in Nat
    BY <1>4
  <2> QED BY ONLY <1>11, <1>12, <2>1, RefsGrow
<1>14. ASSUME NEW j \in 1..Len(heap2)  PROVE InnerFits(heap2, base2, j)
  <2>1. CASE j \in 1..Len(inners)
    <3>1. heap2[j] = inners[j] /\ base2[j] = base[j] /\ InnerFits(inners, base, j)
      BY <1>4, <1>9, <1>10, <2>1
    <3> QED BY ONLY <1>13, <3>1 DEF InnerFits
  <2>2. CASE j \notin 1..Len(inners)
    <3>1. j - Len(inners) \in 1..Len(order) /\ j = Len(inners) + (j - Len(inners))
      BY <1>4, <1>5, <1>9, <2>2
    <3>2. heap2[j].children = << >>
      BY ONLY <1>6, <1>7, <1>9, <3>1
    <3>3. DOMAIN heap2[j].children = {}
      BY <3>2
    <3> QED BY ONLY <3>3 DEF InnerFits
  <2> QED BY <2>1, <2>2
<1>15. HeapFits(heap2, base2)
  BY <1>9, <1>10, <1>14 DEF HeapFits
<1>16. \A u \in URIs : Claims[d][s][u] # None
         /\ (\E n \in Names : Claims[d][s][u].anchors[n] # None) =>
           \E i \in DOMAIN order : order[i] = u
  BY <1>3 DEF S, stage
<1>17. \A i \in DOMAIN order :
         /\ Len(inners) + i \in 1..Len(heap2) /\ base2[Len(inners) + i] = order[i]
         /\ i \in Nat /\ order[i] \in URIs
  BY <1>4, <1>5, <1>9, <1>10
<1>18. \A i \in DOMAIN order : \A n \in Names :
         LET a == Claims[d][s][order[i]].anchors[n]
         IN a # None => /\ a.pointer \in DOMAIN heap2[Len(inners) + i].refs
                        /\ heap2[Len(inners) + i].refs[a.pointer] = a.node
  <2>1. \A i \in 1..Len(order) : heap2[Len(inners) + i] = AnchorInner(stage[order[i]])
    BY ONLY <1>7, <1>9
  <2> QED BY ONLY <1>5, <1>6, <2>1 DEF stage
<1>19. Homed(Claims[d][s], order, Len(inners), heap2, base2)
  BY ONLY <1>16, <1>17, <1>18 DEF Homed
<1> QED BY <1>11, <1>15, <1>19

LEMMA CommitFits ==
  ASSUME NEW base, HeapFits(inners, base), NEW ix \in FittingIndexes(inners, base),
         NEW doc \in URIs, NEW d \in Documents, NEW s \in Syntaxes,
         NEW order, order = Anchored(Claims[d][s]),
         NEW heap2, heap2 = inners \o Appended(Claims[d][s], order)
  PROVE  \E base2 : /\ HeapFits(heap2, base2) /\ Grows(inners, base, heap2, base2)
                    /\ Commit(ix, doc, Claims[d][s]) \in FittingIndexes(heap2, base2)
<1> DEFINE stage    == Claims[d][s]
           claimed  == {u \in URIs : stage[u] # None}
           absorbed == {u \in claimed \ {doc} : ix.owner[u] = u}
           home(u)  == Len(inners) + CHOOSE i \in DOMAIN order : order[i] = u
           anchor(u, n) ==
             LET a == stage[u].anchors[n]
             IN IF a = None THEN None
                ELSE Ref([node |-> a.node, base |-> u, pointer |-> a.pointer], home(u))
           new   == Commit(ix, doc, stage)
           base2 == base \o order
<1>1. /\ HeapFits(heap2, base2) /\ Grows(inners, base, heap2, base2)
      /\ \A u \in URIs :
           stage[u] # None /\ (\E n \in Names : stage[u].anchors[n] # None) =>
             \E i \in DOMAIN order : order[i] = u
      /\ \A i \in DOMAIN order :
           /\ Len(inners) + i \in 1..Len(heap2) /\ base2[Len(inners) + i] = order[i]
           /\ i \in Nat /\ order[i] \in URIs
           /\ \A n \in Names :
                LET a == stage[order[i]].anchors[n]
                IN a # None => /\ a.pointer \in DOMAIN heap2[Len(inners) + i].refs
                               /\ heap2[Len(inners) + i].refs[a.pointer] = a.node
  <2> HIDE DEF base2
  <2>1. base2 = base \o order
    BY DEF base2
  <2>2. /\ HeapFits(heap2, base2) /\ Grows(inners, base, heap2, base2)
        /\ Homed(Claims[d][s], order, Len(inners), heap2, base2)
    BY <2>1, AnchorsFit
  <2> QED BY ONLY <2>2 DEF stage, Homed
<1> HIDE DEF base2
<1>2. Len(inners) \in Nat /\ Len(heap2) \in Nat
  <2>1. HeapFits(heap2, base2)
    BY <1>1
  <2> QED BY ONLY <2>1, HeapFits(inners, base) DEF HeapFits
<1>3. /\ ix.documents \in DocumentsSet
      /\ ix.anchors \in [URIs -> [Names -> Refs(heap2, base2) \union {None}]]
      /\ ix.dynamic \in [URIs -> SUBSET (Names \union {Root})]
      /\ ix.owner \in [URIs -> URIs \union {None}] /\ ix.owned \in [URIs -> SUBSET URIs]
      /\ OuterFits(ix.interned, heap2, base2)
  <2>1. ix \in FittingIndexes(heap2, base2)
    BY ONLY <1>1, <1>2, ix \in FittingIndexes(inners, base), IndexesGrow
  <2> QED BY <2>1 DEF FittingIndexes
<1>4. stage \in [URIs -> Resource \union {None}]
  BY Data
<1> HIDE DEF stage
<1>5. ASSUME NEW u \in URIs, NEW i \in DOMAIN order, order[i] = u
      PROVE  /\ home(u) \in 1..Len(heap2) /\ home(u) \in Nat /\ base2[home(u)] = u
             /\ \A n \in Names :
                  LET a == stage[u].anchors[n]
                  IN a # None => /\ a.pointer \in DOMAIN heap2[home(u)].refs
                                 /\ heap2[home(u)].refs[a.pointer] = a.node
  <2> DEFINE j == CHOOSE k \in DOMAIN order : order[k] = u
  <2>1. j \in DOMAIN order /\ order[j] = u
    BY <1>5
  <2>2. home(u) = Len(inners) + j
    OBVIOUS
  <2> HIDE DEF j, home
  <2>3. home(u) \in 1..Len(heap2) /\ base2[home(u)] = u /\ home(u) \in Nat
    BY ONLY <1>1, <1>2, <1>5, <2>1, <2>2
  <2> QED BY ONLY <1>1, <1>5, <2>1, <2>2, <2>3
<1> HIDE DEF home
<1>6. ASSUME NEW u \in claimed, NEW n \in Names
      PROVE  anchor(u, n) \in Refs(heap2, base2) \union {None}
  <2> DEFINE a == stage[u].anchors[n]
             ref == Ref([node |-> a.node, base |-> u, pointer |-> a.pointer], home(u))
  <2>1. CASE a = None
    BY <2>1
  <2>2. CASE a # None
    <3>1. a \in Anchor
      BY <1>4, <1>6, <2>2 DEF Resource
    <3>2. \E i \in DOMAIN order : order[i] = u
      BY <1>1, <1>6, <2>2
    <3>3. /\ home(u) \in 1..Len(heap2) /\ home(u) \in Nat /\ base2[home(u)] = u
          /\ a.pointer \in DOMAIN heap2[home(u)].refs
          /\ heap2[home(u)].refs[a.pointer] = a.node
      BY <1>5, <1>6, <2>2, <3>2
    <3>4. ref.node = a.node /\ ref.base = u /\ ref.pointer = a.pointer /\ ref.home = home(u)
          /\ ref \in RefSet
      BY <1>6, <3>1, <3>3 DEF Ref, RefSet, Anchor
    <3>5. ref \in Refs(heap2, base2)
      <4> HIDE DEF ref
      <4> QED BY <3>3, <3>4 DEF Refs, Interned
    <3> QED BY <2>2, <3>5
  <2> QED BY <2>1, <2>2
<1>7. /\ new.documents = [u \in URIs |-> IF u \in claimed THEN stage[u].node ELSE ix.documents[u]]
      /\ new.anchors = [u \in URIs |-> IF u \in claimed THEN [n \in Names |-> anchor(u, n)]
                                       ELSE ix.anchors[u]]
      /\ new.dynamic = [u \in URIs |-> IF u \in claimed THEN stage[u].dynamic ELSE ix.dynamic[u]]
      /\ new.owner = [u \in URIs |-> IF u \in claimed THEN doc ELSE ix.owner[u]]
      /\ new.owned = [u \in URIs |-> IF u = doc THEN claimed
                                     ELSE IF u \in absorbed THEN {} ELSE ix.owned[u]]
      /\ new.interned = [u \in URIs |-> IF \E i \in DOMAIN order : order[i] = u THEN home(u)
                           ELSE IF u \in claimed THEN 0 ELSE ix.interned[u]]
  BY DEF Commit, Dropped, home, stage
<1>8. new = [documents |-> new.documents, anchors |-> new.anchors,
             dynamic |-> new.dynamic, owner |-> new.owner, owned |-> new.owned,
             interned |-> new.interned]
  BY DEF Commit
<1> HIDE DEF new, anchor
<1>9. new.documents \in DocumentsSet
  <2>1. \A u \in claimed : stage[u].node \in Nodes
    BY <1>4 DEF Resource
  <2> QED BY <1>3, <1>7, <2>1 DEF DocumentsSet
<1>10. new.anchors \in [URIs -> [Names -> Refs(heap2, base2) \union {None}]]
  <2> HIDE DEF claimed
  <2>1. \A u \in claimed : [n \in Names |-> anchor(u, n)]
                             \in [Names -> Refs(heap2, base2) \union {None}]
    BY <1>6
  <2> QED BY <1>3, <1>7, <2>1
<1>11. new.dynamic \in [URIs -> SUBSET (Names \union {Root})]
  <2>1. \A u \in claimed : stage[u].dynamic \in SUBSET (Names \union {Root})
    BY <1>4 DEF Resource
  <2> HIDE DEF claimed
  <2> QED BY <1>3, <1>7, <2>1
<1>12. new.owner \in [URIs -> URIs \union {None}] /\ new.owned \in [URIs -> SUBSET URIs]
  <2>1. claimed \subseteq URIs
    OBVIOUS
  <2> HIDE DEF claimed, absorbed
  <2> QED BY <1>3, <1>7, <2>1
<1>13. OuterFits(new.interned, heap2, base2)
  <2> HIDE DEF claimed
  <2>1. ASSUME NEW u \in URIs
        PROVE  /\ new.interned[u] \in 0..Len(heap2)
               /\ new.interned[u] # 0 => base2[new.interned[u]] = u
    <3>1. CASE \E i \in DOMAIN order : order[i] = u
      <4>1. new.interned[u] = home(u)
        BY <1>7, <3>1
      <4>2. home(u) \in 1..Len(heap2) /\ base2[home(u)] = u
        BY <1>5, <3>1
      <4> QED BY <1>2, <4>1, <4>2
    <3>2. CASE ~\E i \in DOMAIN order : order[i] = u
      <4>1. new.interned[u] = IF u \in claimed THEN 0 ELSE ix.interned[u]
        BY <1>7, <3>2
      <4> QED BY <1>2, <1>3, <4>1 DEF OuterFits
    <3> QED BY <3>1, <3>2
  <2>2. new.interned = [u \in URIs |-> new.interned[u]]
    BY <1>7
  <2> QED BY <2>1, <2>2 DEF OuterFits
<1>14. new.interned \in [URIs -> 0..Len(heap2)]
  BY <1>13 DEF OuterFits
<1>15. new \in FittingIndexes(heap2, base2)
  <2> HIDE DEF OuterFits
  <2>1. new \in [documents : DocumentsSet,
                 anchors   : [URIs -> [Names -> Refs(heap2, base2) \union {None}]],
                 dynamic   : [URIs -> SUBSET (Names \union {Root})],
                 owner     : [URIs -> URIs \union {None}],
                 owned     : [URIs -> SUBSET URIs],
                 interned  : [URIs -> 0..Len(heap2)]]
    BY ONLY <1>8, <1>9, <1>10, <1>11, <1>12, <1>14
  <2> QED BY <1>13, <2>1 DEF FittingIndexes
<1> QED BY <1>1, <1>15 DEF new, stage

\* The source changed; nothing else can tell.
Changed ==
  /\ DOMAIN registry' = DOMAIN registry /\ Source \in DOMAIN registry
  /\ Holding(Source)' \in View!Content
  /\ \A x \in DOMAIN registry : x # Source => Holding(x)' = Holding(x)
  /\ UNCHANGED answer

\* What registries hold is what RegistryViews lets them hold.
LEMMA HeldContent ==
  ASSUME NEW heap, NEW base, NEW ixs \in Seq(FittingIndexes(heap, base)),
         NEW dias \in Seq(Syntaxes), NEW me,
         me.indexes \in 1..Len(ixs), me.dialects \in 1..Len(dias)
  PROVE  Held(me, ixs, dias) \in View!Content
<1> DEFINE ix == ixs[me.indexes]
<1>1. ix \in FittingIndexes(heap, base) /\ dias[me.dialects] \in Syntaxes
  OBVIOUS
<1>2. /\ ix.documents \in [URIs -> Nodes \union {None}]
      /\ ix.anchors \in [URIs -> [Names -> Refs(heap, base) \union {None}]]
      /\ ix.dynamic \in [URIs -> SUBSET (Names \union {Root})]
  BY <1>1 DEF FittingIndexes, DocumentsSet
<1> HIDE DEF ix
<1>3. \A ref \in Refs(heap, base) \union {None} : PlaceOfRef(ref) \in Place \union {None}
  BY DEF PlaceOfRef, Refs, RefSet, Place
<1>4. [u \in URIs |-> [n \in Names |-> PlaceOfRef(ix.anchors[u][n])]]
        \in [URIs -> [Names -> Place \union {None}]]
  BY <1>2, <1>3
<1>5. Held(me, ixs, dias) =
        [documents |-> ix.documents,
         anchors   |-> [u \in URIs |-> [n \in Names |-> PlaceOfRef(ix.anchors[u][n])]],
         dynamic   |-> ix.dynamic,
         syntax    |-> dias[me.dialects]]
  BY DEF Held, ix
<1>6. View!Place = Place /\ View!Root = Root
  BY DEF Place, View!Place, Root, View!Root
<1> QED BY <1>1, <1>2, <1>4, <1>5, <1>6 DEF View!Content

\* The source's indexes are written where nobody else reads them.
LEMMA MutableFits ==
  ASSUME NEW base, InvFor(base)
  PROVE  /\ Mutable \in 1..(Len(indexes) + 1)
         /\ \A x \in DOMAIN registry : x # Source => registry[x].indexes # Mutable
<1>1. Len(indexes) \in Nat /\ Source \in DOMAIN registry
      /\ \A x \in DOMAIN registry : registry[x].indexes \in 1..Len(indexes)
  BY DEF InvFor, Registered, Typed, RegistryRecords
<1>2. CASE registry[Source].shared
  BY <1>1, <1>2 DEF Mutable
<1>3. CASE ~registry[Source].shared
  <2>1. Sharing(registry)
    BY DEF InvFor, Registered
  <2> QED BY <1>1, <1>3, <2>1 DEF Mutable, Sharing
<1> QED BY <1>2, <1>3

LEMMA RewriteFits ==
  ASSUME NEW base, InvFor(base), NEW new, Rewrite(new),
         NEW base2, HeapFits(inners', base2), Grows(inners, base, inners', base2),
         new \in FittingIndexes(inners', base2)
  PROVE  InvFor(base2)' /\ Changed
<1> DEFINE reset == ResetMemos(Source)
           reg   == registry'
           ixs   == indexes'
           tabs  == reset.tables
<1>1. /\ inners \in Seq(Inner) /\ Len(inners) \in Nat /\ Len(inners') \in Nat
      /\ indexes \in Seq(FittingIndexes(inners, base)) /\ Len(indexes) \in Nat
      /\ dialects \in Seq(Syntaxes) /\ changes \in Nat
      /\ answer.ref \in Refs(inners, base) \union {None}
      /\ Typed(registry, indexes, tables, dialects, changes)
      /\ Sharing(registry) /\ MemosOf(registry, indexes, tables, dialects)
  BY Bounds DEF InvFor, HeapFits, Registered
<1>2. /\ changes < MaxChanges /\ changes' = changes + 1
      /\ ixs = Written(indexes, Mutable, new) /\ tables' = tabs
      /\ reg = [registry EXCEPT ![Source] =
                  [reset.registry EXCEPT !.indexes = Mutable, !.shared = FALSE]]
      /\ dialects' = dialects /\ answer' = answer
  BY DEF Rewrite, Counted
<1>3. changes' \in 0..MaxChanges /\ changes' \in Nat /\ changes <= changes'
  BY <1>1, <1>2, Bounds
<1>4. Source \in DOMAIN registry /\ DOMAIN registry \subseteq Registries
      /\ \A x \in DOMAIN registry :
           /\ registry[x] \in RegistryRecords(indexes, tables, dialects)
           /\ registry[x].seen <= registry[x].generation
           /\ registry[x].generation <= changes
  BY <1>1 DEF Typed
<1>5. PICK t \in 1..Len(tabs) :
        /\ tabs \in Seq(FittingMemos(inners, base))
        /\ Len(tables) <= Len(tabs)
        /\ reset.registry = [registry[Source] EXCEPT !.tables = t, !.misses = 0]
        /\ tabs[t] = NoMemos
        /\ \A x \in DOMAIN registry : x # Source =>
             /\ registry[x].tables # t
             /\ tabs[registry[x].tables] = tables[registry[x].tables]
  BY <1>4, ResetFits
<1>6. Mutable \in 1..(Len(indexes) + 1)
      /\ \A x \in DOMAIN registry : x # Source => registry[x].indexes # Mutable
  BY MutableFits
<1>7. /\ ixs \in Seq(FittingIndexes(inners', base2))
      /\ Len(indexes) <= Len(ixs) /\ Mutable \in 1..Len(ixs) /\ ixs[Mutable] = new
      /\ \A i \in 1..Len(indexes) : i # Mutable => ixs[i] = indexes[i]
  <2>1. indexes \in Seq(FittingIndexes(inners', base2))
    <3>1. FittingIndexes(inners, base) \subseteq FittingIndexes(inners', base2)
      BY <1>1, IndexesGrow
    <3> QED BY <1>1, <3>1
  <2> DEFINE Fitting == FittingIndexes(inners', base2)
  <2>2. ixs = Written(indexes, Mutable, new) /\ new \in Fitting /\ indexes \in Seq(Fitting)
    BY <1>2, <2>1
  <2>3. Mutable \in 1..(Len(indexes) + 1)
    BY <1>6
  <2> HIDE DEF ixs, Fitting
  <2>4. WritesOnly(ixs, Fitting, indexes, Mutable, new)
    BY ONLY <2>2, <2>3, WrittenHeap
  <2>5. /\ ixs \in Seq(Fitting)
        /\ Len(indexes) <= Len(ixs) /\ Mutable \in 1..Len(ixs) /\ ixs[Mutable] = new
        /\ \A i \in 1..Len(indexes) : i # Mutable => ixs[i] = indexes[i]
    BY ONLY <2>4 DEF WritesOnly
  <2> QED BY <2>5 DEF Fitting
<1> HIDE DEF reset, tabs
<1>8. tables' \in Seq(FittingMemos(inners', base2))
  <2>1. FittingMemos(inners, base) \subseteq FittingMemos(inners', base2)
    BY <1>1, MemosGrow
  <2> QED BY <1>2, <1>5, <2>1
<1>9. answer'.ref \in Refs(inners', base2) \union {None}
  BY <1>1, <1>2, RefsGrow
<1>10. /\ reg[Source] = [registry[Source] EXCEPT !.tables = t, !.misses = 0,
                                                 !.indexes = Mutable, !.shared = FALSE]
       /\ DOMAIN reg = DOMAIN registry /\ reg = [x \in DOMAIN reg |-> reg[x]]
       /\ \A x \in DOMAIN registry : x # Source => reg[x] = registry[x]
  <2>1. registry = [x \in DOMAIN registry |-> registry[x]]
    BY <1>1 DEF Typed
  <2> QED BY <1>2, <1>4, <1>5, <2>1
<1>11. /\ reg[Source] \in RegistryRecords(ixs, tabs, dialects)
       /\ reg[Source].tables = t /\ reg[Source].indexes = Mutable
       /\ reg[Source].dialects = registry[Source].dialects
       /\ reg[Source].dialectsShared = registry[Source].dialectsShared
       /\ reg[Source].seen = registry[Source].seen
       /\ reg[Source].generation = registry[Source].generation
  <2>1. /\ t \in 1..Len(tabs) /\ Mutable \in 1..Len(ixs) /\ Len(indexes) <= Len(ixs)
        /\ 0 \in 0..MaxMisses
    BY <1>5, <1>7, Bounds
  <2>2. registry[Source] \in RegistryRecords(indexes, tables, dialects)
    BY <1>4
  <2>3. reg[Source] = [registry[Source] EXCEPT !.tables = t, !.misses = 0,
                                               !.indexes = Mutable, !.shared = FALSE]
    BY <1>10
  <2> HIDE DEF reg, ixs
  <2> QED BY ONLY <2>1, <2>2, <2>3 DEF RegistryRecords
<1>12. \A x \in DOMAIN reg :
         /\ reg[x] \in RegistryRecords(ixs, tabs, dialects)
         /\ reg[x].seen = registry[x].seen /\ reg[x].generation = registry[x].generation
         /\ reg[x].dialects = registry[x].dialects
         /\ reg[x].dialectsShared = registry[x].dialectsShared
  <2>1. RegistryRecords(indexes, tables, dialects) \subseteq RegistryRecords(ixs, tabs, dialects)
    <3>1. Len(indexes) <= Len(ixs) /\ Len(tables) <= Len(tabs)
      BY <1>5, <1>7
    <3>2. /\ Len(indexes) \in Nat /\ Len(ixs) \in Nat /\ Len(tables) \in Nat /\ Len(tabs) \in Nat
      BY <1>1, <1>5, <1>7
    <3>3. 1..Len(indexes) \subseteq 1..Len(ixs) /\ 1..Len(tables) \subseteq 1..Len(tabs)
      BY ONLY <3>1, <3>2
    <3> QED BY ONLY <3>3 DEF RegistryRecords
  <2> HIDE DEF reg, ixs
  <2> QED BY <1>4, <1>10, <1>11, <2>1
<1>13. Typed(reg, ixs, tabs, dialects, changes')
  <2>1. \A x \in DOMAIN reg : reg[x].seen <= reg[x].generation
                              /\ reg[x].generation <= changes'
    <3> SUFFICES ASSUME NEW x \in DOMAIN reg
                 PROVE  reg[x].seen <= reg[x].generation /\ reg[x].generation <= changes'
      OBVIOUS
    <3>1. /\ registry[x].seen <= registry[x].generation /\ registry[x].generation <= changes
          /\ registry[x].generation \in Nat
      BY <1>4, <1>10 DEF RegistryRecords
    <3> HIDE DEF reg
    <3> QED BY <1>1, <1>3, <1>12, <3>1
  <2> QED BY <1>4, <1>10, <1>12, <2>1 DEF Typed
<1>14. Sharing(reg)
  <2> HIDE DEF reg
  <2> QED BY <1>1, <1>6, <1>10, <1>11, <1>12 DEF Sharing, UpToDate
<1>15. \A x \in DOMAIN registry : x # Source =>
         Held(reg[x], ixs, dialects) = Held(registry[x], indexes, dialects)
  <2>1. \A x \in DOMAIN registry : registry[x].indexes \in 1..Len(indexes)
    BY <1>4 DEF RegistryRecords
  <2> HIDE DEF reg, ixs
  <2> QED BY <1>6, <1>7, <1>10, <2>1 DEF Held
<1>16. MemosOf(reg, ixs, tabs, dialects)
  <2> HIDE DEF reg, ixs
  <2> SUFFICES ASSUME NEW x \in DOMAIN reg, UpToDate(reg[x])
               PROVE  /\ CurrentMemos(tabs[reg[x].tables], Held(reg[x], ixs, dialects))
                      /\ \A y \in DOMAIN reg :
                           UpToDate(reg[y]) /\ reg[y].tables = reg[x].tables =>
                             Held(reg[y], ixs, dialects) = Held(reg[x], ixs, dialects)
    BY DEF MemosOf
  <2>1. CASE x = Source
    <3>1. CurrentMemos(tabs[reg[x].tables], Held(reg[x], ixs, dialects))
      BY <1>5, <1>11, <2>1, NoMemosFit
    <3>2. \A y \in DOMAIN reg : reg[y].tables = reg[x].tables => y = x
      BY <1>5, <1>10, <1>11, <2>1
    <3> QED BY <3>1, <3>2
  <2>2. CASE x # Source
    <3>1. CurrentMemos(tabs[reg[x].tables], Held(reg[x], ixs, dialects))
      BY <1>1, <1>5, <1>10, <1>15, <2>2 DEF MemosOf
    <3>2. \A y \in DOMAIN reg : reg[y].tables = reg[x].tables => y # Source
      BY <1>5, <1>10, <1>11, <2>2
    <3> QED BY <1>1, <1>10, <1>15, <2>2, <3>1, <3>2 DEF MemosOf
  <2> QED BY <2>1, <2>2
<1>17. InvFor(base2)'
  <2>1. Registered(reg, ixs, tables', dialects', changes')
    BY <1>2, <1>13, <1>14, <1>16 DEF Registered
  <2> QED BY <1>1, <1>2, <1>3, <1>7, <1>8, <1>9, <2>1 DEF InvFor
<1>18. \A x : Holding(x)' = Held(reg[x], ixs, dialects)
  BY <1>2 DEF Holding, Held
<1>19. Holding(Source)' \in View!Content
  <2>1. reg[Source].indexes \in 1..Len(ixs) /\ reg[Source].dialects \in 1..Len(dialects)
    BY <1>11 DEF RegistryRecords
  <2> HIDE DEF reg, ixs
  <2> QED BY <1>1, <1>7, <1>18, <2>1, HeldContent
<1> QED BY <1>2, <1>4, <1>10, <1>15, <1>17, <1>18, <1>19, HoldingIsHeld DEF Changed

LEMMA RegisterStep ==
  ASSUME Inv, NEW d \in Documents, Register(d)
  PROVE  Inv' /\ Changed
<1>1. PICK base : InvFor(base)
  BY DEF Inv
<1> DEFINE ix    == indexes[registry[Source].indexes]
           doc   == RootURI[d]
           s     == dialects[registry[Source].dialects]
           stage == Claims[d][s]
           order == Anchored(stage)
           from  == IF ix.owner[doc] = doc THEN Evict(ix, doc) ELSE ix
           new   == Commit(from, doc, stage)
<1>2. Rewrite(new) /\ inners' = inners \o Appended(stage, order)
  BY DEF Register, Appended
<1>3. Source \in DOMAIN registry /\ HeapFits(inners, base)
  BY <1>1 DEF InvFor, Registered, Typed
<1>4. ix \in FittingIndexes(inners, base) /\ s \in Syntaxes /\ doc \in URIs
  BY <1>1, <1>3, InUse, Data
<1> HIDE DEF ix, s, doc
<1>5. from \in FittingIndexes(inners, base)
  BY <1>4, EvictFits
<1> HIDE DEF from
<1>6. \E base2 : /\ HeapFits(inners', base2) /\ Grows(inners, base, inners', base2)
                 /\ new \in FittingIndexes(inners', base2)
  <2>1. order = Anchored(Claims[d][s]) /\ inners' = inners \o Appended(Claims[d][s], order)
    BY <1>2
  <2> HIDE DEF order
  <2> QED BY <1>3, <1>4, <1>5, <2>1, CommitFits
<1>7. PICK base2 : /\ HeapFits(inners', base2) /\ Grows(inners, base, inners', base2)
                   /\ new \in FittingIndexes(inners', base2)
  BY <1>6
<1> HIDE DEF new, stage, order
<1>8. InvFor(base2)' /\ Changed
  BY <1>1, <1>2, <1>7, RewriteFits
<1> QED BY <1>8 DEF Inv

LEMMA UnregisterStep ==
  ASSUME Inv, NEW doc \in URIs, Unregister(doc)
  PROVE  Inv' /\ Changed
<1>1. PICK base : InvFor(base)
  BY DEF Inv
<1> DEFINE new == Evict(indexes[registry[Source].indexes], doc)
<1>2. Rewrite(new) /\ inners' = inners
  BY DEF Unregister
<1>3. Source \in DOMAIN registry /\ HeapFits(inners, base) /\ Len(inners) \in Nat
  BY <1>1 DEF InvFor, HeapFits, Registered, Typed
<1>4. new \in FittingIndexes(inners, base)
  <2>1. indexes[registry[Source].indexes] \in FittingIndexes(inners, base)
    BY <1>1, <1>3, InUse
  <2> QED BY <2>1, EvictFits
<1>5. Grows(inners, base, inners, base)
  BY <1>3 DEF Grows
<1> HIDE DEF new
<1>6. InvFor(base)' /\ Changed
  BY <1>1, <1>2, <1>3, <1>4, <1>5, RewriteFits
<1> QED BY <1>6 DEF Inv

LEMMA RegisterDialectStep ==
  ASSUME Inv, NEW s \in Syntaxes, NEW assembled \in BOOLEAN, RegisterDialect(s, assembled)
  PROVE  Inv' /\ Changed
<1>1. PICK base : InvFor(base)
  BY DEF Inv
<1> DEFINE me   == registry[Source]
           to   == IF me.dialectsShared THEN Len(dialects) + 1 ELSE me.dialects
           dia  == IF assembled THEN s ELSE dialects[me.dialects]
           reg  == registry'
           dias == dialects'
<1>2. /\ changes < MaxChanges /\ changes' = changes + 1
      /\ dias = Written(dialects, to, dia)
      /\ reg = [registry EXCEPT ![Source] =
                  [me EXCEPT !.dialects = to, !.dialectsShared = FALSE,
                             !.generation = me.generation + 1]]
      /\ indexes' = indexes /\ inners' = inners /\ tables' = tables /\ answer' = answer
  <2>1. /\ changes < MaxChanges /\ changes' = changes + 1
        /\ dialects' = Written(dialects, to, dia)
        /\ indexes' = indexes /\ inners' = inners /\ tables' = tables /\ answer' = answer
    BY DEF RegisterDialect, Counted
  <2>2. registry' = [registry EXCEPT ![Source] =
                       [registry[Source] EXCEPT !.dialects = to, !.dialectsShared = FALSE,
                                !.generation = registry[Source].generation + 1]]
    BY DEF RegisterDialect
  <2> QED BY <2>1, <2>2
<1>3. /\ dialects \in Seq(Syntaxes) /\ Len(dialects) \in Nat
      /\ Typed(registry, indexes, tables, dialects, changes)
      /\ Sharing(registry) /\ MemosOf(registry, indexes, tables, dialects)
      /\ changes \in Nat
  BY <1>1, Bounds DEF InvFor, Registered
<1>4. changes' \in 0..MaxChanges /\ changes' \in Nat
  BY <1>2, <1>3, Bounds
<1>5. /\ registry = [x \in DOMAIN registry |-> registry[x]]
      /\ Source \in DOMAIN registry /\ DOMAIN registry \subseteq Registries
      /\ \A x \in DOMAIN registry :
           /\ registry[x] \in RegistryRecords(indexes, tables, dialects)
           /\ registry[x].dialects \in 1..Len(dialects)
           /\ registry[x].generation \in Nat /\ registry[x].seen \in Nat
           /\ registry[x].seen <= registry[x].generation
           /\ registry[x].generation <= changes
  BY <1>3 DEF Typed, RegistryRecords
<1>6. /\ to \in 1..(Len(dialects) + 1) /\ dia \in Syntaxes
      /\ \A x \in DOMAIN registry : x # Source => registry[x].dialects # to
  <2>1. me.dialects \in 1..Len(dialects)
    BY <1>5
  <2>2. CASE me.dialectsShared
    BY <1>3, <1>5, <2>1, <2>2
  <2>3. CASE ~me.dialectsShared
    BY <1>3, <1>5, <2>1, <2>3 DEF Sharing
  <2> QED BY <2>2, <2>3
<1> HIDE DEF to, dia
<1>7. /\ dias \in Seq(Syntaxes)
      /\ Len(dialects) <= Len(dias) /\ to \in 1..Len(dias)
      /\ \A i \in 1..Len(dialects) : i # to => dias[i] = dialects[i]
  <2>1. dialects \in Seq(Syntaxes) /\ to \in 1..(Len(dialects) + 1) /\ dia \in Syntaxes
    BY <1>3, <1>6
  <2>2. dias = Written(dialects, to, dia)
    BY <1>2
  <2> HIDE DEF dias
  <2>3. WritesOnly(dias, Syntaxes, dialects, to, dia)
    BY ONLY <2>1, <2>2, WrittenHeap
  <2> QED BY ONLY <2>3 DEF WritesOnly
<1> HIDE DEF dias
<1>8. /\ reg[Source] = [me EXCEPT !.dialects = to, !.dialectsShared = FALSE,
                                  !.generation = me.generation + 1]
      /\ DOMAIN reg = DOMAIN registry /\ reg = [x \in DOMAIN reg |-> reg[x]]
      /\ \A x \in DOMAIN registry : x # Source => reg[x] = registry[x]
  BY <1>2, <1>5
<1> HIDE DEF reg
<1>9. /\ reg[Source] \in RegistryRecords(indexes, tables, dias)
      /\ reg[Source].indexes = me.indexes /\ reg[Source].shared = me.shared
      /\ reg[Source].dialects = to /\ reg[Source].dialectsShared = FALSE
      /\ reg[Source].seen = me.seen /\ reg[Source].generation = me.generation + 1
  <2>1. me \in RegistryRecords(indexes, tables, dialects)
    BY <1>5
  <2>2. me.generation + 1 \in Nat /\ to \in 1..Len(dias)
    BY <1>5, <1>7
  <2> HIDE DEF me
  <2> QED BY ONLY <1>8, <2>1, <2>2 DEF RegistryRecords
<1>10. ~UpToDate(reg[Source])
  BY <1>5, <1>9 DEF UpToDate
<1>11. Typed(reg, indexes, tables, dias, changes')
  <2>1. RegistryRecords(indexes, tables, dialects) \subseteq RegistryRecords(indexes, tables, dias)
    BY <1>3, <1>7 DEF RegistryRecords
  <2>2. ASSUME NEW x \in DOMAIN reg
        PROVE  /\ reg[x] \in RegistryRecords(indexes, tables, dias)
               /\ reg[x].seen <= reg[x].generation /\ reg[x].generation <= changes'
    <3>1. CASE x = Source
      <4>1. /\ me.generation \in Nat /\ me.seen \in Nat
            /\ me.seen <= me.generation /\ me.generation <= changes
        BY <1>5
      <4> HIDE DEF me
      <4> QED BY ONLY <1>2, <1>3, <1>9, <3>1, <4>1
    <3>2. CASE x # Source
      <4>1. reg[x] = registry[x] /\ x \in DOMAIN registry
        BY <1>8, <2>2, <3>2
      <4>2. registry[x].generation <= changes' /\ registry[x].seen <= registry[x].generation
        BY <1>2, <1>3, <1>5, <4>1
      <4> QED BY <1>5, <2>1, <4>1, <4>2
    <3> QED BY <3>1, <3>2
  <2> QED BY <1>5, <1>8, <2>2 DEF Typed
<1>12. Sharing(reg)
  BY <1>3, <1>6, <1>8, <1>9 DEF Sharing
<1>13. \A x \in DOMAIN registry : x # Source =>
         Held(reg[x], indexes, dias) = Held(registry[x], indexes, dialects)
  BY <1>5, <1>6, <1>7, <1>8 DEF Held
<1>14. MemosOf(reg, indexes, tables, dias)
  BY <1>3, <1>8, <1>10, <1>13 DEF MemosOf
<1>15. InvFor(base)'
  <2>1. Registered(reg, indexes, tables, dias, changes')
    BY <1>11, <1>12, <1>14 DEF Registered
  <2>2. dialects' \in Seq(Syntaxes) /\ Registered(registry', indexes', tables', dialects', changes')
    BY <1>2, <1>7, <2>1 DEF reg, dias
  <2> QED BY ONLY <1>1, <1>2, <1>4, <2>2 DEF InvFor
<1>16. \A x : Holding(x)' = Held(reg[x], indexes, dias)
  BY <1>2 DEF Holding, Held, reg, dias
<1>17. Holding(Source)' \in View!Content
  <2>1. reg[Source].indexes \in 1..Len(indexes) /\ reg[Source].dialects \in 1..Len(dias)
    BY <1>9 DEF RegistryRecords
  <2>2. indexes \in Seq(FittingIndexes(inners, base))
    BY <1>1 DEF InvFor
  <2> QED BY <1>7, <1>16, <2>1, <2>2, HeldContent
<1>18. DOMAIN registry' = DOMAIN registry
  BY <1>8 DEF reg
<1> QED BY <1>2, <1>5, <1>13, <1>15, <1>16, <1>17, <1>18, HoldingIsHeld DEF Changed, Inv

-----------------------------------------------------------------------------
(* The theorems.                                                            *)

LEMMA InitInv == Init => Inv
<1> SUFFICES ASSUME Init PROVE Inv
  OBVIOUS
<1> DEFINE base == << >>
           me   == [indexes |-> 1, tables |-> 1, shared |-> FALSE, misses |-> 0, seen |-> 0,
                    dialects |-> 1, dialectsShared |-> FALSE, generation |-> 0]
<1>1. PICK s \in Syntaxes : dialects = <<s>>
  BY DEF Init
<1>2. /\ indexes = <<NoIndexes>> /\ inners = << >> /\ tables = <<NoMemos>>
      /\ registry = [r \in {Source} |-> me] /\ answer = NoReply /\ changes = 0
  BY DEF Init
<1>3. HeapFits(inners, base)
  BY <1>2 DEF HeapFits
<1>4. NoIndexes \in FittingIndexes(inners, base)
  <2>1. OuterFits(NoIndexes.interned, inners, base)
    BY <1>2 DEF NoIndexes, OuterFits
  <2>2. NoIndexes \in [documents : DocumentsSet,
           anchors   : [URIs -> [Names -> Refs(inners, base) \union {None}]],
           dynamic   : [URIs -> SUBSET (Names \union {Root})],
           owner     : [URIs -> URIs \union {None}],
           owned     : [URIs -> SUBSET URIs],
           interned  : [URIs -> 0..Len(inners)]]
    BY <1>2 DEF NoIndexes, DocumentsSet
  <2> QED BY <2>1, <2>2 DEF FittingIndexes
<1>5. NoMemos \in FittingMemos(inners, base) /\ \A held : CurrentMemos(NoMemos, held)
  BY NoMemosFit
<1>6. /\ indexes \in Seq(FittingIndexes(inners, base)) /\ Len(indexes) = 1
      /\ tables \in Seq(FittingMemos(inners, base)) /\ Len(tables) = 1 /\ tables[1] = NoMemos
      /\ dialects \in Seq(Syntaxes) /\ Len(dialects) = 1
  BY <1>1, <1>2, <1>4, <1>5
<1>7. answer.ref \in Refs(inners, base) \union {None} /\ changes \in 0..MaxChanges
  BY <1>2, Bounds DEF NoReply
<1>8. DOMAIN registry = {Source} /\ registry[Source] = me /\ registry = [x \in {Source} |-> registry[x]]
  BY <1>2
<1>9. Registered(registry, indexes, tables, dialects, changes)
  <2>1. me \in RegistryRecords(indexes, tables, dialects)
    BY <1>6, Bounds DEF RegistryRecords
  <2>2. Typed(registry, indexes, tables, dialects, changes)
    BY <1>2, <1>8, <2>1 DEF Typed, Registries
  <2>3. Sharing(registry)
    BY <1>8 DEF Sharing
  <2>4. MemosOf(registry, indexes, tables, dialects)
    BY <1>5, <1>6, <1>8 DEF MemosOf
  <2> QED BY <2>2, <2>3, <2>4 DEF Registered
<1>10. InvFor(base)
  BY <1>3, <1>6, <1>7, <1>9 DEF InvFor
<1> QED BY <1>10 DEF Inv

\* What a step does, seen by the readers of the registries.
Seen ==
  \/ Changed
  \/ \E r \in Registries, v \in Views : Taken(r, v)
  \/ Frame /\ \E r \in Registries, q \in Queries \union {RootOf(u) : u \in URIs} : Asked(r, q)
  \/ Frame /\ \E r \in Registries, seg \in Segments : AskedBelow(r, seg)

LEMMA NextStep ==
  ASSUME Inv, Next
  PROVE  Inv' /\ Seen
<1>1. CASE \E r \in Registries, v \in Views : Snapshot(r, v)
  BY <1>1, SnapshotStep DEF Seen
<1>2. CASE \E d \in Documents : Register(d)
  BY <1>2, RegisterStep DEF Seen
<1>3. CASE \E u \in URIs : Unregister(u)
  BY <1>3, UnregisterStep DEF Seen
<1>4. CASE \E s \in Syntaxes, assembled \in BOOLEAN : RegisterDialect(s, assembled)
  BY <1>4, RegisterDialectStep DEF Seen
<1>5. CASE \E r \in Registries, q \in Queries : ResolveRef(r, q)
  BY <1>5, ResolveRefStep DEF Seen
<1>6. CASE \E r \in Registries, u \in URIs : RootRef(r, u)
  BY <1>6, RootRefStep DEF Seen
<1>7. CASE \E r \in Registries, q \in Scoped : ScopedReference(r, q)
  BY <1>7, ScopedReferenceStep, Data DEF Seen
<1>8. CASE \E r \in Registries, seg \in Segments : Child(r, seg)
  BY <1>8, ChildStep DEF Seen
<1> QED BY <1>1, <1>2, <1>3, <1>4, <1>5, <1>6, <1>7, <1>8 DEF Next

LEMMA Stuttering == Inv /\ UNCHANGED vars => Inv'
<1> SUFFICES ASSUME Inv, UNCHANGED vars PROVE Inv'
  OBVIOUS
<1>1. PICK base : InvFor(base)
  BY DEF Inv
<1>2. InvFor(base)'
  BY <1>1 DEF InvFor, vars
<1> QED BY <1>2 DEF Inv

LEMMA InvType == Inv => TypeOK
<1> SUFFICES ASSUME NEW base, InvFor(base) PROVE TypeOK
  BY DEF Inv
<1>1. Refs(inners, base) \subseteq RefSet
  BY DEF Refs
<1>2. indexes \in Seq(IndexesSet)
  <2>1. FittingIndexes(inners, base) \subseteq IndexesSet
    BY <1>1 DEF FittingIndexes, IndexesSet, DocumentsSet
  <2> QED BY <2>1 DEF InvFor
<1>3. tables \in Seq(TablesSet)
  <2>1. [ref : Refs(inners, base), rebinds : BOOLEAN] \subseteq Memo
    BY <1>1 DEF Memo
  <2>2. FittingMemos(inners, base) \subseteq TablesSet
    BY <1>1, <2>1 DEF FittingMemos, TablesSet
  <2> QED BY <2>2 DEF InvFor
<1>4. ASSUME NEW i \in DOMAIN inners  PROVE IsInner(inners[i])
  <2>1. inners[i] \in Inner /\ InnerFits(inners, base, i)
    BY DEF InvFor, HeapFits
  <2>2. inners[i].refs \in Maps(Seq(Segments), Nodes)
        /\ inners[i].children \in Maps(Seq(Segments), Kid)
    BY <2>1 DEF Inner
  <2>3. \A p \in DOMAIN inners[i].refs : p \in Seq(Segments) /\ inners[i].refs[p] \in Nodes
    BY <2>2 DEF Maps
  <2>4. \A p \in DOMAIN inners[i].children : inners[i].children[p] \in Kid
    BY <2>2 DEF Maps
  <2>5. ASSUME NEW p \in DOMAIN inners[i].children
        PROVE  /\ inners[i].children[p].by \in Syntaxes
               /\ \A seg \in DOMAIN inners[i].children[p].at :
                    inners[i].children[p].at[seg] \in RefSet
    BY <2>4 DEF Kid, Maps
  <2>6. DOMAIN inners[i].children \subseteq DOMAIN inners[i].refs
    BY <2>1 DEF InnerFits
  <2> QED BY <2>3, <2>5, <2>6 DEF IsInner
<1>5. Typed(registry, indexes, tables, dialects, changes) /\ changes \in 0..MaxChanges
  BY DEF InvFor, Registered
<1>6. ASSUME NEW r \in DOMAIN registry
      PROVE  /\ registry[r] \in [indexes : DOMAIN indexes, tables : DOMAIN tables,
                           shared : BOOLEAN, misses : 0..MaxMisses, seen : 0..MaxChanges,
                           dialects : DOMAIN dialects, dialectsShared : BOOLEAN,
                           generation : 0..MaxChanges]
             /\ registry[r].seen <= registry[r].generation
  <2>1. /\ registry[r] \in RegistryRecords(indexes, tables, dialects)
        /\ registry[r].seen <= registry[r].generation /\ registry[r].generation <= changes
    BY <1>5 DEF Typed
  <2>2. DOMAIN indexes = 1..Len(indexes) /\ DOMAIN tables = 1..Len(tables)
        /\ DOMAIN dialects = 1..Len(dialects)
    BY DEF InvFor
  <2>3. registry[r].seen \in 0..MaxChanges /\ registry[r].generation \in 0..MaxChanges
    <3>1. registry[r].seen \in Nat /\ registry[r].generation \in Nat
      BY <2>1 DEF RegistryRecords
    <3> QED BY <1>5, <2>1, <3>1, Bounds
  <2> QED BY <2>1, <2>2, <2>3 DEF RegistryRecords
<1>7. Source \in DOMAIN registry /\ DOMAIN registry \subseteq Registries
  BY <1>5 DEF Typed
<1>8. dialects \in Seq(Syntaxes) /\ answer.ref \in RefSet \union {None}
  BY <1>1 DEF InvFor
<1> QED BY <1>2, <1>3, <1>4, <1>6, <1>7, <1>8 DEF TypeOK

LEMMA InvMemos == Inv => MemosAreCurrent
<1> SUFFICES ASSUME NEW base, InvFor(base), NEW r \in DOMAIN registry,
                    registry[r].seen = registry[r].generation
             PROVE  CurrentMemos(tables[registry[r].tables], Holding(r))
  BY DEF Inv, MemosAreCurrent, CurrentMemos
<1>1. MemosOf(registry, indexes, tables, dialects)
  BY DEF InvFor, Registered
<1> QED BY <1>1, HoldingIsHeld DEF MemosOf, UpToDate

\* The invariant holds of the specification.
LEMMA Invariance == Spec => []Inv
<1>1. Inv /\ [Next]_vars => Inv'
  BY NextStep, Stuttering
<1> QED BY InitInv, <1>1, PTL DEF Spec

\* Every registry uses maps that are there, and everything in the maps is well
\* formed: in particular only a ref that is interned has children.
THEOREM SnapshotsTypeCorrect == Spec => []TypeOK
BY Invariance, InvType, PTL

\* However registrations, snapshots and lookups interleave over the shared
\* maps, no memo outlives the contents it was made from.
THEOREM SnapshotMemosCurrent == Spec => []MemosAreCurrent
BY Invariance, InvMemos, PTL

-----------------------------------------------------------------------------
(* The refinement.                                                          *)

Contents == [r \in DOMAIN registry |-> Holding(r)]
Answered == [registry |-> answer.registry, asked |-> answer.asked,
             place |-> PlaceOfRef(answer.ref), rebinds |-> answer.rebinds]

LEMMA ContentsSame ==
  ASSUME Frame
  PROVE  Contents' = Contents
BY DEF Frame, Contents

LEMMA InitRefines == Init => View!ViewInit
<1> SUFFICES ASSUME Init PROVE View!ViewInit
  OBVIOUS
<1>1. PICK s \in Syntaxes : dialects = <<s>>
  BY DEF Init
<1>2. indexes = <<NoIndexes>> /\ answer = NoReply
      /\ DOMAIN registry = {Source}
      /\ registry[Source].indexes = 1 /\ registry[Source].dialects = 1
  BY DEF Init
<1>3. Holding(Source) =
        [documents |-> [u \in URIs |-> None],
         anchors   |-> [u \in URIs |-> [n \in Names |-> None]],
         dynamic   |-> [u \in URIs |-> {}],
         syntax    |-> s]
  <2>1. PlaceOfRef(None) = None
    BY DEF PlaceOfRef
  <2>2. indexes[1] = NoIndexes /\ dialects[1] = s
    BY <1>1, <1>2
  <2>3. \A u \in URIs, n \in Names : NoIndexes.anchors[u][n] = None
    BY DEF NoIndexes
  <2>4. [u \in URIs |-> [n \in Names |-> PlaceOfRef(NoIndexes.anchors[u][n])]]
          = [u \in URIs |-> [n \in Names |-> None]]
    BY <2>1, <2>3
  <2>5. NoIndexes.documents = [u \in URIs |-> None] /\ NoIndexes.dynamic = [u \in URIs |-> {}]
    BY DEF NoIndexes
  <2> QED BY <1>2, <2>2, <2>4, <2>5 DEF Holding
<1>4. Contents = [r \in {Source} |-> Holding(Source)]
  BY <1>2 DEF Contents
<1>5. Answered = View!NoReply
  BY <1>2 DEF Answered, NoReply, View!NoReply, View!Reply, PlaceOfRef
<1> QED BY <1>3, <1>4, <1>5 DEF View!ViewInit, Contents, Answered

LEMMA ChangeRefines ==
  ASSUME Changed
  PROVE  View!Change
<1>1. Contents'[Source] = Holding(Source)' /\ Contents'[Source] \in View!Content
  BY DEF Changed, Contents
<1>2. Contents' = [Contents EXCEPT ![Source] = Contents'[Source]]
  BY DEF Changed, Contents
<1>3. Answered' = Answered
  BY DEF Changed, Answered
<1> QED BY <1>1, <1>2, <1>3 DEF View!Change, Contents, Answered

LEMMA TakeRefines ==
  ASSUME NEW r, NEW v, Taken(r, v)
  PROVE  View!Take(r, v)
<1>1. r \in DOMAIN Contents /\ v \in Views \ DOMAIN Contents
  BY DEF Taken, Contents
<1>2. Contents' = [x \in DOMAIN Contents \union {v} |->
                     IF x = v THEN Contents[r] ELSE Contents[x]]
  <2>1. DOMAIN registry' = DOMAIN registry \union {v}
    BY DEF Taken
  <2>2. \A x \in DOMAIN registry \union {v} :
          Holding(x)' = IF x = v THEN Contents[r] ELSE Contents[x]
    BY <2>1 DEF Taken, Contents
  <2> QED BY <2>1, <2>2 DEF Contents
<1>3. Answered' = Answered
  BY DEF Taken, Answered
<1> QED BY <1>1, <1>2, <1>3 DEF View!Take, Contents, Answered

LEMMA AskRefines ==
  ASSUME Inv', Frame, NEW r, NEW q, Asked(r, q)
  PROVE  View!Ask(r, q)
<1> DEFINE place == View!Locate(Contents[r], q)
           dynamic == q.fragment \in Contents[r].dynamic[q.resource]
<1>1. r \in DOMAIN Contents /\ Contents[r] = Holding(r)
  BY DEF Asked, Contents
<1>2. Answered' = [registry |-> r, asked |-> q, place |-> place, rebinds |-> answer'.rebinds]
  BY <1>1 DEF Asked, Answered, PlaceOfRef
<1>3. answer'.ref # None => place # None
  <2>1. answer'.ref \in RefSet \union {None}
    <3>1. PICK base : InvFor(base)'
      BY DEF Inv
    <3> QED BY <3>1 DEF InvFor, Refs
  <2>2. place = PlaceOfRef(answer'.ref)
    BY <1>1 DEF Asked
  <2>3. \A ref \in RefSet : PlaceOfRef(ref) \in Place
    BY Absence DEF PlaceOfRef, RefSet, Place
  <2> QED BY <2>1, <2>2, <2>3, Absence
<1>4. \E scoped \in BOOLEAN : answer'.rebinds = (scoped /\ place # None /\ dynamic)
  <2>1. CASE answer'.rebinds = FALSE
    <3>1. answer'.rebinds = (FALSE /\ place # None /\ dynamic)
      BY <2>1
    <3> QED BY <3>1
  <2>2. CASE answer'.ref # None /\ answer'.rebinds = dynamic
    <3>1. answer'.rebinds = (TRUE /\ place # None /\ dynamic)
      BY <1>3, <2>2
    <3> QED BY <3>1
  <2> QED BY <1>1, <2>1, <2>2 DEF Asked
<1>5. Contents' = Contents
  BY ContentsSame
<1> QED BY <1>1, <1>2, <1>4, <1>5 DEF View!Ask, View!Reply, Contents, Answered

LEMMA AskBelowRefines ==
  ASSUME Inv, Frame, NEW r, NEW seg, AskedBelow(r, seg)
  PROVE  View!AskBelow(r, seg)
<1>1. r \in DOMAIN Contents /\ Contents[r] = Holding(r)
  BY DEF AskedBelow, Contents
<1>2. Answered.place = PlaceOfRef(answer.ref) /\ Answered.place # None
  <2>1. answer.ref \in RefSet
    <3>1. PICK base : InvFor(base)
      BY DEF Inv
    <3> QED BY <3>1 DEF InvFor, Refs, AskedBelow
  <2>2. PlaceOfRef(answer.ref) \in Place
    BY <2>1, Absence DEF PlaceOfRef, RefSet, Place
  <2> QED BY <2>2, Absence DEF Answered
<1>3. Answered' = [registry |-> r, asked |-> None,
                   place |-> View!Below(Contents[r], Answered.place, seg), rebinds |-> FALSE]
  BY <1>1, <1>2 DEF AskedBelow, Answered
<1>4. Contents' = Contents
  BY ContentsSame
<1> QED BY <1>1, <1>2, <1>3, <1>4 DEF View!AskBelow, View!Reply, Contents, Answered

LEMMA NextRefines ==
  ASSUME Inv, Inv', [Next]_vars
  PROVE  [View!ViewNext]_(View!viewVars)
<1>1. CASE UNCHANGED vars
  <2>1. Contents' = Contents /\ Answered' = Answered
    BY <1>1 DEF vars, Contents, Holding, Answered
  <2> QED BY <2>1 DEF View!viewVars, Contents, Answered
<1>2. CASE Next
  <2>1. Seen
    BY <1>2, NextStep
  <2>2. CASE Changed
    BY <2>2, ChangeRefines DEF View!ViewNext
  <2>3. CASE \E r \in Registries, v \in Views : Taken(r, v)
    BY <2>3, TakeRefines DEF View!ViewNext, View!Registries, Registries
  <2>4. CASE Frame /\ \E r \in Registries, q \in Queries \union {RootOf(u) : u \in URIs} :
               Asked(r, q)
    <3>1. \A u : View!RootOf(u) = RootOf(u)
      BY DEF RootOf, View!RootOf, Root, View!Root
    <3>2. PICK r \in Registries, q \in Queries \union {RootOf(u) : u \in URIs} : Asked(r, q)
      BY <2>4
    <3>3. View!Ask(r, q)
      BY <2>4, <3>2, AskRefines
    <3>4. r \in View!Registries
      BY DEF View!Registries, Registries
    <3>5. q \in Queries \union {View!RootOf(u) : u \in URIs}
      BY <3>1
    <3> QED BY <3>3, <3>4, <3>5 DEF View!ViewNext
  <2>5. CASE Frame /\ \E r \in Registries, seg \in Segments : AskedBelow(r, seg)
    BY <2>5, AskBelowRefines DEF View!ViewNext, View!Registries, Registries
  <2> QED BY <2>1, <2>2, <2>3, <2>4, <2>5 DEF Seen
<1> QED BY <1>1, <1>2

\* The registry and its snapshots implement RegistryViews: nothing one of them
\* writes to what they share shows through in another, and every lookup
\* answers what the asked registry holds now, as if nothing were memoized.
THEOREM SnapshotsAreFrozen == Spec => ViewsAreFrozen
<1>1. Inv /\ Inv' /\ [Next]_vars => [View!ViewNext]_(View!viewVars)
  BY NextRefines
<1> QED BY InitRefines, Invariance, <1>1, PTL DEF Spec, ViewsAreFrozen, View!ViewSpec
=============================================================================

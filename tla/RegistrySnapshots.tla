-------------------------- MODULE RegistrySnapshots --------------------------
(***************************************************************************)
(* Snapshots of the schema registry as registry.ts makes them: the indexes  *)
(* shared copy-on-write, the memo tables shared until either side drops      *)
(* them, the inner intern maps shared for good, and refs that carry the      *)
(* memo of their children.  A JavaScript map that two registries may hold    *)
(* is an entry of a heap, and holding it is holding its position.            *)
(*                                                                         *)
(* Aliases, source ranges, keyword facts and the pending set change with the *)
(* indexes and are SchemaRegistry's subject; here a document is retrieved    *)
(* under its own URI.  A lookup that throws answers None.                    *)
(***************************************************************************)
EXTENDS RegistryContents, FiniteSets, SequencesExt

CONSTANTS
  Source,         \* the engine's registry
  Views,          \* the snapshots taken of it, or of one another
  Scoped,         \* the references that occur as dynamic or recursive ones
  Miss,           \* a memoized failure
  MaxMisses,      \* MAX_MEMOIZED_MISSES
  MaxChanges      \* bound: registrations and removals, of documents and dialects

RefSet == [node : Nodes, base : URIs, pointer : Seq(Segments), home : Nat]
Memo   == [ref : RefSet, rebinds : BOOLEAN]

\* None and Miss are no object; a document holds finitely many resources, and
\* one object at a location.
ASSUME SnapshotsAssumption ==
  /\ Source \notin Views
  /\ None \notin Views \union {Source, Miss} \union RefSet \union Memo
  /\ Miss \notin RefSet
  /\ Scoped \subseteq Queries
  /\ MaxMisses \in Nat /\ MaxChanges \in Nat
  /\ \A d \in Documents, s \in Syntaxes :
       /\ IsFiniteSet({u \in URIs : Claims[d][s][u] # None})
       /\ \A u \in URIs : Claims[d][s][u] # None =>
            \A a, b \in {Claims[d][s][u].anchors[n] : n \in Names} \ {None} :
              a.pointer = b.pointer => a.node = b.node

VARIABLES
  registry,  \* the registries there are, by name: what each holds
  indexes,   \* heap: documents and the maps replaced with them
  inners,    \* heap: pointer -> ref maps, with the refs' children
  tables,    \* heap: the memo tables
  dialects,  \* heap: the dialect maps
  answer,    \* the last lookup: who was asked what, and the ref returned
  changes    \* how often the source has changed, for the bound

vars == <<registry, indexes, inners, tables, dialects, answer, changes>>

Registries == {Source} \union Views

\* A schema ref; `home` is the inner map it is interned in, 0 when in none,
\* so that two interned refs are one object when they are equal.
Ref(at, home) ==
  [node |-> at.node, base |-> at.base, pointer |-> at.pointer, home |-> home]

NoIndexes ==
  [documents |-> [u \in URIs |-> None],
   anchors   |-> [u \in URIs |-> [n \in Names |-> None]],
   dynamic   |-> [u \in URIs |-> {}],
   owner     |-> [u \in URIs |-> None],  \* resourceLocations' documentUri
   owned     |-> [u \in URIs |-> {}],    \* ownedResources
   interned  |-> [u \in URIs |-> 0]]

\* An inner map has a ref at some pointers; children are memoized per ref,
\* under the extractor they were read with.
NoRefs == [refs |-> << >>, children |-> << >>]

NoMemos ==
  [refs    |-> [q \in Queries |-> None],
   scoped  |-> [q \in Scoped |-> None],
   dialect |-> [u \in URIs |-> None]]

NoReply ==
  [registry |-> None, asked |-> None, ref |-> None, rebinds |-> FALSE]

Init ==
  /\ \E s \in Syntaxes : dialects = <<s>>
  /\ indexes = <<NoIndexes>>
  /\ inners = << >>
  /\ tables = <<NoMemos>>
  /\ registry = [r \in {Source} |->
       [indexes |-> 1, tables |-> 1, shared |-> FALSE, misses |-> 0, seen |-> 0,
        dialects |-> 1, dialectsShared |-> FALSE, generation |-> 0]]
  /\ answer = NoReply
  /\ changes = 0

-----------------------------------------------------------------------------
(* Memos, and their end.                                                    *)

\* Faulty: the failures are forgotten, the tables are not.
ResetMissesOnly(r) ==
  [tables |-> tables, registry |-> [registry[r] EXCEPT !.misses = 0]]

\* Fresh tables.  When nobody else holds the old ones they are emptied, which
\* nobody can tell from leaving them behind.
ResetMemos(r) ==
  LET alone == \A x \in DOMAIN registry \ {r} : registry[x].tables # registry[r].tables
      t     == IF alone THEN registry[r].tables ELSE Len(tables) + 1
  IN [tables   |-> IF alone THEN [tables EXCEPT ![t] = NoMemos] ELSE Append(tables, NoMemos),
      registry |-> [registry[r] EXCEPT !.tables = t, !.misses = 0]]

\* Faulty: whoever asks next is left to notice.
SyncedLater(r) == [tables |-> tables, registry |-> registry[r]]

\* The memos are dropped when the dialect registry changed underneath them.
Synced(r) ==
  IF registry[r].generation = registry[r].seen
  THEN [tables |-> tables, registry |-> registry[r]]
  ELSE LET reset == ResetMemos(r)
       IN [reset EXCEPT !.registry.seen = registry[r].generation]

\* A read-only view, of the source or of a view; both go on sharing.
Snapshot(r, v) ==
  LET synced == Synced(r)
  IN /\ r \in DOMAIN registry /\ v \in Views \ DOMAIN registry
     /\ tables' = synced.tables
     /\ registry' = [x \in DOMAIN registry \union {v} |->
          IF x = v
          THEN [synced.registry EXCEPT !.shared = FALSE, !.dialectsShared = FALSE,
                                       !.seen = registry[r].generation]
          ELSE IF x = r
          THEN [synced.registry EXCEPT !.shared = TRUE, !.dialectsShared = TRUE]
          ELSE registry[x]]
     /\ UNCHANGED <<indexes, inners, dialects, answer, changes>>

-----------------------------------------------------------------------------
(* Registration.  Only the source registers: a view is read-only.           *)

\* Faulty: written in place, shared or not.
MutableInPlace == registry[Source].indexes

\* Where the source writes its indexes, and the heap once `new` is there.
Mutable == IF registry[Source].shared THEN Len(indexes) + 1 ELSE registry[Source].indexes

Written(heap, place, new) ==
  IF place = Len(heap) + 1 THEN Append(heap, new) ELSE [heap EXCEPT ![place] = new]

\* Everything a document's last registration claimed and still owns.
Evicted(ix, doc) == {u \in ix.owned[doc] : ix.owner[u] = doc}

\* Faulty: the refs of rewritten resources stay interned.
DroppedNone(interned, gone) == interned

Dropped(interned, gone) == [u \in URIs |-> IF u \in gone THEN 0 ELSE interned[u]]

Evict(ix, doc) ==
  LET gone == Evicted(ix, doc)
  IN [documents |-> [u \in URIs |-> IF u \in gone THEN None ELSE ix.documents[u]],
      anchors   |-> [u \in URIs |-> IF u \in gone THEN NoIndexes.anchors[u] ELSE ix.anchors[u]],
      dynamic   |-> [u \in URIs |-> IF u \in gone THEN {} ELSE ix.dynamic[u]],
      owner     |-> [u \in URIs |-> IF u \in gone THEN None ELSE ix.owner[u]],
      owned     |-> [ix.owned EXCEPT ![doc] = {}],
      interned  |-> Dropped(ix.interned, gone)]

\* The inner maps made for the anchors of the staged resources, in order.
Anchored(stage) ==
  SetToSeq({u \in URIs : stage[u] # None /\ \E n \in Names : stage[u].anchors[n] # None})

AnchorInner(resource) ==
  LET places == {resource.anchors[n] : n \in Names} \ {None}
  IN [refs |-> [p \in {a.pointer : a \in places} |->
                 (CHOOSE a \in places : a.pointer = p).node],
      children |-> << >>]

\* The indexes after the staged resources: refs of a rewritten resource are
\* dropped, and its anchors interned afresh.
Commit(ix, doc, stage) ==
  LET claimed   == {u \in URIs : stage[u] # None}
      absorbed  == {u \in claimed \ {doc} : ix.owner[u] = u}
      order     == Anchored(stage)
      home(u)   == Len(inners) + CHOOSE i \in DOMAIN order : order[i] = u
      anchor(u, n) ==
        LET a == stage[u].anchors[n]
        IN IF a = None THEN None
           ELSE Ref([node |-> a.node, base |-> u, pointer |-> a.pointer], home(u))
  IN [documents |-> [u \in URIs |-> IF u \in claimed THEN stage[u].node ELSE ix.documents[u]],
      anchors   |-> [u \in URIs |-> IF u \in claimed THEN [n \in Names |-> anchor(u, n)]
                                    ELSE ix.anchors[u]],
      dynamic   |-> [u \in URIs |-> IF u \in claimed THEN stage[u].dynamic ELSE ix.dynamic[u]],
      owner     |-> [u \in URIs |-> IF u \in claimed THEN doc ELSE ix.owner[u]],
      owned     |-> [u \in URIs |-> IF u = doc THEN claimed
                                    ELSE IF u \in absorbed THEN {} ELSE ix.owned[u]],
      interned  |-> [u \in URIs |-> IF \E i \in DOMAIN order : order[i] = u THEN home(u)
                                    ELSE Dropped(ix.interned, claimed)[u]]]

Counted == changes < MaxChanges /\ changes' = changes + 1

\* The source's indexes become `new`; its memos go.
Rewrite(new) ==
  LET reset == ResetMemos(Source)
  IN /\ Counted
     /\ indexes' = Written(indexes, Mutable, new)
     /\ tables' = reset.tables
     /\ registry' = [registry EXCEPT ![Source] =
          [reset.registry EXCEPT !.indexes = Mutable, !.shared = FALSE]]
     /\ UNCHANGED <<dialects, answer>>

\* A document registers; one registered already under its root is rewritten.
Register(d) ==
  LET ix    == indexes[registry[Source].indexes]
      doc   == RootURI[d]
      stage == Claims[d][dialects[registry[Source].dialects]]
      order == Anchored(stage)
  IN /\ \A u \in URIs : stage[u] # None /\ ix.documents[u] # None =>
          Value[ix.documents[u]] = Value[stage[u].node]
     /\ Rewrite(Commit(IF ix.owner[doc] = doc THEN Evict(ix, doc) ELSE ix, doc, stage))
     /\ inners' = inners \o [i \in DOMAIN order |-> AnchorInner(stage[order[i]])]

Unregister(doc) ==
  LET ix == indexes[registry[Source].indexes]
  IN /\ ix.owner[doc] = doc
     /\ Rewrite(Evict(ix, doc))
     /\ UNCHANGED inners

\* The dialect is registered anew; a vocabulary it lacks is found out after
\* the registration was counted.
RegisterDialect(s, assembled) ==
  LET me == registry[Source]
      to == IF me.dialectsShared THEN Len(dialects) + 1 ELSE me.dialects
  IN /\ Counted
     /\ dialects' = Written(dialects, to, IF assembled THEN s ELSE dialects[me.dialects])
     /\ registry' = [registry EXCEPT ![Source] =
          [me EXCEPT !.dialects = to, !.dialectsShared = FALSE, !.generation = @ + 1]]
     /\ UNCHANGED <<indexes, inners, tables, answer>>

-----------------------------------------------------------------------------
(* Lookups.  Each returns its ref with the heaps it leaves: `interned`, the  *)
(* registry's outer intern map, and the inner maps.                          *)

\* Map.set.
Put(map, key, value) ==
  [k \in DOMAIN map \union {key} |-> IF k = key THEN value ELSE map[k]]

Found(ref, interned, heap) == [ref |-> ref, interned |-> interned, heap |-> heap]

\* The one ref of a location, or an uncached one when the registry does not
\* hold that object there.
Intern(ix, heap, at) ==
  LET i     == IF ix.interned[at.base] # 0 THEN ix.interned[at.base] ELSE Len(heap) + 1
      inner == IF i = Len(heap) + 1 THEN NoRefs ELSE heap[i]
      to    == [ix.interned EXCEPT ![at.base] = i]
  IN IF ~at.current \/ (at.pointer = Root /\ ix.documents[at.base] # at.node)
     THEN Found(Ref(at, 0), ix.interned, heap)
     ELSE IF at.pointer \notin DOMAIN inner.refs
     THEN Found(Ref(at, i), to,
                Written(heap, i, [inner EXCEPT !.refs = Put(@, at.pointer, at.node)]))
     ELSE Found(Ref(at, IF inner.refs[at.pointer] = at.node THEN i ELSE 0), to, heap)

\* dialectFor: the dialect of a registered resource, from the cache.
DialectFor(r, memos, u) ==
  IF memos.dialect[u] # None THEN memos.dialect[u] ELSE dialects[registry[r].dialects]

\* locate(), over the memos as they are after syncing.
Located(r, memos, q) ==
  LET ix   == indexes[registry[r].indexes]
      now  == dialects[registry[r].dialects]
      root == ix.documents[q.resource]
      at   == Follow(ix.documents, now,
                     At(root, q.resource, Root, DialectFor(r, memos, q.resource)), q.fragment)
  IN IF q.fragment \in Names
     THEN Found(ix.anchors[q.resource][q.fragment], ix.interned, inners)
     ELSE IF root = None \/ at = None THEN Found(None, ix.interned, inners)
     ELSE Intern(ix, inners, at)

\* A pointer lookup asks for the resource's dialect, which is then cached.
Consulted(r, memos, q) ==
  IF q.fragment \in Names \union {Root} \/ indexes[registry[r].indexes].documents[q.resource] = None
  THEN memos
  ELSE [memos EXCEPT !.dialect[q.resource] = DialectFor(r, memos, q.resource)]

\* Faulty: one more than the bound.
RoomForOneMore(me) == me.misses <= MaxMisses

\* Failures are memoized up to a bound.
Room(me) == me.misses < MaxMisses

\* resolveMemo: a hit answers; a miss is memoized while there is room.
ResolveMemo(r, q) ==
  LET synced == Synced(r)
      me     == synced.registry
      memos  == synced.tables[me.tables]
      found  == Located(r, memos, q)
      keep   == IF found.ref # None THEN found.ref ELSE IF Room(me) THEN Miss ELSE None
      ix     == indexes[me.indexes]
  IN IF memos.refs[q] # None
     THEN [ref |-> IF memos.refs[q] = Miss THEN None ELSE memos.refs[q],
           me |-> me, tables |-> synced.tables, interned |-> ix.interned, heap |-> inners]
     ELSE [ref      |-> found.ref,
           me       |-> IF found.ref = None /\ Room(me) THEN [me EXCEPT !.misses = @ + 1] ELSE me,
           tables   |-> [synced.tables EXCEPT ![me.tables] =
                           [Consulted(r, memos, q) EXCEPT !.refs[q] = keep]],
           interned |-> found.interned,
           heap     |-> found.heap]

\* The registry answers, having written through to what it shares.
Answer(r, asked, lookup, memos, rebinds) ==
  /\ answer' = [registry |-> r, asked |-> asked, ref |-> lookup.ref, rebinds |-> rebinds]
  /\ registry' = [registry EXCEPT ![r] = lookup.me]
  /\ indexes' = [indexes EXCEPT ![lookup.me.indexes].interned = lookup.interned]
  /\ tables' = memos
  /\ inners' = lookup.heap
  /\ UNCHANGED <<dialects, changes>>

ResolveRef(r, q) ==
  LET lookup == ResolveMemo(r, q)
  IN /\ r \in DOMAIN registry
     /\ Answer(r, q, lookup, lookup.tables, FALSE)

\* rootRef: a resource's root, asked of the indexes and not of the memos.
RootRef(r, u) ==
  LET ix    == indexes[registry[r].indexes]
      at    == At(ix.documents[u], u, Root, dialects[registry[r].dialects])
      found == IF ix.documents[u] = None THEN Found(None, ix.interned, inners)
               ELSE Intern(ix, inners, at)
  IN /\ r \in DOMAIN registry
     /\ Answer(r, RootOf(u),
               [ref |-> found.ref, me |-> registry[r], interned |-> found.interned,
                heap |-> found.heap],
               tables, FALSE)

\* dynamicReference and recursiveReference: the lexical target, which must
\* exist, and whether the scope rebinds it, memoized together.
ScopedReference(r, q) ==
  LET synced  == Synced(r)
      known   == synced.tables[synced.registry.tables].scoped[q]
      lookup  == ResolveMemo(r, q)
      rebinds == q.fragment \in indexes[registry[r].indexes].dynamic[q.resource]
      memo    == [ref |-> lookup.ref, rebinds |-> rebinds]
  IN /\ r \in DOMAIN registry
     /\ IF known # None
        THEN Answer(r, q, [ref |-> known.ref, me |-> synced.registry, tables |-> synced.tables,
                           interned |-> indexes[registry[r].indexes].interned, heap |-> inners],
                    synced.tables, known.rebinds)
        ELSE IF lookup.ref = None
        THEN Answer(r, q, lookup, lookup.tables, FALSE)
        ELSE Answer(r, q, lookup,
                    [lookup.tables EXCEPT ![lookup.me.tables].scoped[q] = memo], rebinds)

\* Faulty: children read with any extractor are as good.
ChildrenOfAny(heap, ref, syntax) ==
  IF ref.home = 0 \/ ref.pointer \notin DOMAIN heap[ref.home].children THEN << >>
  ELSE heap[ref.home].children[ref.pointer].at

\* The children memoized on an interned ref under one extractor.
ChildrenOf(heap, ref, syntax) ==
  IF ref.home = 0 \/ ref.pointer \notin DOMAIN heap[ref.home].children THEN << >>
  ELSE LET kids == heap[ref.home].children[ref.pointer]
       IN IF kids.by = syntax THEN kids.at ELSE << >>

\* One hop below a ref.  Only below the ref this registry has interned is the
\* result interned and memoized, on the parent.
Child(r, seg) ==
  LET synced == Synced(r)
      me     == synced.registry
      ix     == indexes[me.indexes]
      now    == dialects[me.dialects]
      ref    == answer.ref
      memos  == synced.tables[me.tables]
      syntax == DialectFor(r, memos, ref.base)
      kids   == ChildrenOf(inners, ref, syntax)
      live   == /\ ref.home # 0 /\ ix.interned[ref.base] = ref.home
      at     == Hop(ix.documents, now,
                    [At(ref.node, ref.base, ref.pointer, syntax) EXCEPT !.current = live], seg)
      found  == IF at = None THEN Found(None, ix.interned, inners) ELSE Intern(ix, inners, at)
      noted  == Put(found.heap[ref.home].children, ref.pointer,
                    [by |-> syntax, at |-> Put(kids, seg, found.ref)])
      result == IF ix.documents[ref.base] = None THEN Found(None, ix.interned, inners)
                ELSE IF seg \in DOMAIN kids THEN Found(kids[seg], ix.interned, inners)
                ELSE IF at = None \/ ~at.current THEN found
                ELSE [found EXCEPT !.heap[ref.home].children = noted]
  IN /\ r \in DOMAIN registry /\ answer.ref # None
     /\ Answer(r, None,
               [ref |-> result.ref, me |-> me, interned |-> result.interned,
                heap |-> result.heap],
               IF ix.documents[ref.base] = None THEN synced.tables
               ELSE [synced.tables EXCEPT ![me.tables].dialect[ref.base] = syntax],
               FALSE)

Next ==
  \/ \E r \in Registries, v \in Views : Snapshot(r, v)
  \/ \E d \in Documents : Register(d)
  \/ \E u \in URIs : Unregister(u)
  \/ \E s \in Syntaxes, assembled \in BOOLEAN : RegisterDialect(s, assembled)
  \/ \E r \in Registries, q \in Queries : ResolveRef(r, q)
  \/ \E r \in Registries, u \in URIs : RootRef(r, u)
  \/ \E r \in Registries, q \in Scoped : ScopedReference(r, q)
  \/ \E r \in Registries, seg \in Segments : Child(r, seg)

Spec == Init /\ [][Next]_vars

-----------------------------------------------------------------------------
(* Properties.                                                              *)

IndexesSet ==
  [documents : [URIs -> Nodes \union {None}],
   anchors   : [URIs -> [Names -> RefSet \union {None}]],
   dynamic   : [URIs -> SUBSET (Names \union {Root})],
   owner     : [URIs -> URIs \union {None}],
   owned     : [URIs -> SUBSET URIs],
   interned  : [URIs -> 0..Len(inners)]]

TablesSet ==
  [refs    : [Queries -> RefSet \union {None, Miss}],
   scoped  : [Scoped -> Memo \union {None}],
   dialect : [URIs -> Syntaxes \union {None}]]

IsInner(inner) ==
  /\ \A p \in DOMAIN inner.refs : p \in Seq(Segments) /\ inner.refs[p] \in Nodes
  /\ DOMAIN inner.children \subseteq DOMAIN inner.refs
  /\ \A p \in DOMAIN inner.children :
       LET kids == inner.children[p]
       IN kids.by \in Syntaxes /\ \A seg \in DOMAIN kids.at : kids.at[seg] \in RefSet

\* Every registry holds maps there are, and refs and memos are well formed:
\* in particular only a ref that is interned has children.
TypeOK ==
  /\ indexes \in Seq(IndexesSet)
  /\ tables \in Seq(TablesSet)
  /\ dialects \in Seq(Syntaxes)
  /\ \A i \in DOMAIN inners : IsInner(inners[i])
  /\ Source \in DOMAIN registry /\ DOMAIN registry \subseteq Registries
  /\ \A r \in DOMAIN registry :
       /\ registry[r] \in [indexes : DOMAIN indexes, tables : DOMAIN tables,
                           shared : BOOLEAN, misses : 0..MaxMisses, seen : 0..MaxChanges,
                           dialects : DOMAIN dialects, dialectsShared : BOOLEAN,
                           generation : 0..MaxChanges]
       /\ registry[r].seen <= registry[r].generation
  /\ answer.ref \in RefSet \union {None}

\* What a registry holds, as values.
PlaceOfRef(ref) ==
  IF ref = None THEN None ELSE [node |-> ref.node, base |-> ref.base, pointer |-> ref.pointer]

Holding(r) ==
  LET ix == indexes[registry[r].indexes]
  IN [documents |-> ix.documents,
      anchors   |-> [u \in URIs |-> [n \in Names |-> PlaceOfRef(ix.anchors[u][n])]],
      dynamic   |-> ix.dynamic,
      syntax    |-> dialects[registry[r].dialects]]

View == INSTANCE RegistryViews WITH
  contents <- [r \in DOMAIN registry |-> Holding(r)],
  answer   <- [registry |-> answer.registry, asked |-> answer.asked,
               place |-> PlaceOfRef(answer.ref), rebinds |-> answer.rebinds]

\* The registry and its snapshots keep what RegistryViews promises: no commit,
\* memo, interned ref or child memo of one registry shows through in another,
\* and every answer is the one the asked registry's contents give now.
ViewsAreFrozen == View!ViewSpec

\* No memo outlives the contents it was made from: a table in use says of
\* every reference, scope question and resource dialect what a lookup without
\* memos would find.
MemosAreCurrent ==
  \A r \in DOMAIN registry : registry[r].seen = registry[r].generation =>
    LET memos == tables[registry[r].tables]
        held  == Holding(r)
    IN /\ \A q \in Queries :
            /\ memos.refs[q] = Miss => View!Locate(held, q) = None
            /\ memos.refs[q] \notin {None, Miss} =>
                 PlaceOfRef(memos.refs[q]) = View!Locate(held, q)
       /\ \A q \in Scoped : memos.scoped[q] # None =>
            /\ PlaceOfRef(memos.scoped[q].ref) = View!Locate(held, q)
            /\ memos.scoped[q].rebinds <=> q.fragment \in held.dynamic[q.resource]
       /\ \A u \in URIs : memos.dialect[u] \in {None, held.syntax}

\* The refs a registry answers with from what it has kept: anchors, memos, and
\* the children of the refs it has interned.
Kept(r) ==
  LET me    == registry[r]
      ix    == indexes[me.indexes]
      memos == IF me.seen = me.generation THEN tables[me.tables] ELSE NoMemos
  IN ({ix.anchors[u][n] : u \in URIs, n \in Names}
        \union {memos.refs[q] : q \in Queries}
        \union UNION {UNION {LET kids == inners[ix.interned[u]].children[p]
                             IN IF kids.by = dialects[me.dialects]
                                THEN {kids.at[seg] : seg \in DOMAIN kids.at} ELSE {}
                           : p \in DOMAIN inners[ix.interned[u]].children}
                    : u \in {v \in URIs : ix.interned[v] # 0}})
       \ {None, Miss}

\* The object a pointer names within a root, whatever resources start on it.
NodeAt(root, pointer) ==
  LET node[k \in 0..Len(pointer)] ==
        IF k = 0 THEN root
        ELSE IF node[k - 1] = None THEN None ELSE Inside[node[k - 1]][pointer[k]]
  IN node[Len(pointer)]

\* While it has no snapshots, a registry keeps one ref object per location,
\* which caches key on, through takeovers, removals and changes of syntax:
\* whatever it keeps for an object it holds at a location is the ref it has
\* interned there.
OneRefWhileAlone ==
  DOMAIN registry = {Source} =>
    \A r \in DOMAIN registry : \A ref \in Kept(r) :
      LET ix == indexes[registry[r].indexes]
      IN /\ ix.documents[ref.base] # None
         /\ NodeAt(ix.documents[ref.base], ref.pointer) = ref.node
         => ref.home # 0 /\ ix.interned[ref.base] = ref.home
=============================================================================

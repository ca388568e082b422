--------------------------- MODULE SchemaRegistry ---------------------------
(***************************************************************************)
(* The schema registry of @json-schema-engine/core (registry.ts): which    *)
(* schema resources are registered, which document owns each of them, the  *)
(* retrieval-URI aliases, the anchor indexes, and the unions of keyword     *)
(* facts the engine elides work by.                                        *)
(*                                                                         *)
(* One action per public operation that writes.  A call the code refuses   *)
(* (a throw) leaves the registry as it was, so a refusal is a guard that   *)
(* does not hold.  JSON text is abstracted to values: Sub says which value *)
(* sits at a pointer of a document, Reading what one dialect's identifier  *)
(* extractor and keyword table say about one schema object.  Identifiers   *)
(* are absolute and fragment-free.                                         *)
(***************************************************************************)
EXTENDS Naturals, Sequences

CONSTANTS
  URIs,       \* resource URIs: $id values and retrieval URIs
  Values,     \* schema values, compared as jsonEqual compares them
  Documents,  \* the values offered for registration
  Dialects,   \* dialect URIs
  Names,      \* anchor names
  Behaviors,  \* keyword behavior ids
  Pointers,   \* schema positions of a document: sequences of steps
  None,       \* "no entry" in an index, "nothing declared" in a schema
  Sub,        \* Sub[v][p]: the schema at pointer p of v, or None
  SchemaOf,   \* SchemaOf[v]: the $schema v declares, or None
  Reading     \* Reading[v][d]: what dialect d reads off the object v

Steps == UNION {{p[i] : i \in DOMAIN p} : p \in Pointers}

ReadingSet ==
  [id        : URIs \union {None},  \* the base identifier
   anchors   : SUBSET Names,        \* $anchor and legacy plain-name ids
   dynamic   : SUBSET Names,        \* $dynamicAnchor
   recursive : BOOLEAN,             \* $recursiveAnchor: true
   steps     : SUBSET Steps,        \* where its subschemas are
   refs      : SUBSET URIs,         \* resources its references name
   produces  : SUBSET Behaviors,
   consumes  : SUBSET Behaviors,
   covers    : SUBSET Behaviors,    \* behaviors with evaluated coverage
   bad       : BOOLEAN]             \* reading it throws

\* A resource in force during a walk, and where a resource sits.
ResourceSet == [base : URIs, dialect : Dialects, root : Pointers]
LocationSet == [documentUri : URIs, pointer : Pointers]

\* `Pointers` has every prefix of its pointers; None is nothing else.
ASSUME DocumentsAssumption ==
  /\ None \notin URIs \union Values \union Dialects
  /\ None \notin ResourceSet \union LocationSet
  /\ Documents \subseteq Values
  /\ << >> \in Pointers
  /\ \A p \in Pointers : p # << >> => SubSeq(p, 1, Len(p) - 1) \in Pointers
  /\ Sub \in [Values -> [Pointers -> Values \union {None}]]
  /\ \A v \in Values : Sub[v][<< >>] = v
  /\ SchemaOf \in [Values -> Dialects \union {None}]
  /\ Reading \in [Values -> [Dialects -> ReadingSet]]

\* Documents are trees: what is at a position of a subschema is at the longer
\* position of the whole, and Pointers has every position a subschema is at.
ASSUME TreesAssumption ==
  /\ Pointers \subseteq Seq(Steps)
  /\ \A v \in Values, p, q \in Pointers : Sub[v][p] # None =>
       /\ Sub[Sub[v][p]][q] # None => p \o q \in Pointers
       /\ p \o q \in Pointers => Sub[v][p \o q] = Sub[Sub[v][p]][q]
  /\ \A v \in Values, p \in Pointers, d \in Dialects : Sub[v][p] # None =>
       \A s \in Reading[Sub[v][p]][d].steps : Append(p, s) \in Pointers

VARIABLES
  dialects,          \* the dialect registry's registered dialects
  documents,         \* resource URI -> the schema registered there
  documentDialects,  \* resource URI -> the dialect governing it
  locations,         \* resource URI -> owning document and pointer in it
  anchors,           \* resource URI -> plain anchors, as <<name, pointer>>
  dynamicAnchors,    \* resource URI -> the dynamic ones among them
  recursiveRoots,    \* resources whose root carries $recursiveAnchor
  ownedResources,    \* document URI -> resources its last walk claimed
  aliases,           \* retrieval URI -> declared base, when they differ
  documentRanges,    \* documents with a source-range lookup
  pendingResources,  \* referenced resources not yet drained
  produced, consumed, coverageProducers, coverageConsumed

indexes == <<documents, documentDialects, locations, anchors, dynamicAnchors,
             recursiveRoots, ownedResources, aliases, documentRanges>>
facts   == <<produced, consumed, coverageProducers, coverageConsumed>>
vars    == <<dialects, indexes, pendingResources, facts>>

AnchorSet == SUBSET (Names \X Pointers)

TypeOK ==
  /\ dialects \in SUBSET Dialects
  /\ documents \in [URIs -> Values \union {None}]
  /\ documentDialects \in [URIs -> Dialects \union {None}]
  /\ locations \in [URIs -> LocationSet \union {None}]
  /\ anchors \in [URIs -> AnchorSet]
  /\ dynamicAnchors \in [URIs -> AnchorSet]
  /\ recursiveRoots \in SUBSET URIs
  /\ ownedResources \in [URIs -> SUBSET URIs]
  /\ aliases \in [URIs -> URIs \union {None}]
  /\ \A a \in URIs : aliases[a] # a
  /\ documentRanges \in SUBSET URIs
  /\ pendingResources \in SUBSET URIs
  /\ produced \in SUBSET Behaviors
  /\ consumed \in SUBSET Behaviors
  /\ coverageProducers \in SUBSET Behaviors
  /\ coverageConsumed \in SUBSET Behaviors

-----------------------------------------------------------------------------
(* The registration walk: a pure function of the document and its root.    *)

\* The dialect of a document: its $schema, else the caller's.
DialectUriOf(v, d) == IF SchemaOf[v] # None THEN SchemaOf[v] ELSE d

\* The base a document registers under: its root identifier as its dialect
\* reads it, else the retrieval URI.
BaseUriOf(v, r, d) ==
  LET id == Reading[v][DialectUriOf(v, d)].id
  IN IF id # None THEN id ELSE r

\* The resource governing each position the walk of v reaches, and None
\* elsewhere.  The enclosing dialect decides whether a resource starts; the
\* resource's own $schema governs what is inside it.
Walk(v, base, dialect) ==
  LET start == [base |-> base, dialect |-> dialect, root |-> << >>]
      at[p \in Pointers] ==
        IF p = << >>
        THEN start
        ELSE LET q    == SubSeq(p, 1, Len(p) - 1)
                 up   == at[q]
                 node == Sub[v][p]
             IN IF \/ up = None
                   \/ Sub[v][q] = None
                   \/ p[Len(p)] \notin Reading[Sub[v][q]][up.dialect].steps
                THEN None
                ELSE IF node = None \/ Reading[node][up.dialect].id = None
                THEN up
                ELSE [base    |-> Reading[node][up.dialect].id,
                      dialect |-> DialectUriOf(node, up.dialect),
                      root    |-> p]
  IN [p \in Pointers |-> IF p = << >> THEN start ELSE at[p]]

\* Every walk, as one table.
Walks ==
  [v \in Values |-> [base \in URIs |-> [d \in Dialects |-> Walk(v, base, d)]]]

Visited(w) == {p \in Pointers : w[p] # None}

\* The positions at which a walk starts an embedded resource.
Embedded(w) == {p \in Visited(w) : p # << >> /\ w[p].root = p}

\* What the walk reads at a visited position, under the dialect in force.
ReadingAt(v, w, p) == Reading[Sub[v][p]][w[p].dialect]

\* The position of a resource a document claims: its root's own first.
RootOf(w, base, u) ==
  IF u = base THEN << >> ELSE CHOOSE p \in Embedded(w) : w[p].base = u

Claimed(w, base) == {base} \union {u \in URIs : \E p \in Embedded(w) : w[p].base = u}

\* Faulty: a dynamic anchor is not a plain one.
PlainNamesOnly(v, w, p) == ReadingAt(v, w, p).anchors

\* The anchor names an object claims; a dynamic anchor is a plain one too.
PlainNames(v, w, p)   == ReadingAt(v, w, p).anchors \union ReadingAt(v, w, p).dynamic
DynamicNames(v, w, p) == ReadingAt(v, w, p).dynamic

\* The anchors of the resource rooted at `root`, as names and pointers within
\* it, when names[p] are those the object at p claims.
AnchorsUnder(w, root, names) ==
  {a \in Names \X Pointers :
     \E p \in Visited(w) : p = root \o a[2] /\ w[p].root = root /\ a[1] \in names[p]}

\* What a registration stages for one resource it claims.
StagedResource(v, w, base, u) ==
  LET root == RootOf(w, base, u)
  IN [value          |-> Sub[v][root],
      dialectUri     |-> w[root].dialect,
      location       |-> [documentUri |-> base, pointer |-> root],
      anchors        |->
        AnchorsUnder(w, root, [p \in Visited(w) |-> PlainNames(v, w, p)]),
      dynamicAnchors |->
        AnchorsUnder(w, root, [p \in Visited(w) |-> DynamicNames(v, w, p)]),
      recursiveRoot  |-> ReadingAt(v, w, root).recursive]

Stage(v, w, base) == [u \in Claimed(w, base) |-> StagedResource(v, w, base, u)]

\* Faulty: only the root object's facts are collected.
RootConsumes(v, w) == ReadingAt(v, w, << >>).consumes

\* The unions a walk stages over every position it visits.
WalkProduces(v, w) == UNION {ReadingAt(v, w, p).produces : p \in Visited(w)}
WalkConsumes(v, w) == UNION {ReadingAt(v, w, p).consumes : p \in Visited(w)}
WalkCovers(v, w)   == UNION {ReadingAt(v, w, p).covers   : p \in Visited(w)}
WalkRefs(v, w)     == UNION {ReadingAt(v, w, p).refs     : p \in Visited(w)}

-----------------------------------------------------------------------------
(* Lookups.                                                                *)

Canonical(u)   == IF aliases[u] # None THEN aliases[u] ELSE u
Has(u)         == documents[u] # None \/ aliases[u] # None
OwnedBy(d)     == {u \in URIs : locations[u] # None /\ locations[u].documentUri = d}
IsDocument(d)  == d \in OwnedBy(d)

-----------------------------------------------------------------------------
(* Refusals of `register`.                                                 *)

\* The walk itself throws nothing: every position holds a schema it can
\* read, under a registered dialect.
WalkSucceeds(v, w) ==
  \A p \in Visited(w) : /\ Sub[v][p] # None
                        /\ w[p].dialect \in dialects
                        /\ ~ReadingAt(v, w, p).bad

\* Faulty: only aliases are asked about the retrieval URI.
RetrievalFreeOfAliases(r, base) == r # base => aliases[r] \in {None, base}

\* The retrieval URI of a document declaring another base is neither a
\* resource of its own nor the alias of a different one.
RetrievalFree(r, base) ==
  r # base => documents[r] = None /\ aliases[r] \in {None, base}

\* Faulty: a registered resource is overwritten whatever it holds.
ResourcesFreeOfAliases(v, w, base) ==
  /\ \A p \in Embedded(w) : w[p].base # base
  /\ \A p, q \in Embedded(w) : w[p].base = w[q].base => p = q
  /\ \A u \in Claimed(w, base) : aliases[u] = None

\* stageResource: no URI is claimed twice by one document, none is an
\* alias, and a registered one holds an equal schema.
ResourcesFree(v, w, base) ==
  /\ \A p \in Embedded(w) : w[p].base # base
  /\ \A p, q \in Embedded(w) : w[p].base = w[q].base => p = q
  /\ \A u \in Claimed(w, base) :
       /\ aliases[u] = None
       /\ documents[u] \in {None, Sub[v][RootOf(w, base, u)]}

\* stageAnchor: two objects of one resource claim different names.
AnchorsFree(v, w) ==
  \A p, q \in Visited(w) :
    p # q /\ w[p].root = w[q].root
      => PlainNames(v, w, p) \intersect PlainNames(v, w, q) = {}

-----------------------------------------------------------------------------
(* Writers.                                                                *)

\* Faulty: the ownership index is believed without asking who owns a resource
\* now; or only the root is dropped.
EvictedUnchecked(d) == ownedResources[d]
EvictedRootOnly(d)  == {d}

\* What evicting a document removes: what it last claimed and still owns.
Evicted(d) == ownedResources[d] \intersect OwnedBy(d)

\* The aliases left once document d's are gone.
AliasesWithout(d) == [a \in URIs |-> IF aliases[a] = d THEN None ELSE aliases[a]]

\* Faulty: a document's own base is bound as its alias too.
AliasedAlways(kept, r, base) == [kept EXCEPT ![r] = base]

\* The aliases with the document's own retrieval URI bound, when it declares
\* another base.
Aliased(kept, r, base) == IF r = base THEN kept ELSE [kept EXCEPT ![r] = base]

\* Faulty: an absorbed root goes on counting as a document.
AbsorbedNone(claimed, base) == {}

\* Document roots a registration absorbs as embedded resources: they stop
\* being documents of their own.
Absorbed(claimed, base) == {u \in claimed \ {base} : IsDocument(u)}

\* An index without the entries of `gone`, and with those of `new` written.
Rewrite(index, gone, nothing, new) ==
  [u \in URIs |-> IF u \in DOMAIN new THEN new[u]
                  ELSE IF u \in gone THEN nothing ELSE index[u]]

\* Faulty: a resource that declares no anchor now keeps the ones it had.
ReanchoredKeeping(index, gone, new) ==
  Rewrite(index, gone, {}, [u \in {x \in DOMAIN new : new[x] # {}} |-> new[u]])

\* An anchor index after a commit: the entry of every claimed resource is
\* dropped, then written if it has any anchor.
Reanchored(index, gone, new) == Rewrite(index, gone, {}, new)

\* commit: the staged resources of a document based at base, retrieved at r.
Commit(base, staged, r, ranged) ==
  LET claimed   == DOMAIN staged
      rebinding == IsDocument(base)
      gone      == IF rebinding THEN Evicted(base) ELSE {}
      absorbed  == Absorbed(claimed, base)
      kept      == IF rebinding THEN AliasesWithout(base) ELSE aliases
  IN /\ documents' =
          Rewrite(documents, gone, None, [u \in claimed |-> staged[u].value])
     /\ documentDialects' =
          Rewrite(documentDialects, gone, None, [u \in claimed |-> staged[u].dialectUri])
     /\ locations' =
          Rewrite(locations, gone, None, [u \in claimed |-> staged[u].location])
     /\ anchors' =
          Reanchored(anchors, gone, [u \in claimed |-> staged[u].anchors])
     /\ dynamicAnchors' =
          Reanchored(dynamicAnchors, gone, [u \in claimed |-> staged[u].dynamicAnchors])
     /\ recursiveRoots' = (recursiveRoots \ (gone \union claimed))
                            \union {u \in claimed : staged[u].recursiveRoot}
     /\ ownedResources' = [u \in URIs |-> IF u = base THEN claimed
                                          ELSE IF u \in absorbed THEN {}
                                          ELSE ownedResources[u]]
     /\ aliases' = Aliased(kept, r, base)
     /\ documentRanges' =
          (documentRanges \ (absorbed \union IF rebinding THEN {base} ELSE {}))
            \union IF ranged THEN {base} ELSE {}

\* Faulty: only a consumer arriving after the producer is noticed.
CommitFactsOneSided(v, w) ==
  /\ produced'          = produced \union WalkProduces(v, w)
  /\ consumed'          = consumed \union WalkConsumes(v, w)
  /\ coverageProducers' = coverageProducers \union WalkCovers(v, w)
  /\ coverageConsumed'  = coverageConsumed
                            \union (WalkConsumes(v, w) \intersect coverageProducers')

\* The incremental half of commit: a behavior is coverage-consumed once
\* something consumes it and some producer of it declares coverage.
CommitFacts(v, w) ==
  LET consumes == WalkConsumes(v, w)
      covers   == WalkCovers(v, w)
  IN /\ produced'          = produced \union WalkProduces(v, w)
     /\ consumed'          = consumed \union consumes
     /\ coverageProducers' = coverageProducers \union covers
     /\ coverageConsumed'  = coverageConsumed
                               \union (consumes \intersect coverageProducers')
                               \union (covers \intersect consumed')

\* register(schema, retrievalUri, dialectUri, getRange?)
Register(v, r, d, ranged) ==
  LET dialect == DialectUriOf(v, d)
      base    == BaseUriOf(v, r, d)
      w       == Walks[v][base][dialect]
  IN /\ dialect \in dialects
     /\ RetrievalFree(r, base)
     /\ WalkSucceeds(v, w)
     /\ ResourcesFree(v, w, base)
     /\ AnchorsFree(v, w)
     /\ Commit(base, Stage(v, w, base), r, ranged)
     /\ CommitFacts(v, w)
     /\ pendingResources' = pendingResources \union WalkRefs(v, w)
     /\ UNCHANGED dialects

\* unregister(uri): only a document root, or an alias of one.
Unregister(uri) ==
  LET d    == Canonical(uri)
      gone == Evicted(d)
      Without(index, nothing) == Rewrite(index, gone, nothing, << >>)
  IN /\ IsDocument(d)
     /\ documents'        = Without(documents, None)
     /\ documentDialects' = Without(documentDialects, None)
     /\ locations'        = Without(locations, None)
     /\ anchors'          = Without(anchors, {})
     /\ dynamicAnchors'   = Without(dynamicAnchors, {})
     /\ recursiveRoots'   = recursiveRoots \ gone
     /\ ownedResources'   = [ownedResources EXCEPT ![d] = {}]
     /\ documentRanges'   = documentRanges \ {d}
     /\ aliases'          = AliasesWithout(d)
     /\ UNCHANGED <<dialects, pendingResources, facts>>

\* nextUnresolved(): pops pending resources up to the first unregistered one.
NextUnresolved ==
  LET missing == {u \in pendingResources : ~Has(u)}
  IN /\ \/ \E u \in missing, known \in SUBSET (pendingResources \ missing) :
             pendingResources' = pendingResources \ ({u} \union known)
        \/ missing = {} /\ pendingResources # {} /\ pendingResources' = {}
     /\ UNCHANGED <<dialects, indexes, facts>>

\* takeUnresolved(): drains the set.
TakeUnresolved ==
  /\ pendingResources # {}
  /\ pendingResources' = {}
  /\ UNCHANGED <<dialects, indexes, facts>>

\* registerDialect on the dialect registry beside this one.
RegisterDialect(d) ==
  /\ d \notin dialects
  /\ dialects' = dialects \union {d}
  /\ UNCHANGED <<indexes, pendingResources, facts>>

Init ==
  /\ dialects = {}
  /\ documents = [u \in URIs |-> None]
  /\ documentDialects = [u \in URIs |-> None]
  /\ locations = [u \in URIs |-> None]
  /\ anchors = [u \in URIs |-> {}]
  /\ dynamicAnchors = [u \in URIs |-> {}]
  /\ recursiveRoots = {}
  /\ ownedResources = [u \in URIs |-> {}]
  /\ aliases = [u \in URIs |-> None]
  /\ documentRanges = {}
  /\ pendingResources = {}
  /\ produced = {} /\ consumed = {}
  /\ coverageProducers = {} /\ coverageConsumed = {}

Next ==
  \/ \E v \in Documents, r \in URIs, d \in Dialects, ranged \in BOOLEAN :
       Register(v, r, d, ranged)
  \/ \E u \in URIs : Unregister(u)
  \/ NextUnresolved
  \/ TakeUnresolved
  \/ \E d \in Dialects : RegisterDialect(d)

Spec == Init /\ [][Next]_vars

-----------------------------------------------------------------------------
(* Properties.                                                             *)

Registered(u) == documents[u] # None

\* The per-resource indexes describe the same set of resources: commit and
\* evict write and drop every one of them, whichever resources a walk
\* claimed, took over or left behind.  A registered resource's dialect is
\* registered, so evaluating it never meets an unknown dialect.
IndexesAgree ==
  \A u \in URIs :
    /\ Registered(u) <=> locations[u] # None
    /\ Registered(u) <=> documentDialects[u] # None
    /\ documentDialects[u] \in dialects \union {None}
    /\ anchors[u] # {} \/ u \in recursiveRoots => Registered(u)
    /\ dynamicAnchors[u] \subseteq anchors[u]

\* ownedResources, the eviction index, has an entry for exactly the document
\* roots, through absorptions and takeovers, and each lists its own root; a
\* source-range lookup survives only for a document.
RootsOwn ==
  \A d \in URIs :
    /\ IsDocument(d) <=> ownedResources[d] # {}
    /\ IsDocument(d) => d \in ownedResources[d]
    /\ d \in documentRanges => IsDocument(d)

\* Every registered resource is listed by the document it is located in (so
\* unregistering that document removes it), and sits in that document at the
\* pointer its location gives (what source positions are computed from).
ResourcesAreOwned ==
  \A u \in URIs : Registered(u) =>
    LET l == locations[u]
    IN /\ u \in ownedResources[l.documentUri]
       /\ Registered(l.documentUri)
       /\ Sub[documents[l.documentUri]][l.pointer] = documents[u]

\* What the indexes say of a resource is what walking its present schema under
\* its present dialect yields: nothing stale survives a re-registration, a
\* takeover by an equal copy elsewhere, or a change of dialect.
EntriesAreCurrent ==
  \A u \in URIs : Registered(u) =>
    LET w == Walks[documents[u]][u][documentDialects[u]]
        s == StagedResource(documents[u], w, u, u)
    IN /\ anchors[u] = s.anchors
       /\ dynamicAnchors[u] = s.dynamicAnchors
       /\ (u \in recursiveRoots) = s.recursiveRoot

\* Lookups prefer an alias to a resource of the same name, so an alias can
\* only ever hide a resource of the very document it is an alias of: never
\* one that another registration put there.
AliasHidesOnlyItsOwn ==
  \A a \in URIs :
    aliases[a] # None /\ Registered(a) => locations[a].documentUri = aliases[a]

\* coverageConsumedIds, maintained incrementally from both sides, is the
\* intersection it stands for whichever of producer and consumer came first.
CoverageExact == coverageConsumed = consumed \intersect coverageProducers

\* Everything a registered resource produces, consumes or covers is in the
\* unions: elision never drops data that a registered keyword reads.
FactsComplete ==
  \A u \in URIs : Registered(u) =>
    LET w == Walks[documents[u]][u][documentDialects[u]]
    IN \A p \in Visited(w) : w[p].root = << >> =>
         LET reading == ReadingAt(documents[u], w, p)
         IN /\ reading.produces \subseteq produced
            /\ reading.consumes \subseteq consumed
            /\ reading.covers \subseteq coverageProducers

\* "One resource, one schema": no step gives a registered URI another schema;
\* replacing one passes through unregister.
OneSchemaPerURI ==
  [][\A u \in URIs : Registered(u) /\ Registered(u)' => documents'[u] = documents[u]]_vars

\* A step removes resources of one document only, and only while unregistering
\* or rewriting it: "a resource an equal copy in another document has since
\* taken over stays with that document".
RemovalFollowsOwner ==
  [][\A u \in URIs : Registered(u) /\ ~Registered(u)' =>
       LET d == locations[u].documentUri
       IN /\ u \notin ownedResources'[d]
          /\ \A x \in URIs \ OwnedBy(d) : Registered(x) => Registered(x)']_vars
=============================================================================

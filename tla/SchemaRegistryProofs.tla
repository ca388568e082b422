------------------------ MODULE SchemaRegistryProofs ------------------------
(***************************************************************************)
(* Proofs about SchemaRegistry, for every choice of its constants.         *)
(*                                                                         *)
(* Nothing here depends on what the registration walk computes (that is    *)
(* SchemaWalkProofs): StageOK collects what `commit` needs of a stage, and *)
(* follows from the guards of `register` and the shape of Stage alone.     *)
(***************************************************************************)
EXTENDS SchemaRegistry, TLAPS

StagedSet ==
  [value : Values, dialectUri : Dialects, location : LocationSet,
   anchors : AnchorSet, dynamicAnchors : AnchorSet, recursiveRoot : BOOLEAN]

\* What a stage accepted by the guards of `register` gives `commit`.
StageOK(base, staged, r) ==
  /\ base \in URIs
  /\ r \in URIs
  /\ DOMAIN staged \in SUBSET URIs
  /\ base \in DOMAIN staged
  /\ staged \in [DOMAIN staged -> StagedSet]
  /\ RetrievalFree(r, base)
  /\ \A u \in DOMAIN staged :
       /\ aliases[u] = None
       /\ documents[u] \in {None, staged[u].value}
       /\ staged[u].dialectUri \in dialects
       /\ staged[u].location.documentUri = base
       /\ staged[u].dynamicAnchors \subseteq staged[u].anchors

LEMMA NoneFacts ==
  /\ None \notin URIs /\ None \notin Values /\ None \notin Dialects
  /\ None \notin ResourceSet /\ None \notin LocationSet
  /\ << >> \in Pointers
  BY DocumentsAssumption

LEMMA DataFacts ==
  /\ Documents \subseteq Values
  /\ Sub \in [Values -> [Pointers -> Values \union {None}]]
  /\ SchemaOf \in [Values -> Dialects \union {None}]
  BY DocumentsAssumption

LEMMA ReadingFacts ==
  ASSUME NEW v \in Values, NEW d \in Dialects
  PROVE  /\ Reading[v][d].id \in URIs \union {None}
         /\ Reading[v][d].recursive \in BOOLEAN
         /\ Reading[v][d].refs \in SUBSET URIs
         /\ Reading[v][d].produces \in SUBSET Behaviors
         /\ Reading[v][d].consumes \in SUBSET Behaviors
         /\ Reading[v][d].covers \in SUBSET Behaviors
  <1>1. Reading \in [Values -> [Dialects -> ReadingSet]]
    BY DocumentsAssumption
  <1>2. Reading[v][d] \in ReadingSet
    BY <1>1
  <1>3. QED  BY <1>2 DEF ReadingSet

\* A locatable resource has an entry; a document root is located at itself.
LEMMA OwnedByFacts ==
  ASSUME NEW d
  PROVE  /\ OwnedBy(d) \subseteq URIs
         /\ \A u \in OwnedBy(d) : locations[u] # None /\ locations[u].documentUri = d
         /\ \A u \in URIs : locations[u] # None /\ locations[u].documentUri = d
                              => u \in OwnedBy(d)
  BY DEF OwnedBy

-----------------------------------------------------------------------------
(* The stage.                                                              *)

LEMMA BaseType ==
  ASSUME NEW v \in Values, NEW r \in URIs, NEW d \in Dialects
  PROVE  /\ DialectUriOf(v, d) \in Dialects
         /\ BaseUriOf(v, r, d) \in URIs
  <1>1. DialectUriOf(v, d) \in Dialects
    BY DataFacts, NoneFacts DEF DialectUriOf
  <1>2. Reading[v][DialectUriOf(v, d)].id \in URIs \union {None}
    BY <1>1, ReadingFacts
  <1>3. QED  BY <1>1, <1>2 DEF BaseUriOf

\* Where a claimed resource starts in its document.
LEMMA RootOfType ==
  ASSUME NEW w, NEW base, NEW u \in Claimed(w, base), w[<< >>] # None
  PROVE  RootOf(w, base, u) \in Visited(w)
  <1>1. CASE u = base
    BY <1>1, NoneFacts DEF RootOf, Visited
  <1>2. CASE u # base
    <2>1. \E p \in Embedded(w) : w[p].base = u
      BY <1>2 DEF Claimed
    <2>2. RootOf(w, base, u) \in Embedded(w)
      BY <1>2, <2>1 DEF RootOf
    <2>3. QED  BY <2>2 DEF Embedded
  <1>3. QED  BY <1>1, <1>2

LEMMA AnchorsNested ==
  ASSUME NEW v, NEW w, NEW root
  PROVE  AnchorsUnder(w, root, [p \in Visited(w) |-> DynamicNames(v, w, p)])
           \subseteq AnchorsUnder(w, root, [p \in Visited(w) |-> PlainNames(v, w, p)])
  BY DEF AnchorsUnder, DynamicNames, PlainNames

LEMMA StageAccepted ==
  ASSUME TypeOK, NEW v \in Values, NEW w, NEW base \in URIs, NEW r \in URIs,
         w[<< >>] # None, RetrievalFree(r, base),
         WalkSucceeds(v, w), ResourcesFree(v, w, base)
  PROVE  StageOK(base, Stage(v, w, base), r)
  <1> DEFINE staged == Stage(v, w, base)
  <1>1. /\ DOMAIN staged = Claimed(w, base)
        /\ Claimed(w, base) \in SUBSET URIs
        /\ base \in Claimed(w, base)
    BY DEF Stage, Claimed
  <1>2. ASSUME NEW u \in Claimed(w, base)
        PROVE  /\ StagedResource(v, w, base, u) \in StagedSet
               /\ aliases[u] = None
               /\ documents[u] \in {None, StagedResource(v, w, base, u).value}
               /\ StagedResource(v, w, base, u).dialectUri \in dialects
               /\ StagedResource(v, w, base, u).location.documentUri = base
               /\ StagedResource(v, w, base, u).dynamicAnchors
                    \subseteq StagedResource(v, w, base, u).anchors
    <2> DEFINE root  == RootOf(w, base, u)
               plain == AnchorsUnder(w, root, [p \in Visited(w) |-> PlainNames(v, w, p)])
               dyn   == AnchorsUnder(w, root, [p \in Visited(w) |-> DynamicNames(v, w, p)])
    <2>1. root \in Visited(w) /\ root \in Pointers
      BY RootOfType DEF Visited
    <2>2. /\ Sub[v][root] \in Values
          /\ w[root].dialect \in dialects
          /\ w[root].dialect \in Dialects
      BY <2>1, DataFacts DEF WalkSucceeds, TypeOK
    <2>3. ReadingAt(v, w, root).recursive \in BOOLEAN
      BY <2>2, ReadingFacts DEF ReadingAt
    <2>4. plain \in AnchorSet /\ dyn \in AnchorSet
      BY DEF AnchorsUnder, AnchorSet
    <2>5. dyn \subseteq plain
      BY AnchorsNested
    <2>6. [documentUri |-> base, pointer |-> root] \in LocationSet
      BY <2>1 DEF LocationSet
    <2>7. aliases[u] = None /\ documents[u] \in {None, Sub[v][root]}
      BY DEF ResourcesFree
    <2> HIDE DEF root, plain, dyn
    <2>8. StagedResource(v, w, base, u) =
            [value |-> Sub[v][root], dialectUri |-> w[root].dialect,
             location |-> [documentUri |-> base, pointer |-> root],
             anchors |-> plain, dynamicAnchors |-> dyn,
             recursiveRoot |-> ReadingAt(v, w, root).recursive]
      BY DEF StagedResource, root, plain, dyn
    <2>9. QED
      BY <2>2, <2>3, <2>4, <2>5, <2>6, <2>7, <2>8 DEF StagedSet
  <1>3. \A u \in Claimed(w, base) : staged[u] = StagedResource(v, w, base, u)
    BY DEF Stage
  <1>4. staged \in [DOMAIN staged -> StagedSet]
    BY <1>1, <1>2 DEF Stage
  <1> HIDE DEF staged
  <1>5. QED
    BY <1>1, <1>2, <1>3, <1>4 DEF StageOK, staged

\* A walk visits its root, so what a registration stages is acceptable.
LEMMA RegisterStage ==
  ASSUME TypeOK, NEW v \in Values, NEW r \in URIs, NEW d \in Dialects,
         RetrievalFree(r, BaseUriOf(v, r, d)),
         WalkSucceeds(v, Walks[v][BaseUriOf(v, r, d)][DialectUriOf(v, d)]),
         ResourcesFree(v, Walks[v][BaseUriOf(v, r, d)][DialectUriOf(v, d)],
                       BaseUriOf(v, r, d))
  PROVE  StageOK(BaseUriOf(v, r, d),
                 Stage(v, Walks[v][BaseUriOf(v, r, d)][DialectUriOf(v, d)],
                       BaseUriOf(v, r, d)), r)
  <1> DEFINE base == BaseUriOf(v, r, d)
             dial == DialectUriOf(v, d)
             w    == Walks[v][base][dial]
  <1>1. base \in URIs /\ dial \in Dialects
    BY BaseType
  <1> HIDE DEF base, dial
  <1>2. w = Walk(v, base, dial)
    BY <1>1 DEF Walks
  <1>3. w[<< >>] = [base |-> base, dialect |-> dial, root |-> << >>]
    BY <1>2, NoneFacts DEF Walk
  <1>4. w[<< >>] \in ResourceSet
    BY <1>1, <1>3, NoneFacts DEF ResourceSet
  <1>5. w[<< >>] # None
    BY <1>4, NoneFacts
  <1> HIDE DEF w
  <1>6. QED
    BY <1>1, <1>5, StageAccepted DEF base, dial, w

-----------------------------------------------------------------------------
(* Type correctness.                                                       *)

LEMMA RewriteType ==
  ASSUME NEW S, NEW index \in [URIs -> S], NEW gone, NEW nothing \in S,
         NEW new, \A u \in DOMAIN new : new[u] \in S
  PROVE  Rewrite(index, gone, nothing, new) \in [URIs -> S]
  BY DEF Rewrite

\* The registration step, with the walk put away: everything the invariants
\* need to know of it.
RegisterStep(base, staged, r, ranged) ==
  /\ StageOK(base, staged, r)
  /\ ranged \in BOOLEAN
  /\ Commit(base, staged, r, ranged)
  /\ pendingResources' \in SUBSET URIs
  /\ produced' \in SUBSET Behaviors /\ consumed' \in SUBSET Behaviors
  /\ coverageProducers' \in SUBSET Behaviors
  /\ coverageConsumed' \in SUBSET Behaviors
  /\ dialects' = dialects

LEMMA RegisterIsStep ==
  ASSUME TypeOK, NEW v \in Documents, NEW r \in URIs, NEW d \in Dialects,
         NEW ranged \in BOOLEAN, Register(v, r, d, ranged)
  PROVE  \E base, staged : RegisterStep(base, staged, r, ranged)
  <1> DEFINE dial == DialectUriOf(v, d)
             base == BaseUriOf(v, r, d)
             w    == Walks[v][base][dial]
  <1>1. v \in Values
    BY DataFacts
  <1>2. /\ RetrievalFree(r, base) /\ WalkSucceeds(v, w) /\ ResourcesFree(v, w, base)
        /\ Commit(base, Stage(v, w, base), r, ranged)
        /\ CommitFacts(v, w)
        /\ pendingResources' = pendingResources \union WalkRefs(v, w)
        /\ dialects' = dialects
    BY DEF Register
  <1>3. StageOK(base, Stage(v, w, base), r)
    BY <1>1, <1>2, RegisterStage
  <1> HIDE DEF w, base, dial
  <1>4. \A p \in Visited(w) : Sub[v][p] \in Values /\ w[p].dialect \in Dialects
    BY <1>1, <1>2, DataFacts DEF WalkSucceeds, TypeOK, Visited
  <1>5. \A p \in Visited(w) : /\ ReadingAt(v, w, p).refs \in SUBSET URIs
                             /\ ReadingAt(v, w, p).produces \in SUBSET Behaviors
                             /\ ReadingAt(v, w, p).consumes \in SUBSET Behaviors
                             /\ ReadingAt(v, w, p).covers \in SUBSET Behaviors
    BY <1>4, ReadingFacts DEF ReadingAt
  <1>6. /\ WalkRefs(v, w) \in SUBSET URIs
        /\ WalkProduces(v, w) \in SUBSET Behaviors
        /\ WalkConsumes(v, w) \in SUBSET Behaviors
        /\ WalkCovers(v, w) \in SUBSET Behaviors
    BY <1>5 DEF WalkRefs, WalkProduces, WalkConsumes, WalkCovers
  <1>7. /\ pendingResources' \in SUBSET URIs
        /\ produced' \in SUBSET Behaviors /\ consumed' \in SUBSET Behaviors
        /\ coverageProducers' \in SUBSET Behaviors
        /\ coverageConsumed' \in SUBSET Behaviors
    BY <1>2, <1>6 DEF CommitFacts, TypeOK
  <1>8. QED
    BY <1>2, <1>3, <1>7 DEF RegisterStep

LEMMA RegisterType ==
  ASSUME TypeOK, NEW base, NEW staged, NEW r, NEW ranged,
         RegisterStep(base, staged, r, ranged)
  PROVE  TypeOK'
  <1> DEFINE claimed == DOMAIN staged
             gone    == IF IsDocument(base) THEN Evicted(base) ELSE {}
             kept    == IF IsDocument(base) THEN AliasesWithout(base) ELSE aliases
  <1> USE DEF RegisterStep
  <1>1. \A u \in claimed : /\ staged[u].value \in Values
                           /\ staged[u].dialectUri \in Dialects
                           /\ staged[u].location \in LocationSet
                           /\ staged[u].anchors \in AnchorSet
                           /\ staged[u].dynamicAnchors \in AnchorSet
    BY DEF StageOK, StagedSet
  <1>2. base \in URIs /\ r \in URIs /\ claimed \in SUBSET URIs
    BY DEF StageOK
  <1>3. {} \in AnchorSet
    BY DEF AnchorSet
  <1>4. documents' \in [URIs -> Values \union {None}]
    <2>1. documents' = Rewrite(documents, gone, None, [u \in claimed |-> staged[u].value])
      BY DEF Commit
    <2>2. QED  BY <2>1, <1>1, RewriteType DEF TypeOK
  <1>5. documentDialects' \in [URIs -> Dialects \union {None}]
    <2>1. documentDialects' =
            Rewrite(documentDialects, gone, None, [u \in claimed |-> staged[u].dialectUri])
      BY DEF Commit
    <2>2. QED  BY <2>1, <1>1, RewriteType DEF TypeOK
  <1>6. locations' \in [URIs -> LocationSet \union {None}]
    <2>1. locations' = Rewrite(locations, gone, None, [u \in claimed |-> staged[u].location])
      BY DEF Commit
    <2>2. QED  BY <2>1, <1>1, RewriteType DEF TypeOK
  <1>7. anchors' \in [URIs -> AnchorSet]
    <2>1. anchors' = Rewrite(anchors, gone, {}, [u \in claimed |-> staged[u].anchors])
      BY DEF Commit, Reanchored
    <2>2. QED  BY <2>1, <1>1, <1>3, RewriteType DEF TypeOK
  <1>8. dynamicAnchors' \in [URIs -> AnchorSet]
    <2>1. dynamicAnchors' =
            Rewrite(dynamicAnchors, gone, {}, [u \in claimed |-> staged[u].dynamicAnchors])
      BY DEF Commit, Reanchored
    <2>2. QED  BY <2>1, <1>1, <1>3, RewriteType DEF TypeOK
  <1>9. /\ recursiveRoots' \in SUBSET URIs
        /\ ownedResources' \in [URIs -> SUBSET URIs]
        /\ documentRanges' \in SUBSET URIs
    BY <1>2 DEF Commit, TypeOK
  <1>10. aliases' \in [URIs -> URIs \union {None}] /\ \A a \in URIs : aliases'[a] # a
    <2>1. kept \in [URIs -> URIs \union {None}] /\ \A a \in URIs : kept[a] # a
      BY NoneFacts DEF AliasesWithout, TypeOK
    <2>2. aliases' = Aliased(kept, r, base)
      BY DEF Commit
    <2> HIDE DEF kept
    <2>3. QED  BY <2>1, <2>2, <1>2 DEF Aliased
  <1>11. dialects' \in SUBSET Dialects
    BY DEF TypeOK
  <1> HIDE DEF claimed, gone, kept
  <1>12. QED
    BY <1>4, <1>5, <1>6, <1>7, <1>8, <1>9, <1>10, <1>11 DEF TypeOK

LEMMA UnregisterType ==
  ASSUME TypeOK, NEW uri \in URIs, Unregister(uri)
  PROVE  TypeOK'
  <1> DEFINE gone == Evicted(Canonical(uri))
  <1>1. /\ documents' = Rewrite(documents, gone, None, << >>)
        /\ documentDialects' = Rewrite(documentDialects, gone, None, << >>)
        /\ locations' = Rewrite(locations, gone, None, << >>)
        /\ anchors' = Rewrite(anchors, gone, {}, << >>)
        /\ dynamicAnchors' = Rewrite(dynamicAnchors, gone, {}, << >>)
    BY DEF Unregister
  <1>2. \A u \in DOMAIN << >> : FALSE
    OBVIOUS
  <1>3. /\ documents' \in [URIs -> Values \union {None}]
        /\ documentDialects' \in [URIs -> Dialects \union {None}]
        /\ locations' \in [URIs -> LocationSet \union {None}]
        /\ anchors' \in [URIs -> AnchorSet]
        /\ dynamicAnchors' \in [URIs -> AnchorSet]
    BY <1>1, <1>2, RewriteType DEF TypeOK, AnchorSet
  <1>4. /\ recursiveRoots' \in SUBSET URIs
        /\ ownedResources' \in [URIs -> SUBSET URIs]
        /\ documentRanges' \in SUBSET URIs
    BY DEF Unregister, TypeOK
  <1>5. aliases' \in [URIs -> URIs \union {None}] /\ \A a \in URIs : aliases'[a] # a
    BY NoneFacts DEF Unregister, AliasesWithout, TypeOK
  <1>6. dialects' = dialects /\ pendingResources' = pendingResources /\ UNCHANGED facts
    BY DEF Unregister
  <1>7. QED
    BY <1>3, <1>4, <1>5, <1>6 DEF TypeOK, facts

\* The steps that leave the indexes alone.
QuietStep ==
  /\ UNCHANGED <<indexes, facts>>
  /\ dialects \subseteq dialects' /\ dialects' \in SUBSET Dialects
  /\ pendingResources' \in SUBSET URIs

LEMMA QuietSteps ==
  ASSUME TypeOK,
         \/ NextUnresolved \/ TakeUnresolved \/ UNCHANGED vars
         \/ \E d \in Dialects : RegisterDialect(d)
  PROVE  QuietStep
  <1>1. CASE NextUnresolved
    BY <1>1 DEF NextUnresolved, QuietStep, TypeOK
  <1>2. CASE TakeUnresolved
    BY <1>2 DEF TakeUnresolved, QuietStep, TypeOK
  <1>3. CASE UNCHANGED vars
    BY <1>3 DEF vars, QuietStep, TypeOK
  <1>4. CASE \E d \in Dialects : RegisterDialect(d)
    BY <1>4 DEF RegisterDialect, QuietStep, TypeOK
  <1>5. QED  BY <1>1, <1>2, <1>3, <1>4

LEMMA QuietType == TypeOK /\ QuietStep => TypeOK'
  BY DEF TypeOK, QuietStep, indexes, facts

LEMMA InitType == Init => TypeOK
  BY NoneFacts DEF Init, TypeOK, AnchorSet

\* Every step is a registration, an unregistration or a quiet step.
LEMMA StepCases ==
  ASSUME TypeOK, [Next]_vars
  PROVE  \/ \E base, staged, r, ranged : RegisterStep(base, staged, r, ranged)
         \/ \E u \in URIs : Unregister(u)
         \/ QuietStep
  <1>1. CASE \E v \in Documents, r \in URIs, d \in Dialects, ranged \in BOOLEAN :
               Register(v, r, d, ranged)
    BY <1>1, RegisterIsStep
  <1>2. QED
    BY <1>1, QuietSteps DEF Next

LEMMA NextType == TypeOK /\ [Next]_vars => TypeOK'
  BY StepCases, RegisterType, UnregisterType, QuietType

\* Every state of the registry has the declared types.
THEOREM TypeCorrect == Spec => []TypeOK
  BY InitType, NextType, PTL DEF Spec

-----------------------------------------------------------------------------
(* The indexes, entry by entry.                                            *)

\* What a step that evicts `gone` and commits `staged` does to each entry.
EntryStep(gone, staged) ==
  \A u \in URIs :
    /\ u \in DOMAIN staged =>
         /\ documents'[u] = staged[u].value
         /\ documentDialects'[u] = staged[u].dialectUri
         /\ locations'[u] = staged[u].location
         /\ anchors'[u] = staged[u].anchors
         /\ dynamicAnchors'[u] = staged[u].dynamicAnchors
    /\ u \notin DOMAIN staged /\ u \in gone =>
         /\ documents'[u] = None
         /\ documentDialects'[u] = None
         /\ locations'[u] = None
         /\ anchors'[u] = {}
         /\ dynamicAnchors'[u] = {}
         /\ u \notin recursiveRoots'
    /\ u \notin DOMAIN staged /\ u \notin gone =>
         /\ documents'[u] = documents[u]
         /\ documentDialects'[u] = documentDialects[u]
         /\ locations'[u] = locations[u]
         /\ anchors'[u] = anchors[u]
         /\ dynamicAnchors'[u] = dynamicAnchors[u]
         /\ u \in recursiveRoots' => u \in recursiveRoots

GoneBy(base) == IF IsDocument(base) THEN Evicted(base) ELSE {}

LEMMA GoneFacts ==
  ASSUME NEW d
  PROVE  /\ Evicted(d) \subseteq OwnedBy(d)
         /\ GoneBy(d) \subseteq OwnedBy(d)
  BY DEF Evicted, GoneBy

LEMMA CommitEntries ==
  ASSUME NEW base, NEW staged, NEW r, NEW ranged,
         RegisterStep(base, staged, r, ranged)
  PROVE  EntryStep(GoneBy(base), staged)
  <1> USE DEF RegisterStep
  <1> DEFINE claimed == DOMAIN staged
  <1>1. /\ documents' =
              Rewrite(documents, GoneBy(base), None, [u \in claimed |-> staged[u].value])
        /\ documentDialects' =
              Rewrite(documentDialects, GoneBy(base), None, [u \in claimed |-> staged[u].dialectUri])
        /\ locations' =
              Rewrite(locations, GoneBy(base), None, [u \in claimed |-> staged[u].location])
        /\ anchors' =
              Rewrite(anchors, GoneBy(base), {}, [u \in claimed |-> staged[u].anchors])
        /\ dynamicAnchors' =
              Rewrite(dynamicAnchors, GoneBy(base), {}, [u \in claimed |-> staged[u].dynamicAnchors])
    BY DEF Commit, Reanchored, GoneBy
  <1>2. /\ recursiveRoots' = (recursiveRoots \ (GoneBy(base) \union claimed))
                               \union {u \in claimed : staged[u].recursiveRoot}
    BY DEF Commit, GoneBy
  <1>3. SUFFICES ASSUME NEW u \in URIs
        PROVE  EntryStep(GoneBy(base), staged)!(u)
    BY DEF EntryStep
  <1>4. QED
    BY <1>1, <1>2 DEF Rewrite

LEMMA UnregisterEntries ==
  ASSUME NEW uri \in URIs, Unregister(uri)
  PROVE  EntryStep(Evicted(Canonical(uri)), << >>)
  <1>1. DOMAIN << >> = {}
    OBVIOUS
  <1>2. SUFFICES ASSUME NEW u \in URIs
        PROVE  EntryStep(Evicted(Canonical(uri)), << >>)!(u)
    BY DEF EntryStep
  <1>3. QED
    BY <1>1 DEF Unregister, Rewrite

\* Staged entries are real entries.
LEMMA StagedFacts ==
  ASSUME NEW base, NEW staged, NEW r, StageOK(base, staged, r), NEW u \in DOMAIN staged
  PROVE  /\ staged[u].value # None
         /\ staged[u].dialectUri # None
         /\ staged[u].location # None
         /\ staged[u].location.documentUri = base
  <1>1. staged[u] \in StagedSet
    BY DEF StageOK
  <1>2. QED
    BY <1>1, NoneFacts DEF StageOK, StagedSet

-----------------------------------------------------------------------------
(* The indexes describe one set of resources.                              *)

LEMMA RegisterIndexes ==
  ASSUME TypeOK, IndexesAgree, NEW base, NEW staged, NEW r, NEW ranged,
         RegisterStep(base, staged, r, ranged)
  PROVE  IndexesAgree'
  <1>1. EntryStep(GoneBy(base), staged)
    BY CommitEntries
  <1>2. dialects' = dialects /\ StageOK(base, staged, r)
    BY DEF RegisterStep
  <1>3. SUFFICES ASSUME NEW u \in URIs
        PROVE  /\ documents'[u] # None <=> locations'[u] # None
               /\ documents'[u] # None <=> documentDialects'[u] # None
               /\ documentDialects'[u] \in dialects' \union {None}
               /\ anchors'[u] # {} \/ u \in recursiveRoots' => documents'[u] # None
               /\ dynamicAnchors'[u] \subseteq anchors'[u]
    BY DEF IndexesAgree, Registered
  <1>4. CASE u \in DOMAIN staged
    BY <1>1, <1>2, <1>4, StagedFacts DEF EntryStep, StageOK
  <1>5. CASE u \notin DOMAIN staged
    BY <1>1, <1>2, <1>5 DEF EntryStep, IndexesAgree, Registered
  <1>6. QED  BY <1>4, <1>5

LEMMA UnregisterIndexes ==
  ASSUME TypeOK, IndexesAgree, NEW uri \in URIs, Unregister(uri)
  PROVE  IndexesAgree'
  <1>1. EntryStep(Evicted(Canonical(uri)), << >>) /\ DOMAIN << >> = {}
    BY UnregisterEntries
  <1>2. dialects' = dialects
    BY DEF Unregister
  <1>3. QED
    BY <1>1, <1>2 DEF EntryStep, IndexesAgree, Registered

LEMMA QuietIndexes == IndexesAgree /\ QuietStep => IndexesAgree'
  BY DEF IndexesAgree, QuietStep, Registered, indexes

-----------------------------------------------------------------------------
(* Document roots own; aliases hide nothing foreign.                       *)

LEMMA RegisterRoots ==
  ASSUME TypeOK, RootsOwn, NEW base, NEW staged, NEW r, NEW ranged,
         RegisterStep(base, staged, r, ranged)
  PROVE  RootsOwn'
  <1> DEFINE claimed == DOMAIN staged
  <1>1. EntryStep(GoneBy(base), staged)
    BY CommitEntries
  <1>2. StageOK(base, staged, r)
    BY DEF RegisterStep
  <1>3. /\ ownedResources' = [u \in URIs |-> IF u = base THEN claimed
                                ELSE IF u \in Absorbed(claimed, base) THEN {}
                                ELSE ownedResources[u]]
        /\ documentRanges' \subseteq (documentRanges \ Absorbed(claimed, base)) \union {base}
    BY DEF RegisterStep, Commit
  <1>4. base \in URIs /\ base \in claimed /\ claimed \in SUBSET URIs
    BY <1>2 DEF StageOK
  <1>5. SUFFICES ASSUME NEW d \in URIs
        PROVE  /\ IsDocument(d)' <=> ownedResources'[d] # {}
               /\ IsDocument(d)' => d \in ownedResources'[d]
               /\ d \in documentRanges' => IsDocument(d)'
    BY DEF RootsOwn
  <1>6. IsDocument(d)' <=> locations'[d] # None /\ locations'[d].documentUri = d
    BY DEF IsDocument, OwnedBy
  <1>7. IsDocument(d) <=> locations[d] # None /\ locations[d].documentUri = d
    BY DEF IsDocument, OwnedBy
  <1>8. CASE d = base
    <2>1. IsDocument(d)'
      BY <1>1, <1>2, <1>4, <1>6, <1>8, StagedFacts DEF EntryStep
    <2>2. QED  BY <2>1, <1>3, <1>4, <1>8
  <1>9. CASE d # base /\ d \in claimed
    <2>1. ~IsDocument(d)'
      BY <1>1, <1>2, <1>6, <1>9, StagedFacts DEF EntryStep
    <2>2. ownedResources'[d] = {}
      BY <1>3, <1>9 DEF Absorbed, RootsOwn
    <2>3. d \notin documentRanges'
      BY <1>3, <1>9 DEF Absorbed, RootsOwn
    <2>4. QED  BY <2>1, <2>2, <2>3
  <1>10. CASE d \notin claimed
    <2>1. d # base /\ d \notin Absorbed(claimed, base)
      BY <1>4, <1>10 DEF Absorbed
    <2>2. IsDocument(d)' <=> IsDocument(d)
      <3>1. CASE d \in GoneBy(base)
        BY <1>1, <1>6, <1>7, <1>10, <2>1, <3>1, GoneFacts, OwnedByFacts DEF EntryStep
      <3>2. CASE d \notin GoneBy(base)
        BY <1>1, <1>6, <1>7, <1>10, <3>2 DEF EntryStep
      <3>3. QED  BY <3>1, <3>2
    <2>3. QED  BY <1>3, <2>1, <2>2 DEF RootsOwn
  <1>11. QED  BY <1>8, <1>9, <1>10

LEMMA UnregisterRoots ==
  ASSUME TypeOK, RootsOwn, NEW uri \in URIs, Unregister(uri)
  PROVE  RootsOwn'
  <1> DEFINE doc == Canonical(uri)
  <1>1. EntryStep(Evicted(doc), << >>) /\ DOMAIN << >> = {}
    BY UnregisterEntries
  <1>2. /\ IsDocument(doc)
        /\ ownedResources' = [ownedResources EXCEPT ![doc] = {}]
        /\ documentRanges' = documentRanges \ {doc}
    BY DEF Unregister
  <1> HIDE DEF doc
  <1>3. doc \in URIs /\ doc \in Evicted(doc)
    BY <1>2 DEF Evicted, IsDocument, OwnedBy, RootsOwn
  <1>4. SUFFICES ASSUME NEW d \in URIs
        PROVE  /\ IsDocument(d)' <=> ownedResources'[d] # {}
               /\ IsDocument(d)' => d \in ownedResources'[d]
               /\ d \in documentRanges' => IsDocument(d)'
    BY DEF RootsOwn
  <1>5. /\ IsDocument(d)' <=> locations'[d] # None /\ locations'[d].documentUri = d
        /\ IsDocument(d) <=> locations[d] # None /\ locations[d].documentUri = d
    BY DEF IsDocument, OwnedBy
  <1>6. CASE d = doc
    <2>1. ~IsDocument(d)'
      BY <1>1, <1>3, <1>5, <1>6 DEF EntryStep
    <2>2. QED  BY <2>1, <1>2, <1>6 DEF TypeOK
  <1>7. CASE d # doc
    <2>1. IsDocument(d)' <=> IsDocument(d)
      <3>1. CASE d \in Evicted(doc)
        BY <1>1, <1>5, <1>7, <3>1, GoneFacts, OwnedByFacts DEF EntryStep
      <3>2. CASE d \notin Evicted(doc)
        BY <1>1, <1>5, <3>2 DEF EntryStep
      <3>3. QED  BY <3>1, <3>2
    <2>2. QED  BY <1>2, <1>7, <2>1 DEF RootsOwn, TypeOK
  <1>8. QED  BY <1>6, <1>7

LEMMA QuietRoots == RootsOwn /\ QuietStep => RootsOwn'
  BY DEF RootsOwn, QuietStep, IsDocument, OwnedBy, indexes

LEMMA RegisterAliases ==
  ASSUME TypeOK, AliasHidesOnlyItsOwn, NEW base, NEW staged, NEW r, NEW ranged,
         RegisterStep(base, staged, r, ranged)
  PROVE  AliasHidesOnlyItsOwn'
  <1>1. EntryStep(GoneBy(base), staged)
    BY CommitEntries
  <1>2. StageOK(base, staged, r)
    BY DEF RegisterStep
  <1>3. aliases' = Aliased(IF IsDocument(base) THEN AliasesWithout(base) ELSE aliases, r, base)
    BY DEF RegisterStep, Commit
  <1>4. SUFFICES ASSUME NEW a \in URIs, aliases'[a] # None, documents'[a] # None
        PROVE  locations'[a].documentUri = aliases'[a]
    BY DEF AliasHidesOnlyItsOwn, Registered
  <1>5. CASE a = r /\ r # base
    <2>1. documents[a] = None /\ r \in URIs
      BY <1>2, <1>5 DEF StageOK, RetrievalFree
    <2>2. a \in DOMAIN staged
      BY <1>1, <1>4, <2>1 DEF EntryStep
    <2>3. aliases'[a] = base
      BY <1>3, <1>5, <2>1 DEF Aliased, AliasesWithout, TypeOK
    <2>4. QED  BY <1>1, <1>2, <2>2, <2>3, StagedFacts DEF EntryStep
  <1>6. CASE ~(a = r /\ r # base)
    <2>1. aliases[a] # None /\ aliases'[a] = aliases[a]
      BY <1>3, <1>4, <1>6 DEF Aliased, AliasesWithout, TypeOK
    <2>2. a \notin DOMAIN staged
      BY <1>2, <2>1 DEF StageOK
    <2>3. documents[a] # None /\ locations'[a] = locations[a]
      BY <1>1, <1>4, <2>2 DEF EntryStep
    <2>4. QED  BY <2>1, <2>3 DEF AliasHidesOnlyItsOwn, Registered
  <1>7. QED  BY <1>5, <1>6

LEMMA UnregisterAliases ==
  ASSUME TypeOK, AliasHidesOnlyItsOwn, NEW uri \in URIs, Unregister(uri)
  PROVE  AliasHidesOnlyItsOwn'
  <1>1. EntryStep(Evicted(Canonical(uri)), << >>) /\ DOMAIN << >> = {}
    BY UnregisterEntries
  <1>2. aliases' = AliasesWithout(Canonical(uri))
    BY DEF Unregister
  <1>3. QED
    BY <1>1, <1>2 DEF EntryStep, AliasesWithout, AliasHidesOnlyItsOwn, Registered

LEMMA QuietAliases == AliasHidesOnlyItsOwn /\ QuietStep => AliasHidesOnlyItsOwn'
  BY DEF AliasHidesOnlyItsOwn, QuietStep, Registered, indexes

-----------------------------------------------------------------------------
(* The inductive invariant and the theorems.                               *)

\* AliasHidesOnlyItsOwn, RootsOwn and IndexesAgree are each inductive beside
\* the types; the coverage union is inductive on its own.
IInv == TypeOK /\ IndexesAgree /\ RootsOwn /\ AliasHidesOnlyItsOwn /\ CoverageExact

LEMMA InitInv == Init => IInv
  <1>1. SUFFICES ASSUME Init PROVE IInv
    OBVIOUS
  <1>2. /\ \A u \in URIs : /\ documents[u] = None /\ locations[u] = None
                          /\ documentDialects[u] = None /\ aliases[u] = None
                          /\ anchors[u] = {} /\ dynamicAnchors[u] = {}
                          /\ ownedResources[u] = {}
        /\ recursiveRoots = {} /\ documentRanges = {}
    BY <1>1 DEF Init
  <1>3. IndexesAgree /\ RootsOwn /\ AliasHidesOnlyItsOwn
    BY <1>2 DEF IndexesAgree, RootsOwn, AliasHidesOnlyItsOwn, Registered, IsDocument, OwnedBy
  <1>4. CoverageExact
    BY <1>1 DEF Init, CoverageExact
  <1>5. QED
    BY <1>1, <1>3, <1>4, InitType DEF IInv

LEMMA NextCoverage == TypeOK /\ CoverageExact /\ [Next]_vars => CoverageExact'
  <1>1. SUFFICES ASSUME TypeOK, CoverageExact, [Next]_vars PROVE CoverageExact'
    OBVIOUS
  <1>2. CASE \E v \in Documents, r \in URIs, d \in Dialects, ranged \in BOOLEAN :
               Register(v, r, d, ranged)
    <2>1. PICK v, w : CommitFacts(v, w)
      BY <1>2 DEF Register
    <2>2. QED
      BY <1>1, <2>1 DEF CommitFacts, CoverageExact
  <1>3. CASE \E u \in URIs : Unregister(u)
    BY <1>1, <1>3 DEF Unregister, facts, CoverageExact
  <1>4. CASE QuietStep
    BY <1>1, <1>4 DEF QuietStep, facts, CoverageExact
  <1>5. QED
    BY <1>1, <1>2, <1>3, <1>4, QuietSteps DEF Next

LEMMA NextInv == IInv /\ [Next]_vars => IInv'
  <1>1. SUFFICES ASSUME IInv, [Next]_vars PROVE IInv'
    OBVIOUS
  <1>2. TypeOK' /\ CoverageExact'
    BY <1>1, NextType, NextCoverage DEF IInv
  <1>3. CASE \E base, staged, r, ranged : RegisterStep(base, staged, r, ranged)
    BY <1>1, <1>2, <1>3, RegisterIndexes, RegisterRoots, RegisterAliases DEF IInv
  <1>4. CASE \E u \in URIs : Unregister(u)
    BY <1>1, <1>2, <1>4, UnregisterIndexes, UnregisterRoots, UnregisterAliases DEF IInv
  <1>5. CASE QuietStep
    BY <1>1, <1>2, <1>5, QuietIndexes, QuietRoots, QuietAliases DEF IInv
  <1>6. QED
    BY <1>1, <1>3, <1>4, <1>5, StepCases DEF IInv

LEMMA InvHolds == Spec => []IInv
  BY InitInv, NextInv, PTL DEF Spec

\* commit and evict keep the per-resource indexes in step.
THEOREM IndexesStayInStep == Spec => []IndexesAgree
  BY InvHolds, PTL DEF IInv

\* The eviction index knows exactly the document roots.
THEOREM RootsStayOwned == Spec => []RootsOwn
  BY InvHolds, PTL DEF IInv

\* No alias hides a resource another registration put there.
THEOREM AliasesHideNothingForeign == Spec => []AliasHidesOnlyItsOwn
  BY InvHolds, PTL DEF IInv

\* The incremental coverage union is the intersection.
THEOREM CoverageStaysExact == Spec => []CoverageExact
  BY InvHolds, PTL DEF IInv

-----------------------------------------------------------------------------
(* What a step may never do.                                               *)

LEMMA StepKeepsSchemas ==
  ASSUME IInv, [Next]_vars, NEW u \in URIs, Registered(u), Registered(u)'
  PROVE  documents'[u] = documents[u]
  <1>1. CASE \E base, staged, r, ranged : RegisterStep(base, staged, r, ranged)
    <2>1. PICK base, staged, r, ranged : RegisterStep(base, staged, r, ranged)
      BY <1>1
    <2>2. EntryStep(GoneBy(base), staged) /\ StageOK(base, staged, r)
      BY <2>1, CommitEntries DEF RegisterStep
    <2>3. QED  BY <2>2 DEF EntryStep, StageOK, Registered
  <1>2. CASE \E uri \in URIs : Unregister(uri)
    <2>1. PICK uri \in URIs : Unregister(uri)
      BY <1>2
    <2>2. EntryStep(Evicted(Canonical(uri)), << >>) /\ DOMAIN << >> = {}
      BY <2>1, UnregisterEntries
    <2>3. QED  BY <2>2 DEF EntryStep, Registered
  <1>3. CASE QuietStep
    BY <1>3 DEF QuietStep, indexes
  <1>4. QED  BY <1>1, <1>2, <1>3, StepCases DEF IInv

\* One resource, one schema: no call overwrites a registered schema.
THEOREM SchemasAreNotReplaced == Spec => OneSchemaPerURI
  <1>1. IInv /\ [Next]_vars =>
          [\A u \in URIs : Registered(u) /\ Registered(u)' => documents'[u] = documents[u]]_vars
    BY StepKeepsSchemas
  <1>2. QED
    BY <1>1, InvHolds, PTL DEF Spec, OneSchemaPerURI

LEMMA StepRemovesOneDocument ==
  ASSUME IInv, [Next]_vars, NEW u \in URIs, Registered(u), ~Registered(u)'
  PROVE  /\ u \notin ownedResources'[locations[u].documentUri]
         /\ \A x \in URIs \ OwnedBy(locations[u].documentUri) :
              Registered(x) => Registered(x)'
  <1> DEFINE d == locations[u].documentUri
  <1>1. CASE \E base, staged, r, ranged : RegisterStep(base, staged, r, ranged)
    <2>1. PICK base, staged, r, ranged : RegisterStep(base, staged, r, ranged)
      BY <1>1
    <2>2. EntryStep(GoneBy(base), staged) /\ StageOK(base, staged, r)
      BY <2>1, CommitEntries DEF RegisterStep
    <2>3. \A x \in DOMAIN staged : x \in URIs /\ documents'[x] # None
      BY <2>2, StagedFacts DEF EntryStep, StageOK
    <2>4. u \notin DOMAIN staged /\ u \in GoneBy(base)
      BY <2>2, <2>3 DEF EntryStep, Registered
    <2>5. d = base
      BY <2>4, GoneFacts, OwnedByFacts
    <2>6. ownedResources'[base] = DOMAIN staged
      BY <2>1, <2>2 DEF RegisterStep, Commit, StageOK
    <2>7. \A x \in URIs \ OwnedBy(d) : Registered(x) => Registered(x)'
      BY <2>2, <2>3, <2>5, GoneFacts DEF EntryStep, Registered
    <2>8. QED  BY <2>4, <2>5, <2>6, <2>7
  <1>2. CASE \E uri \in URIs : Unregister(uri)
    <2>1. PICK uri \in URIs : Unregister(uri)
      BY <1>2
    <2>2. EntryStep(Evicted(Canonical(uri)), << >>) /\ DOMAIN << >> = {}
      BY <2>1, UnregisterEntries
    <2>3. u \in Evicted(Canonical(uri))
      BY <2>2 DEF EntryStep, Registered
    <2>4. d = Canonical(uri)
      BY <2>3, GoneFacts, OwnedByFacts
    <2>5. d \in URIs /\ ownedResources'[d] = {}
      BY <2>1, <2>4 DEF Unregister, IsDocument, OwnedBy, IInv, TypeOK
    <2>6. \A x \in URIs \ OwnedBy(d) : Registered(x) => Registered(x)'
      BY <2>2, <2>4, GoneFacts DEF EntryStep, Registered
    <2>7. QED  BY <2>5, <2>6
  <1>3. CASE QuietStep
    BY <1>3 DEF QuietStep, indexes, Registered
  <1>4. QED  BY <1>1, <1>2, <1>3, StepCases DEF IInv

\* A resource leaves only with the document that owns it.
THEOREM RemovalsFollowOwners == Spec => RemovalFollowsOwner
  <1>1. IInv /\ [Next]_vars =>
          [\A u \in URIs : Registered(u) /\ ~Registered(u)' =>
             LET d == locations[u].documentUri
             IN /\ u \notin ownedResources'[d]
                /\ \A x \in URIs \ OwnedBy(d) : Registered(x) => Registered(x)']_vars
    BY StepRemovesOneDocument
  <1>2. QED
    BY <1>1, InvHolds, PTL DEF Spec, RemovalFollowsOwner
=============================================================================

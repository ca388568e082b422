------------------------------ MODULE AjvFacade ------------------------------
(***************************************************************************)
(* The life of an Ajv instance: the ledger of schemas, keywords and        *)
(* formats that calls add and remove, the engines built from it, and the   *)
(* validators compiled against them, in two caches and in callers' hands.  *)
(*                                                                         *)
(* A schema object o is its identity; Value[o] its contents.  It is one    *)
(* resource, named Id[o] or else what it is registered under, and refers   *)
(* to the resources Refs[o].  Embedded resources, several registrations of *)
(* one name in a document and the rest of SchemaRegistry's rules are left  *)
(* to that module.                                                         *)
(***************************************************************************)
EXTENDS Naturals, FiniteSets, FiniteSetsExt

CONSTANTS
  Objects, Value, Id, Refs,
  Uses,          \* the custom keywords and formats in a schema, by name
  Misuses,       \* the mutating keywords a schema has in a form they refuse
  URIs,          \* keys and resource names
  Keywords, Formats, MutatingKeywords,
  Served,        \* what options.loadSchema answers, by resource
  Slots,         \* names for the engines alive at one time
  Offered,       \* the options an instance is constructed with
  Adds, MetaAdds,  \* the calls offered: pairs of an object and a key or None,
  Removals,        \* sets of keys,
  Compiled, Awaited,  \* and objects given to compile and compileAsync
  Anonymous, None,
  MaxCalls       \* bound of the model: the calls made on one instance

Resources == URIs \union {Anonymous}
Engine == [documents : [Resources -> Objects \union {None}],
           aliases : [Resources -> URIs \union {None}], pending : SUBSET URIs,
           keywords : SUBSET Keywords, formats : SUBSET Formats]
ValidateFunction == [engine : Slots, uri : Resources, schema : Objects,
                     mutating : SUBSET MutatingKeywords]

\* Schemas have the shape they are described in above.
FacadeAssumption ==
  /\ IsFiniteSet(Objects) /\ IsFiniteSet(URIs) /\ IsFiniteSet(Slots)
  /\ Id \in [Objects -> URIs \union {None}]
  /\ Refs \in [Objects -> SUBSET URIs]
  /\ Served \in [URIs -> Objects \union {None}]
  /\ Adds \union MetaAdds \subseteq Objects \X (URIs \union {None})
  /\ Compiled \union Awaited \subseteq Objects
  /\ Offered \subseteq [strict : BOOLEAN, addUsedSchema : BOOLEAN]
  /\ MaxCalls \in Nat
ASSUME FacadeAssumption

\* What marks an absence is not a thing.
AbsenceIsNoThing ==
  /\ None \notin Objects \union URIs \union {Anonymous}
  /\ None \notin Slots \union Engine \union ValidateFunction
  /\ Anonymous \notin URIs
ASSUME AbsenceIsNoThing

VARIABLES
  opts,             \* [strict, addUsedSchema], as constructed
  docs, metaDocs,   \* the ledger: the object filed under each key, or None
  customKeywords, customFormats, mutatingKeywords,
  postProcessing,   \* whether an error post-processor is set
  engines,          \* every engine something still refers to
  engineCache,      \* the shared engine's slot, or None
  compiledByObject, compiledByRef,
  loads,            \* compileAsync calls suspended in their loader
  returned,         \* the last validator compileAsync resolved with, or None
  calls             \* the calls made, to bound them

ledger == <<docs, metaDocs, customKeywords, customFormats, mutatingKeywords>>
caches == <<engines, engineCache, compiledByObject, compiledByRef>>
async  == <<loads, returned>>
vars   == <<opts, ledger, postProcessing, caches, async, calls>>

(***************************************************************************)
(* Engines: their registry, and the names in the dialect built for them.   *)
(***************************************************************************)
Canonical(e, u) == IF e.aliases[u] # None THEN e.aliases[u] ELSE u
Resolved(e, u) == e.documents[Canonical(e, u)]
BaseOf(o, retrieval) == IF Id[o] # None THEN Id[o] ELSE retrieval

\* Faulty: another schema under a taken name replaces the one there.
RegistrableOver(e, o, retrieval) ==
  LET base == BaseOf(o, retrieval)
  IN /\ base # retrieval => /\ e.documents[retrieval] = None
                            /\ e.aliases[retrieval] \in {None, base}
     /\ e.aliases[base] = None

Registrable(e, o, retrieval) ==
  LET base == BaseOf(o, retrieval)
  IN /\ base # retrieval => /\ e.documents[retrieval] = None
                            /\ e.aliases[retrieval] \in {None, base}
     /\ e.aliases[base] = None
     /\ e.documents[base] # None => Value[e.documents[base]] = Value[o]

\* Faulty: a resource registered again does not say again what it refers to.
RegisteredOnce(e, o, retrieval) ==
  LET base == BaseOf(o, retrieval)
  IN [e EXCEPT !.documents[base] = o,
               !.aliases[retrieval] = IF base = retrieval THEN @ ELSE base,
               !.pending = @ \union (IF e.documents[base] # None THEN {} ELSE Refs[o])]

Registered(e, o, retrieval) ==
  LET base == BaseOf(o, retrieval)
  IN [e EXCEPT !.documents[base] = o,
               !.aliases[retrieval] = IF base = retrieval THEN @ ELSE base,
               !.pending = @ \union Refs[o]]

\* A registration that is refused makes the whole build throw.
Failed == None
RegisterIn(e, o, retrieval) ==
  IF e # Failed /\ Registrable(e, o, retrieval) THEN Registered(e, o, retrieval) ELSE Failed

Unresolved(e) == {u \in e.pending : Resolved(e, u) = None}
Drained(e) == [e EXCEPT !.pending = {}]

EmptyEngine ==
  [documents |-> [u \in Resources |-> None], aliases |-> [u \in Resources |-> None],
   pending |-> {}, keywords |-> customKeywords, formats |-> customFormats]

\* Registration order does not matter here: of two entries that conflict, the
\* second is refused whichever it is.
Filed(book) == {k \in URIs : book[k] # None}
RegisterAll(e, book) ==
  FoldSet(LAMBDA k, built : RegisterIn(built, book[k], k), e, Filed(book))
Built == RegisterAll(RegisterAll(EmptyEngine, metaDocs), docs)

(***************************************************************************)
(* Validators, and which engines they keep alive.                          *)
(***************************************************************************)
Validator(slot, uri, o, mutating) ==
  [engine |-> slot, uri |-> uri, schema |-> o, mutating |-> mutating]

ValidatorsIn(byObject, byRef, last) ==
  ({byObject[o] : o \in Objects} \union {byRef[k] : k \in URIs} \union {last}) \ {None}
Validators == ValidatorsIn(compiledByObject, compiledByRef, returned)

Free == {s \in Slots : engines[s] = None}
NewSlot == CHOOSE s \in Free : TRUE

\* What nothing refers to any more is gone.
Collected(heap, shared, byObject, byRef, suspended, last) ==
  LET alive == {shared} \union {v.engine : v \in ValidatorsIn(byObject, byRef, last)}
               \union {l.engine : l \in suspended}
  IN [s \in Slots |-> IF s \in alive THEN heap[s] ELSE None]

(***************************************************************************)
(* The ledger.  Every call that changes it drops the shared engine and the *)
(* validators filed by key; the ones filed by object stay.                 *)
(***************************************************************************)
Counted == calls < MaxCalls /\ calls' = calls + 1

NoValidators == [k \in URIs |-> None]

\* Faulty: the validators filed by key stay.
InvalidateEngineOnly ==
  /\ Counted
  /\ engineCache' = None
  /\ engines' = Collected(engines, None, compiledByObject, compiledByRef, loads, returned)
  /\ UNCHANGED <<opts, postProcessing, compiledByObject, compiledByRef, async>>

Invalidate ==
  /\ Counted
  /\ engineCache' = None
  /\ compiledByRef' = NoValidators
  /\ engines' = Collected(engines, None, compiledByObject, NoValidators, loads, returned)
  /\ UNCHANGED <<opts, postProcessing, compiledByObject, async>>

KeyFor(o, key) == IF key # None THEN key ELSE Id[o]

\* A key or $id that is taken is refused, as is a schema without either.
AddSchema(o, key) ==
  LET id == KeyFor(o, key)
  IN /\ id # None
     /\ docs[id] = None
     /\ docs' = [docs EXCEPT ![id] = o]
     /\ Invalidate
     /\ UNCHANGED <<metaDocs, customKeywords, customFormats, mutatingKeywords>>

AddMetaSchema(o, key) ==
  LET id == KeyFor(o, key)
  IN /\ id # None
     /\ metaDocs' = [metaDocs EXCEPT ![id] = o]
     /\ Invalidate
     /\ UNCHANGED <<docs, customKeywords, customFormats, mutatingKeywords>>

\* By key, by regular expression, by object or altogether: some of the keys.
RemoveSchema(keys) ==
  /\ docs' = [k \in URIs |-> IF k \in keys THEN None ELSE docs[k]]
  /\ Invalidate
  /\ UNCHANGED <<metaDocs, customKeywords, customFormats, mutatingKeywords>>

AddKeyword(name) ==
  /\ customKeywords' = customKeywords \union {name}
  /\ Invalidate
  /\ UNCHANGED <<docs, metaDocs, customFormats, mutatingKeywords>>

\* Removing one that was not added is refused.
RemoveKeyword(name) ==
  /\ name \in customKeywords
  /\ customKeywords' = customKeywords \ {name}
  /\ Invalidate
  /\ UNCHANGED <<docs, metaDocs, customFormats, mutatingKeywords>>

AddFormat(name) ==
  /\ customFormats' = customFormats \union {name}
  /\ Invalidate
  /\ UNCHANGED <<docs, metaDocs, customKeywords, mutatingKeywords>>

ActivateMutatingKeyword(name) ==
  /\ mutatingKeywords' = mutatingKeywords \union {name}
  /\ Invalidate
  /\ UNCHANGED <<docs, metaDocs, customKeywords, customFormats>>

SetErrorPostProcessor ==
  /\ Counted
  /\ postProcessing' = TRUE
  /\ UNCHANGED <<opts, ledger, caches, async>>

(***************************************************************************)
(* Compilation.  A world is what a call has made of the engines so far:    *)
(* the heap and the shared engine's slot.                                  *)
(***************************************************************************)
\* engine(): a build that throws leaves no cache.
SharedSlot == IF engineCache # None THEN engineCache ELSE IF Built # Failed THEN NewSlot ELSE None
SharedEngine == IF engineCache # None THEN engines[engineCache] ELSE Built

Known == customKeywords \union customFormats \union mutatingKeywords
         \union (IF postProcessing THEN {"errorMessage"} ELSE {})
StrictSchemaCheck(o) == opts.strict => Uses[o] \subseteq Known
CheckMutatingKeywordSchema(o) == Misuses[o] \intersect mutatingKeywords = {}

\* Faulty: the shared engine takes everything.
IsAnonymousNever(o, key) == FALSE

IsAnonymous(o, key) == key = None /\ Id[o] = None
Retrieval(o, key) ==
  IF key # None THEN key ELSE IF Id[o] # None THEN Id[o] ELSE Anonymous

\* The call throws; the shared engine it may have built, or changed, stays.
Leave(slot, engine) ==
  LET heap == IF slot = None THEN engines ELSE [engines EXCEPT ![slot] = engine]
  IN /\ engines' = Collected(heap, slot, compiledByObject, compiledByRef, loads, returned)
     /\ engineCache' = slot
     /\ UNCHANGED <<compiledByObject, compiledByRef>>

\* makeValidate, and the caches the validator goes to.
Keep(o, key, slot, engine, shared, sharedEngine) ==
  LET v     == Validator(slot, BaseOf(o, Retrieval(o, key)), o, mutatingKeywords)
      named == {key} \union (IF opts.addUsedSchema THEN {Id[o]} ELSE {})
      byObject == [compiledByObject EXCEPT ![o] = v]
      byRef == [k \in URIs |-> IF k \in named THEN v ELSE compiledByRef[k]]
      heap  == [s \in Slots |-> IF s = slot THEN engine
                                ELSE IF s = shared THEN sharedEngine ELSE engines[s]]
  IN /\ compiledByObject' = byObject
     /\ compiledByRef' = byRef
     /\ engineCache' = shared
     /\ engines' = Collected(heap, shared, byObject, byRef, loads, returned)

\* References left over from earlier registrations are drained before the
\* schema is registered, so that only its own are missed.
Prepared(e) == Drained(e)
Missing(e) == Unresolved(e)

\* An engine of the call's own, while the shared one stays what it is.
CompileApart(o, shared) ==
  LET own == RegisterIn(Prepared(Built), o, Anonymous)
      slot == CHOOSE s \in Free \ {shared} : TRUE
  IN IF Built = Failed \/ own = Failed \/ Missing(own) # {} THEN Leave(shared, SharedEngine)
     ELSE Keep(o, None, slot, Drained(own), shared, SharedEngine)

CompileShared(o, key) ==
  LET prepared == Prepared(SharedEngine)
      after == RegisterIn(prepared, o, Retrieval(o, key))
  IN IF SharedSlot = None THEN Leave(None, Failed)
     ELSE IF after = Failed THEN Leave(SharedSlot, prepared)
     ELSE IF Missing(after) # {} THEN Leave(SharedSlot, Drained(after))
     ELSE Keep(o, key, SharedSlot, Drained(after), SharedSlot, Drained(after))

CompileTarget(o, key) ==
  IF IsAnonymous(o, key)
  THEN CompileApart(o, IF opts.strict THEN SharedSlot ELSE engineCache)
  ELSE CompileShared(o, key)

CompileAt(o, key) ==
  /\ Counted
  /\ Cardinality(Free) >= 2
  /\ IF ~StrictSchemaCheck(o) \/ ~CheckMutatingKeywordSchema(o) \/ (opts.strict /\ SharedSlot = None)
     THEN Leave(IF opts.strict THEN SharedSlot ELSE engineCache, SharedEngine)
     ELSE CompileTarget(o, key)
  /\ UNCHANGED <<opts, ledger, postProcessing, async>>

\* A hit answers from the cache and changes nothing.
Compile(o) ==
  /\ compiledByObject[o] = None
  /\ CompileAt(o, None)

GetSchema(key) ==
  /\ compiledByRef[key] = None
  /\ docs[key] # None
  /\ CompileAt(docs[key], key)

(***************************************************************************)
(* compileAsync: an engine of its own, whose loader the call awaits.       *)
(***************************************************************************)
Suspend(suspended, heap, last) ==
  /\ loads' = suspended
  /\ returned' = last
  /\ engines' = Collected(heap, engineCache, compiledByObject, compiledByRef, suspended, last)
  /\ UNCHANGED <<opts, ledger, postProcessing, engineCache, compiledByObject, compiledByRef>>

CompileAsync(o) ==
  LET retrieval == Retrieval(o, None)
      own == RegisterIn(Built, o, retrieval)
      slot == NewSlot
  IN /\ Counted
     /\ Free # {}
     /\ own # Failed
     /\ Suspend(loads \union {[engine |-> slot, schema |-> o, uri |-> BaseOf(o, retrieval)]},
                [engines EXCEPT ![slot] = own], returned)

\* The loader answers; a resource it does not have is passed over, one that
\* is refused rejects the call.
LoadArrives(l, u) ==
  LET e    == [engines[l.engine] EXCEPT !.pending = @ \ {u}]
      next == IF Resolved(e, u) # None \/ Served[u] = None THEN e ELSE RegisterIn(e, Served[u], u)
  IN /\ UNCHANGED calls
     /\ u \in engines[l.engine].pending
     /\ IF next = Failed
        THEN Suspend(loads \ {l}, engines, returned)
        ELSE Suspend(loads, [engines EXCEPT ![l.engine] = next], returned)

LoadEnds(l) ==
  /\ UNCHANGED calls
  /\ engines[l.engine].pending = {}
  /\ Suspend(loads \ {l}, engines, Validator(l.engine, l.uri, l.schema, mutatingKeywords))

Init ==
  /\ opts \in Offered
  /\ docs = NoValidators
  /\ metaDocs = NoValidators
  /\ customKeywords = {}
  /\ customFormats = {}
  /\ mutatingKeywords = {}
  /\ postProcessing = FALSE
  /\ engines = [s \in Slots |-> None]
  /\ engineCache = None
  /\ compiledByObject = [o \in Objects |-> None]
  /\ compiledByRef = NoValidators
  /\ loads = {}
  /\ returned = None
  /\ calls = 0

Next ==
  \/ \E a \in Adds : AddSchema(a[1], a[2])
  \/ \E a \in MetaAdds : AddMetaSchema(a[1], a[2])
  \/ \E keys \in Removals : RemoveSchema(keys)
  \/ \E name \in Keywords : AddKeyword(name) \/ RemoveKeyword(name)
  \/ \E name \in Formats : AddFormat(name)
  \/ \E name \in MutatingKeywords : ActivateMutatingKeyword(name)
  \/ SetErrorPostProcessor
  \/ \E o \in Compiled : Compile(o)
  \/ \E key \in URIs : GetSchema(key)
  \/ \E o \in Awaited : CompileAsync(o)
  \/ \E l \in loads : \E u \in URIs : LoadArrives(l, u)
  \/ \E l \in loads : LoadEnds(l)

Spec == Init /\ [][Next]_vars

(***************************************************************************)
(* Properties.                                                             *)
(***************************************************************************)
\* The resources an evaluation from uri can get to, by the names it uses.
NamesReached(e, uri) ==
  LET from(names) ==
        UNION {IF Resolved(e, u) = None THEN {} ELSE Refs[Resolved(e, u)] : u \in names}
      reached[n \in 0..Cardinality(Objects)] ==
        IF n = 0 THEN {uri} ELSE reached[n - 1] \union from(reached[n - 1])
  IN reached[Cardinality(Objects)]

SameSchema(o, p) == o # None /\ p # None /\ Value[o] = Value[p]

\* The shared engine is what the ledger as it stands builds, plus schemas
\* compiled under their own $id: nothing that was removed or replaced.
SharedEngineIsCurrent ==
  engineCache # None =>
    LET e == engines[engineCache]
    IN /\ Built # Failed
       /\ \A u \in URIs : Resolved(Built, u) # None => SameSchema(Resolved(e, u), Resolved(Built, u))
       /\ \A u \in Resources : e.documents[u] # None =>
            SameSchema(e.documents[u], Built.documents[u]) \/ Id[e.documents[u]] = u
       /\ e.keywords = customKeywords /\ e.formats = customFormats

\* A validator filed by key belongs to that engine, and answers for the schema
\* that is filed under the key and that a reference to the key resolves to.
RefCacheIsCurrent ==
  \A k \in URIs : compiledByRef[k] # None =>
    LET v == compiledByRef[k]
    IN /\ v.engine = engineCache
       /\ SameSchema(v.schema, Resolved(engines[engineCache], k))
       /\ docs[k] # None => SameSchema(v.schema, docs[k])

\* The shared engine, and the cache by reference that getSchema and compile look
\* up keys in, are never older than the ledger, whatever was added, removed or
\* refused in between.  The cache by schema object is not: compile asks it first,
\* no change empties it, and it hands out the snapshot it made (COMPAT.md:95).
CachesAreCurrent == SharedEngineIsCurrent /\ RefCacheIsCurrent

\* "Anonymous schemas compile against a private engine so the SHARED registry
\* never accretes" them, and "the fn's closure is the private engine's only
\* holder"; likewise the engine of a compileAsync that is still loading.
PrivateEnginesStayPrivate ==
  /\ engineCache # None => engines[engineCache].documents[Anonymous] = None
  /\ \A v \in Validators : v.uri = Anonymous =>
       /\ v.engine # engineCache
       /\ \A w \in Validators \ {v} : w.engine # v.engine
  /\ \A l \in loads :
       /\ l.engine \notin {engineCache} \union {v.engine : v \in Validators}
       /\ \A m \in loads \ {l} : m.engine # l.engine

\* compile() throws on a missing reference instead of "leaving a broken fn in
\* the object cache": every validator a cache holds resolves its schema's own
\* references, however many calls failed in its engine before.
OwnReferencesResolve ==
  \A v \in ValidatorsIn(compiledByObject, compiledByRef, None) :
    \A u \in Refs[v.schema] : Resolved(engines[v.engine], u) # None

\* "A compiled ValidateFunction is a compile-time snapshot: schemas added or
\* removed later never change what an existing fn resolves", as far as its
\* engine is concerned: no later call changes a schema it can get to there.
ValidatorsAreSnapshots ==
  [][\A v \in Validators \intersect Validators' :
       LET e == engines[v.engine]
       IN \A u \in NamesReached(e, v.uri) : Resolved(e, u) # None =>
            SameSchema(Resolved(engines'[v.engine], u), Resolved(e, u))]_vars
=============================================================================

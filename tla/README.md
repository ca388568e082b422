# Verification of json-schema-engine

TLA+ models of the engine in `src/packages`, checked with TLC on small
instances and, where noted, proved with TLAPS for every instance. Line numbers
refer to the sources at this commit; `PROJECT.json` maps every definition to
the lines it models.

## 1. The system

`json-schema-engine` evaluates JSON Schema (2020-12, 2019-09, draft-07, 06,
and 04 as an add-on). Its parts, their state, and how they interact:

| Part | Source | State | Operations |
|---|---|---|---|
| Schema registry | `core/src/registry.ts` | resource indexes (schema, dialect, location, anchors, recursive roots), ownership of resources by documents, retrieval aliases, pending references, unions of keyword facts | `register`, `unregister`, `nextUnresolved`, `takeUnresolved`, lookups |
| Registry snapshots and memos | `core/src/registry.ts`, `dialect.ts` | copy-on-write index maps, interned `SchemaRef`s, memo tables, generations | `snapshot`, `resolveRef`, `dynamicReference`, `recursiveReference`, `child` |
| Dialect registry | `core/src/dialect.ts` | vocabularies, dialects, generation | `registerVocabulary`, `registerDialect`, `snapshot` |
| Engine loading | `core/src/index.ts` | loaders, the `assembling` set, suspended calls | `loadSchema`, `load`, `registerSchema` |
| Evaluation | `core/src/engine.ts` | frames of annotations and errors, dynamic scope, active applications, depth, a pooled state per runner | `evaluate`, fragment runner |
| Keywords | `core/src/keywords/*` | none (pure behaviors over the evaluation context) | `analyze`, `evaluate` |
| Output | `core/src/output.ts`, `records.ts`, `result.ts`, `messages.ts` | none | rendering of finished records |
| Compiler | `compiler/src/*` | a plan under construction; an artifact bound to a registry snapshot | `compile`, compiled validation, trampolines |
| AJV facade | `ajv-compat/src/*` | registered documents, custom keywords and formats, three caches | `addSchema`, `compile`, `removeSchema`, mutation fixpoint |
| Formats, draft-04, test kit | `formats`, `dialect-draft04`, `test-kit` | none | pure predicates, tables, harness |

Interactions: the engine owns one dialect registry and one schema registry.
Registration reads the dialect registry (which keywords exist, which
identifier syntax is in force) and calls back into `analyze` of every keyword
it meets; loading drives registration and is driven by the references it
queues and the unknown dialects it reports; evaluation and the compiler read
the registry, the compiler through a frozen snapshot; the AJV facade owns an
engine and rebuilds it when its configuration changes.

Where it is hard:

- **One namespace filled in any order.** Document roots, embedded resources
  and retrieval aliases share URIs; an equal copy of a resource may take it
  over, and a document may be absorbed by another (registry).
- **All or nothing.** Registration stages a walk and must write every index or
  none (registry).
- **Suspension.** Loading is the only asynchronous code. It suspends inside
  nested retries, assemblies and drains, over state every call shares
  (loading).
- **Sharing.** Snapshots share maps, memos and interned references with a
  registry that keeps changing (snapshots).
- **Elision.** Keyword facts decide what evaluation may skip recording, so an
  incomplete union loses data silently (registry facts, evaluation, compiler).
- **Two tiers.** Compiled code must agree with the interpreter through cycles,
  dynamic references and mixed fragments (compiler).

## 2. Modules

Three families. The registry and its loading:

| Module | What it is |
|---|---|
| `SchemaRegistry` | state machine of the registry's writers |
| `MCSchemaRegistry` | its instances: families of small documents |
| `SchemaRegistryProofs` | theorems about `SchemaRegistry` |
| `SchemaWalkProofs` | theorems about what the registration walk stages |
| `EngineLoading` | state machine of concurrent loading calls |
| `MCEngineLoading` | its instances: families of schemas and metaschemas |
| `EngineLoadingProofs` | theorems about `EngineLoading` |
| `InductionLemmas` | induction over numbers and finite sets, recursion, folds |
| `RegistryContents` | what a registry holds and what a reference means there |
| `RegistryViews` | abstract: a registry and its snapshots as plain values |
| `RegistrySnapshots` | detailed: the same over shared maps, memos and interned refs; implements `RegistryViews` |
| `MCRegistrySnapshots` | its instances: an embedded resource and its equal copy |
| `RegistrySnapshotsProofs` | theorems about `RegistrySnapshots`, the refinement among them |

Evaluation, interpreted and compiled, over one description of schemas:

| Module | What it is |
|---|---|
| `Documents` | schema positions, resources, dialects, instances, references |
| `Keywords`, `Assertions` | what each keyword applies, decides, reports and produces |
| `Interpretation` | what an evaluation comes to, as a function: the reference |
| `Evaluation` | state machine of the evaluator and its fragment runner, for any keywords |
| `EvaluationProofs` | theorems about `Evaluation` |
| `Derivations` | what an evaluation comes to, as rules, with no state |
| `DerivationProofs` | theorems about both: the machine keeps to the rules |
| `Output` | the traced evaluation, the selection of annotations, every output format |
| `Lowering` | the facts and the statements each keyword gives the compiler |
| `CompilationPlan` | units, edges, islands, coverage licences, dynamic sites and their settling |
| `CompiledCode` | which functions are emitted, and what running them comes to |
| `CompiledTier` | state machine of `compile` and `compileList`, and of the artifact |
| `MCDocuments` | the pools of keyword forms the two runs below share |
| `MCEvaluation`, `MCCompiledTier` | the instances |

The AJV facade:

| Module | What it is |
|---|---|
| `AjvFacade`, `MCAjvFacade` | state machine of an `Ajv` object: ledger, engines, caches, `compileAsync` |
| `AjvFacadeProofs` | theorems about `AjvFacade` |
| `AjvMutation`, `MCAjvMutation` | state machine of one validate call that rewrites its instance |

### SchemaRegistry

*State.* Each index map of the class is a variable: `documents`,
`documentDialects`, `locations` (`resourceLocations`), `anchors`,
`dynamicAnchors`, `recursiveRoots`, `ownedResources`, `aliases`,
`documentRanges`, `pendingResources`, and the four unions of behavior ids.
Maps are total functions with `None` for "no entry". `dialects` is the dialect
registry beside it.

*Actions.* `Register` (`register`: identification, the retrieval checks, the
walk, staging, the refusals and `commit`), `Unregister`, `NextUnresolved`,
`TakeUnresolved`, and `RegisterDialect`. A refused call changes nothing, so a
refusal is a guard that does not hold; that the *code* changes nothing follows
from its shape (staging is a local value, `commit` cannot throw).

*Data.* A schema is a value; `Sub` gives the value at a pointer of a document,
`SchemaOf` its `$schema`, `Reading` what a dialect's identifier extractor and
keyword table say of one object: identifier, anchors, subschema steps,
references, facts. The walk is the constant table `Walks`, translated from the
recursive `walk`: a position's governing resource is decided by the enclosing
dialect, its contents by its own. Identifiers are absolute, fragment-free
URIs. A dialect is not redefined in this module; metaschema validation (the
`check` callback) is one more reason for a walk to throw.

*Properties.* `IndexesAgree`, `RootsOwn`, `ResourcesAreOwned`,
`EntriesAreCurrent`, `AliasHidesOnlyItsOwn`, `CoverageExact`, `FactsComplete`,
and the action properties `OneSchemaPerURI` and `RemovalFollowsOwner`.

### EngineLoading

*State.* The registry as loading sees it (`documents`, the insertion-ordered
`pending`, `dialects`), the engine's `assembling` set, and for each call the
stack of its suspended async functions. A frame is a function at an await:
`register` (`registerAssembling`), `fetch` (`loadResource`), `meta`,
`assemble`, `settle` (`ensureDialectUri` at its three awaits) and `drain`
(`loadPending`). `target` and `attempts` are history for the properties.

*Atomicity.* A job runs to completion: `turn` names the call whose job is
running, and an action that does not reach an await keeps it. So assembling a
self-describing dialect and trying to register its metaschema happen in one
turn, as in the code, and every await is a point where other calls interleave.

*Actions.* `LoadSchema`, `Load`, `RegisterSchema` for the public calls;
`Register` (one turn of the retry loop, entering `ensureDialectUri` when a
dialect is unknown), `FetchArrives`, `MetaArrives`, `Assemble`, `Settle`,
`Drain`, and `Unwind` (an exception leaving one frame and running its
`finally`).

*Data.* A document is one resource at one URI and has a dialect, embedded
dialects and references. A dialect is named by its metaschema's URI. Checking
a document under `validateSchemas` follows every reference of the metaschema.
A loader answers with its document, with nothing, or throws; one answer stands
for the loaders tried in turn.

*Fairness.* Strong fairness for each call's steps. A loader that was asked
answers (assumed of the environment: a fetch that never settles hangs its call
in the code too), and a ready job runs because the job queue is first in,
first out, even when other calls keep the loop busy; weak fairness would let
their jobs pass it by forever.

### RegistryContents, RegistryViews, RegistrySnapshots

*The promise.* `RegistryViews` keeps for each registry, source or snapshot, a
value: documents, anchors as places, dynamic fragments, the dialect's
identifier syntax. The source's value may change in any way; a snapshot copies
a value; a lookup answers what `Locate` or `Below` make of the asked
registry's value at that moment. Nothing is shared or remembered.

*State.* In `RegistrySnapshots` every JavaScript map that two registries can
hold is an entry of a heap, and a registry holds its position: `indexes` (the
maps `mutable` copies together, the outer intern map among them), `inners`
(the inner intern maps, shared for good, with the children memoized on their
refs), `tables` (the memo tables and the dialect cache) and `dialects`. Per
registry there are the `shared` flags, the failure count and the two dialect
generations. A `SchemaRef` records the inner map it is interned in, which with
its pointer is its identity; 0 marks an uncached ref, whose identity no memo
relies on.

*Actions.* `Snapshot` (of the source; of a view too, though no run has two), `Register` and
`Unregister` with copy-on-write, eviction, interning of anchors and the reset
of memos, `RegisterDialect` with its success or its late failure, and the
lookups, which write too: `ResolveRef`, `RootRef`, `ScopedReference`
(`dynamicReference` and `recursiveReference`), and `Child`, one hop below the
ref last answered by any registry. `child` with several segments is that many
hops, nothing running in between.

*Refinement.* `ViewsAreFrozen` is `RegistryViews!ViewSpec` under the mapping
that reads each registry's value off the heaps (`Holding`) and forgets the
identity of refs: interning, memoizing and copying are stutters, and every
answer is the abstract one.

*Data.* Objects have identity (`Nodes`), a step (`Inside`), an identifier
under each syntax (`BaseId`) and a JSON value (`Value`); `Claims` is what the
walk of a document stages, the walk itself being `SchemaRegistry`'s. One
dialect governs all documents. A memo table nobody else holds is emptied in
place of being replaced, which is not observable.

### Documents, Keywords, Assertions

*Schemas.* A position is a name; `Node` says what is there, `Resource` whose it
is and what that resource's dialect and anchors are. A member of a schema
object is one record whatever its keyword (`Member`), and what its dialect says
of it, an entry: behavior, phase, the behaviors it reads and whether only those
beside it. `NodeTable` is the table the registry builds for a position
(`BuildNodeTable`, assumed to be what is given). URIs, pointers and regular
expressions are names; `Matched` says which strings an expression matches.

*Instances.* JSON values with UTF-16 and code-point lengths apart, numbers in
halves. A cursor is its location, its value and its parent.

*Keywords.* `evaluate()` of a behavior is an operator of the occurrence, the
cursor, the records it sees and the verdicts of its applications. No behavior
of the library lets an answer decide what it applies next, so `steps` come
first and the verdict, the reports and the data after.

### Interpretation and Evaluation

`Interpretation` states the channel's rules without marks, truncation or a
state: a keyword that accepts leaves no error, a schema that rejects leaves no
record, an exception ends everything. It is what both tiers are compared with.

`Evaluation` is the machine. *State:* `heap` holds evaluation states (frames,
errors, scope, the guard's applications, depth), `runs` the calls in progress,
innermost last, each with its open applications (`acts`) and where it is
(`pc`); `pooled`, `inUse` and `eliding` are the runner's; `due` and `last` the
host's. *Actions:* the host and user code call and resume (`HostCalls`,
`CallBack`, `CallerResumes`, `HostResumes`); an application is refused
(`TooDeep`, `Refuse`: cycle, missing target), answered at once
(`ApplyBoolean`) or opened (`EnterObject`); a keyword begins, makes its steps
and ends (`BeginKeyword`, `ApplyStep`, `Resume`, `EndKeyword`, `SkipUnknown`);
an application is closed by its `finally` block on either way out (`Leave`,
`Unwind`). It knows nothing of keywords: steps, outcomes and tables are
constants, as the engine's behaviors are the host's to register. `MCEvaluation`
gives it the library's, and a host's that break rules: they call the runner
from inside, accept what they reported, produce or read what nobody declared,
apply to the parent location, or descend for ever.

*Fairness.* Weak fairness of the engine's steps: JavaScript runs a call to its
end once it is made.

### Derivations

`Interpretation` is recursive and about the library's keywords; `Derivations`
says the same for any keywords and in a form that proofs can use. A judgment
says how an application ends in an environment (dynamic scope, open
applications, depth), or how it ends from its next keyword on (a `Place`), or
from the next step of that keyword on (a `Mid`). `ApplicationRule`,
`KeywordRule` and `StepRule` say which earlier judgments a judgment follows
from; a derivation is a list of judgments each of which follows. The rules see
no runner, pool or evaluation state, so whatever is derived holds of a call by
itself. A call that user code makes is a derivation of its own; what user code
makes of an exception from it is left open (`CallRule`).

### Output

The evaluation again, with what tracing adds: the trace tree, and the errors and
annotations that were dropped. Records attach to applications by identity,
which is here the position in the tree (`at`). The renderers are translated one by one; each
unit carries records in place of messages. `resolveOutputDemand` is `IsRefused`,
`IsVerbose` and `IsTraced`; `evaluate()` with its partition of annotations is
`RenderInput`.

### Lowering, CompilationPlan, CompiledCode, CompiledTier

*State.* `CompiledTier` keeps the plan of the round, the decisions on dynamic
sites, the emitted functions, and the answers of the artifact. A round plans
depth first from the root; settling compares, over all paths of static edges,
which resource can be the outermost declarer at each site; the plan is
serialized when no decision changes; then instances are validated.

*Code.* JavaScript text is left out. `Lower` gives the statement list of each
keyword; `Body` says which units a function expands and which it calls;
`Exec` is what the statements do: the verdict, the early return of a flag
artifact, the errors, the channel with its truncation where a branch fails,
the annotations, islands (`RunIsland`) with the harvest of their coverage, and
the depth, which an expanded unit does not count.

*Fairness.* Weak fairness of the stages: `compile` is synchronous.

### AjvFacade

*State.* The ledger (`docs`, `metaDocs`, custom keywords and formats, mutating
keywords), the engines alive, which of them is the shared one, the two
caches of validators, the suspended `compileAsync` calls. *Actions:* each public
call, a hit in a cache included, and each answer of the loader. A call that
throws leaves the shared engine it may have built or registered into
(`Leave`). An engine nobody refers to is collected, so that engine slots are
reused. One resource per schema object; the rest of registration is
`SchemaRegistry`'s.

### AjvMutation

One action for each rewriting of a pass. What a rewriting reads is the report of
the evaluation the pass began with (coercions: one of their own); what it
writes is the instance under it. `Interpretation` is the evaluation, its units
with their combiner and muting marks are `UnitsOf`.

## 3. Runs

| Run | Shows | Instance |
|---|---|---|
| `takeover` | the indexes agree, are owned and current, nothing is replaced or removed with someone else's document, document roots and aliases agree through absorption, coverage unions are exact and complete | documents that embed, share and contest one resource, an envelope that embeds a document that embeds a resource (three pointers deep), producers and consumers in every order, two dialects with different readings |
| `concurrent` | assembly marks and references never leak, and every call is answered | two reusable calls and a synchronous registration; throwing loaders, a refused metaschema, unknown vocabularies, an invalid part, a miss |
| `sequential` | without concurrency: cycles are real, the registration that had a dialect assembled finds the metaschema's closure, resolved means loaded | one reusable call; a real metaschema cycle, a self-describing metaschema, a missing one, metaschemas of several documents, some of them written in the dialect they help define |
| `closure` | violation: `ClosureBeforeChecks` | one call; a document that references two schemas written in a metaschema, which references a part of its own |
| `racing` | violation: `CycleIsReal` | two calls, one dialect |
| `frozen` | every lookup and step, in the source and in a snapshot, answers from its own registry's contents; memos are current; without snapshots there is one ref object per location | a document, an equal copy of the resource it embeds, two syntaxes, one snapshot, two changes |
| `engine` | the machine agrees with the reference whatever ran before or inside a call, states stay apart, stacks balance, cycles are caught, output formats agree, calls end | every single keyword form and every pair of three dialects, the host's keywords, recursion, dynamic references; one call and two in a row |
| `tiers` | flag and list artifacts agree with the interpreter, under ample and scarce `maxDepth`; what is called is emitted; decisions hold; compilation ends | the same forms and pairs, dynamic references settled over several rounds, islands, cycles; every instance, both outputs |
| `nested` | violation: `CallsAreEmitted` | a chain of 35 single-use schemas |
| `facade` | the shared engine and the cache by reference are never older than the ledger, private engines stay private, validators resolve their own references and are snapshots | six schema objects (two equal, three contending for a name), three URIs, five calls |
| `mutation` | the passes end with nothing left to rewrite, or the rewritings undo each other | every single and pair of schema forms that ask for rewritings, every set of options |
| `blank` | violation: `ThrowsOnlyOnOscillation` | one blank default |

### What the properties say

- Registry: `IndexesAgree`, `RootsOwn`, `ResourcesAreOwned`, `EntriesAreCurrent`,
  `AliasHidesOnlyItsOwn`, `CoverageExact`, `FactsComplete`, `OneSchemaPerURI`,
  `RemovalFollowsOwner` relate the indexes to each other and to what a walk of
  the registered documents would find now.
- Loading: `AssemblingIsOwned`, `NoReferenceLost` and `AssembledHasMetaschema`
  hold with any number of calls; `CycleIsReal`, `AskersFindClosure` and
  `ResolvedMeansLoaded` hold for one call at a time, and `racing` shows what
  becomes of the first when there are two. `CallsFinish` is answered in all.
- `ClosureBeforeChecks` is the code's sentence, that a metaschema's closure is
  loaded before the metaschema validates anything; `closure` refutes it with one
  call. What the code does keep is `AskersFindClosure`: the registration that
  had the dialect assembled, and waited for it, is checked when the closure is
  registered, was attempted or is in the call's own hands. The documents that
  others find waiting in the queue have no such promise.
- Snapshots: `ViewsAreFrozen` is the refinement of `RegistryViews`;
  `MemosAreCurrent` and `OneRefWhileAlone` say why it holds.
- Evaluation: `StatesAreApart` is the re-entrancy rule, `StacksBalance` holds at
  every step and on every path, `AcceptanceIsClean` is rule 6 of the channel,
  `CyclesAreCaught` justifies the guard's early stop, `CallsAgree` compares
  verdict, exception, errors and root records with `Interpretation`, `CallsEnd`
  is termination.
- `OutputsAgree`: the verbose tree of draft-03 explains every rejection; the
  records all of whose path shares the root's verdict are exactly what every
  other format shows; the marks of the verbose list and hierarchical documents
  are exactly the rest; the trace indexes every error; and the errors and
  annotations are those the machine recorded.
- Compiler: `TiersAgree`, `CallsAreEmitted`, `DecisionsHold`, `CompileEnds`. A
  flag artifact stops at the first failure, so it may answer where the
  interpreter throws, never the other way round. Where the interpreter does not
  run out of depth, a list artifact throws or answers exactly as it does. Past
  the depth limit the tiers differ: functions that call none and folded booleans
  check no depth. An artifact then answers what the interpreter answers with
  more room, and `TiersAgree` says with how much.
- Facade: `CachesAreCurrent`, `PrivateEnginesStayPrivate`,
  `OwnReferencesResolve` and `ValidatorsAreSnapshots` are the sentences of
  `COMPAT.md` and of the class's comments, over every sequence of calls.
  `CachesAreCurrent` is about the shared engine and the cache by reference. The
  cache by schema object is meant to keep its snapshots (`COMPAT.md:95`):
  `compile` asks it first, and no change to the ledger empties it.
- Mutation: `Settled` and `ThrowsOnlyOnOscillation`.

### Bounds

*Registry.* Eleven documents, one value that is none, three URIs and two
dialects; ownership, aliasing and takeover involve at most three parties (the
holder, the taker, an alias), each with a URI of its own to be wrong about. Nothing in the registry
counts, so its state space is finite as it is.

*Loading.* Two calls suffice for one to see what another left half done; calls
are reused, so sequences of any length are covered; stacks are bounded by the
number of dialects.

*Snapshots.* `MaxChanges` (2) bounds registrations and removals, of documents
and dialects: a leak needs something to share and a change that diverges from
it. Lookups are not bounded. `MaxMisses` (1024 in the code) is 1, so that the
bound is reached.

*Evaluation.* `MaxDepth` is 6: deeper than any schema here that ends, and
reached by those that do not. There are states for
the pool and for each level calls nest here: were there too few, a nested call
would wait and `CallsEnd` fail. Scripts are one call to each
root, and two in a row over those after which the state differs. Pairs of
keywords suffice for what one keyword does to another through frame, error
list or verdict; the pools hold each keyword with subschemas that accept,
reject, look at the instance, are false, or refer back. Records and errors
compare as sequences, in order. `OutputsAgree` uses eight ways to call
`evaluate()` and two selections.

*Compiler.* `InlineLimit` is the code's 32. Of the `DepthLimits` (1, 2, 3 and
30), 30 exceeds what the roots need, and those that descend for ever reach it;
the others run out on every kind of root, at a leaf, between two calls, and in
an island. Among the roots are
references that rebind, a site that is decided in one round and unstable in a
later one ("late", through "gate"), and a keyword without `lower()` ("host").

*Facade.* `MaxCalls` is 5: add, compile, change, compile again, and one call in
between. Four engine slots are the shared engine, two private ones and a
suspended one.

*Mutation.* `MaxPasses` is the code's 20; the schemas are not recursive and
fewer than 20 defaults nest in each other, so only an oscillation reaches it
(see below). `NumberOf` knows numerals of up to two digits. Of the generators of
`dynamicDefaults` only `seq` is here, the one whose value depends on how often it
ran. An option that is off is undefined or false.

Deadlock is not checked where the system may stop: a registry in which
every further call is refused, a host with no call left to make, an artifact
that has answered, an instance whose calls are spent, passes that are over. In
loading `CallsFinish` and in evaluation `CallsEnd` do that work.

### Disagreements found

Shown by a run:

- `racing`: two calls needing one dialect at a time: the second is told of a
  metaschema cycle. (`sequential` starts with an empty queue: a reference that
  an earlier `registerSchema` left pending lets one call meet its own mark,
  because assembling a dialect drains the whole engine's queue.)
- `closure`: the drain that loads a metaschema's closure takes the engine's
  queue from the oldest reference on. A document queued earlier and written in
  the new dialect is then checked against a metaschema of which a part is not
  loaded, and the load is rejected though the loaders have everything
  (`core/src/index.ts:824`, `:827`).
- `nested`: a function for a unit that was expanded elsewhere is dropped
  though the unit where expansion stopped is still called; the artifact throws
  a `ReferenceError`.
- `blank`: with `useDefaults: "empty"` a blank default is written in every
  pass, so a validate call throws though nothing changes.

Met while modelling, stated here only:

- The retrieval alias of an absorbed document outlives it, so `has` answers true
  with no resource behind it.
- A document may embed a resource named like its own retrieval URI, which
  its alias then hides.
- A document absorbed under a dialect that does not see one of its resources
  leaves that resource unremovable.
- A loading call resolves while another still fetches a reference of its
  document.
- For the same reason a metaschema whose parts are written in its own dialect,
  as the published ones are, cannot be loaded with `validateSchemas`: the first
  part is checked against it before the others are there.
- After a snapshot, a child memo on a shared ref can carry the ref of the
  snapshot's intern map into the source, which then has two objects for one
  location.
- Without a snapshot too: a pointer that crosses a resource registered elsewhere
  stays foreign to `locate` to its end (`core/src/registry.ts:1265`), and may end
  at a place still registered, which then has a ref beside the interned one. No
  document of `MCRegistrySnapshots` is nested deep enough (section 4).
- A dialect without unknown keywords: the interpreter throws at one, compiled
  code passes over it (`compiler/src/plan.ts:524`). The roots of `tiers` have
  no such dialect.
- Depth: an expanded unit does not count towards `maxDepth`, a function that
  calls none does not check it (`compiler/src/serialize/index.ts:414`), and a
  boolean subschema is folded, so either artifact may answer where the
  interpreter throws; `docs/conformance.md:305` says the bounds are enforced
  identically. `TiersAgree` is stated with this in it.
- The list artifact behind an AJV validator is compiled at its first failure and
  binds the registry as it is then (`ajv-compat/src/index.ts:699` says so);
  `COMPAT.md:93` promises a compile-time snapshot. `ValidatorsAreSnapshots`
  is about the flag artifact's engine.
- `compile` empties the queue of references before it registers its schema, so
  one that is missing from a schema the compiled one refers to passes the check.
- Twenty or more defaults that each bring the next, or a recursive schema with
  such a default, spend the passes though every pass makes progress.
- `removeAdditional` knows an `additionalProperties` application by the last
  segment of its location, whatever the segment is (`mutate.ts:620`), and a removal
  from an array counts as a change without making one (`deleteAt`).

## 4. Proofs

Every theorem holds for all values of the constants that satisfy the named
assumptions of its module; none relies on a TLC instance. TLC evaluates the
assumptions in the runs of the module. A theorem that needs more says so in its
statement.

**`InductionLemmas`** has what the other modules need of induction. The
library's induction theorems take the predicate as an operator, which no prover
here can instantiate; that strict inclusion of finite sets is well founded is a
first-order fact, though, and from it follow induction over numbers and finite
sets (with a set in place of the predicate), that recursion up to a bound
defines one function, and that a fold over a finite set is such a recursion.

**`SchemaRegistryProofs`** (`DocumentsAssumption`): `TypeCorrect`,
`IndexesStayInStep`, `RootsStayOwned`, `AliasesHideNothingForeign` and
`CoverageStaysExact` are the invariants, `SchemasAreNotReplaced` and
`RemovalsFollowOwners` the action properties. The walk is typed first (`Walks`
returns resources at visited positions and `None` elsewhere), then the staged
resources; each invariant is shown to be preserved by `Register` and
`Unregister`, the other actions leaving the indexes alone. `IndexesAgree` is
inductive with the type invariant. `RootsOwn` needs it (a root is registered)
and that a walk claims its own root first; `AliasHidesOnlyItsOwn` needs
`RootsOwn`, because eviction drops a document's aliases exactly when it drops
its root. The action properties follow from the refusals of `stageResource` and
from eviction reading `locations`, not `ownedResources`.

**`SchemaWalkProofs`** (`DocumentsAssumption`, `TreesAssumption`: a document is
a tree, so what a subschema holds at a pointer the whole holds at the longer
one): `EntriesStayCurrent` and `FactsStayComplete`. Both compare an entry, made
long ago by the walk of some document, with a walk of the resource alone.
`WalkEquations` unfolds the recursive walk one position at a time;
`PositionInduction` goes down from prefix to prefix. The heart is `WalksShift`:
where a walk starts a resource at position p, the walk of that resource as a
document of its own finds at q what the first found at p, q, with p cut off
its roots. `AnchorsShift` and `StagedIsCurrent` carry this to what is staged.
The two properties together are inductive with the type invariant: what a
registration stages is current, what it leaves alone keeps schema and dialect,
and the unions only grow.

`ResourcesAreOwned` is false in general (section 3), and the module says when it
holds. `ResourcesStayOwned` has a hypothesis about the steps: a document that is
absorbed leaves no resource behind (`AbsorbsWhole`). `ResourcesStayOwnedAlike`
has one about the dialects, which the instances of both runs satisfy: at every
schema they read the same identifier and the same subschema places, whatever
else they differ in (`DialectsReadAlike`). Its invariant adds that each resource
is where walking its document finds it (`LocatedByWalk`); an absorbing walk
then goes through the absorbed document as that document's own walk did, which
is `WalksShift` again with two dialects, and takes all of it over.

**`EngineLoadingProofs`** (`LoadingAssumption`): `TypeCorrect`, `MarksAreOwned`,
`ReferencesAreKept`, `DialectsAreGrounded`, for any number of calls, documents
and faults. The inductive invariant `IInv` adds to the type invariant that a
call's stack is empty exactly when it has nothing in progress, that each mark
belongs to one frame of one call and each frame in assembly has its mark
(`Owned`), and that behind a frame past its metaschema's arrival the metaschema
is registered, being registered by the frame above, or has just failed
(`Grounded`).
Every action replaces the top of one stack, so the lemma `MoveKeeps` states once
what such a replacement must guarantee (`TakeAssembly`, `TakeGround`,
`TakeReferences`), and each action is shown to.

`ResolvedAloneIsLoaded` and `ResolvedIsLoaded` are about what a call that
resolves has loaded. `LInv` adds to `IInv` that the last frame of a running
call is the drain of the queue and that, until the call's own document is
registered, the frame above the drain is the one that will register it or throw
(`Sought`). At the moment the call resolves it holds nothing but an empty drain; if
no other call is in flight, `NoReferenceLost` then leaves a reference no place
but the registry and the attempts, so that set is closed under references.
`ResolvedIsLoaded` is the run's property for engines with one call at a time, its
hypothesis; `ResolvedAloneIsLoaded` has any number of them and speaks of the
moments when one is alone. With two in flight the property is false (section 3).

`CyclesAloneAreReal` and `OwnCyclesReported` are about the "metaschema cycle" that
a call is rejected with. `CInv` adds to `IInv` how one suspended function can stand
on another (`Sits`), that a registration tries only dialects its document demands,
and that every drain but the one at the bottom of its stack is loading what some
document references (`Laid`). A call that meets its own mark then has, between the
top of its stack and that mark, registrations each demanding the dialect assembled
next: a cycle (`OwnCycle`). `OwnCyclesReported` says so for any number of calls of
every report about a mark of the reporting call's own; with one call at a time
every mark is its own, and `CyclesAloneAreReal` is the property `sequential` checks.
Both have two hypotheses, met by the documents of that run; without either, TLC
finds a counterexample with one call.

- `PlainReferences`: the documents that references lead to are written in
  dialects whose metaschema demands no dialect but its own. Otherwise, while m
  is being assembled, the closure of a dialect its metaschema is written in can
  reference a document written in m, and the call that loads it is told of a
  cycle although no metaschemas declare each other.
- `SelfDescribing`: a metaschema in which some resource demands its own dialect
  is written in that dialect. Otherwise its dialect is assembled only once it is
  registered, its registration demands it, and the report is of itself.

**`EvaluationProofs`** (`ScriptsAssumption`): `TypeCorrect`, `CallsKeepApart`,
`StacksKeepBalance`, `AcceptingIsClean`, for any keywords whatever, host's
included, at any nesting of calls. `IInv` adds to the four that a run which is
not innermost waits for an answer (`CallersWait`), and, for acceptance, that
between keywords an outermost application that has not failed has no errors, so
that the mark an accepting keyword falls back to is 0. `LocalMove` states what a
step of the innermost run must guarantee; the lemmas on lists say how the
stacks change when an application is opened, closed or rewritten.
`RepeatsGoThroughShallower` is the half of `CyclesAreCaught` that does not
depend on the keywords: between two equal entries of the cycle guard lies one at
a shallower location. It is inductive with `IInv`, because an application is only
opened where the scan of the guard did not meet it.

**`DerivationProofs`** (the assumptions of `Evaluation`, and in each statement
`KeywordsAreProper` and `ScriptsAreProper`: keywords answer in lists, and apply
and call what are schemas and cursors, whatever records they see and whatever
their steps answered). `CallsFollowTheRules` is the main theorem about
evaluation: each call that ended is derivable from the rules alone. So nothing
of the state it was given, of how earlier calls ended, of errors pushed and
dropped at a mark, of records merged or thrown away with a frame, or of calls
made meanwhile shows in its result. The invariant `TInv` gives each run a stack
of levels, one for each open application (`Tracks`): the environment and the
request it stands for, the place its keyword loop has reached, the answers of
the keyword at work, and how the errors and frames of the shared state are the
levels' own contributions end to end. What is derivable is said backwards: if
the rest of an application ends somehow, the whole of it does (`Reaches`,
`Comes`), so each step only adds one rule, and an exception that unwinds through
the levels adds one to each.

`RulesGiveOneResult`: two derivations of the same application give the same
result, by induction over the length of both, provided no nested call throws
(`Settles`), where user code may do either of two things. `CallsHaveOneResult`
puts the two together: a call that the rules settle ends the same in every run.
That is the part of `CallsAgree` that does not depend on a recursive definition.

`CyclesAreCaughtBelow` is `CyclesAreCaught` for keywords that apply nothing above
the location they are evaluated at (`KeywordsGoDown`: all of the library's; of the
run's, all but the host's `x-up`), and more: no application is ever open
twice. Locations along the guard's list then never get shorter (`Descending`),
so the shallower entry `RepeatsGoThroughShallower` asks for is not there.

**`RegistrySnapshotsProofs`** (`ContentsAssumption`, `SnapshotsAssumption`):
`SnapshotsTypeCorrect`, `SnapshotMemosCurrent`, and `SnapshotsAreFrozen`, the
refinement of `RegistryViews`. The inductive invariant says of the heaps that
each inner map was made for one resource for good, that a ref naming an inner map is in it,
and that the children kept on a ref are what a hop below it leads to under the
extractor they are filed with (`HeapFits`); of the registries, that the source's
indexes and dialects have no other holder while its flags say so, and that only
the source can be behind its dialects (`Sharing`); and of the memos, that a table in
use says what its holders' contents say, and that registries with one table hold
the same (`MemosOf`). The last is what makes sharing memo tables sound. A hop
leads to the same place whatever is registered (`HopPlace`), which is why
children may outlive commits. Every lookup is shown to leave heaps that have
only grown (`Grows`) and to answer what `RegistryViews` answers; every change to
the source is shown to be seen by the source alone.

**`AjvFacadeProofs`** (`FacadeAssumption`, `AbsenceIsNoThing`):
`FacadeTypeCorrect`, `PrivateEngines`, `ValidatorSnapshots`,
`ValidatorsResolve`, `CachesCurrent`. The base invariant (`Base`) has the types, that
whatever a cache, a validator or a suspended call refers to is an engine that
is there, and that the shared engine holds what the ledger builds plus schemas
under their own identifier (`SharedFits`); `Apart` adds that the engines of
anonymous validators and of suspended calls have one holder. The twelve
operations change the caches in a few ways only (dropped, left, kept shared,
kept apart, suspended), and each invariant is shown for the ways instead of the
operations. Building an engine is a fold over the ledger: `FoldInduction` gives
what a built engine holds, in whatever order it was built. A validator's engine only
grows, and a schema in it is never replaced by another value; hence the
snapshot property, by induction on the steps to a referenced name.

Only model-checked, and why:

- `ResourcesAreOwned` without a hypothesis: a document absorbed under a dialect
  that does not see one of its resources leaves that resource to nobody
  (section 3).
- `OneRefWhileAlone` is not a theorem either: `locate` takes a location for
  foreign once the path to it crossed a resource registered elsewhere. If a
  copy of B takes over B alone, under a syntax that does not see the C inside,
  and the syntax is changed back, then a pointer through the old B to its C, still
  registered, gives a ref beside the interned one. It takes three resources in
  each other and four changes, which the run does not have.
- `AskersFindClosure`, of one call at a time. It rests on what the queue holds
  at the moment a drain returns, and a `registerSchema` made at an await changes
  that; a theorem would have to exclude those.
- `CyclesAreCaught` for keywords that apply schemas above their own location: one
  that applies to several locations may repeat an application once through each.
- `CallsAgree`, `OutputsAgree`, `TiersAgree`, `CallsAreEmitted`, `DecisionsHold`,
  `Settled` and `ThrowsOnlyOnOscillation` compare with RECURSIVE definitions,
  about which the prover at hand proves nothing. `CallsFollowTheRules` is the
  theorem beside `CallsAgree`; that eliding unread records changes no verdict
  is checked by the run only.
- Liveness: `CallsFinish`, `CallsEnd`, `CompileEnds`.

## 5. Not modelled, and what is left

| Part | Why |
|---|---|
| `compileEvaluator`, trace emission and finishing a trace | the traced artifact; its document would be compared with `Output`'s, and is the next thing worth adding |
| standalone bundles, `explain`, the plain-data fast paths | text and its layout |
| validate's error path, trace escalation, discriminator, option and error translation of the facade | stateless translation of finished results |
| message text, `errorParams`, source positions | wording |
| native stack overflow and its conversion | not a state of the program |
| a custom keyword that applies without a segment of its own | shares its parent's records; the formats would disagree about it by design |
| several loaders tried in turn, removals while a load is suspended | one answer stands for the loaders |
| URI, pointer and regular-expression syntax, JSON equality on strings, `formats` | pure functions of strings |
| draft-04, draft-06 | tables of the same behaviors |
| test kit, benchmarks, harnesses, scripts | not the engine |

Left of the plan, in order: the traced artifact; removals during a suspended load; draft-06 and draft-04 tables in the
pools of `MCDocuments`.

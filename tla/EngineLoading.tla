---------------------------- MODULE EngineLoading ----------------------------
(***************************************************************************)
(* Asynchronous loading in the core Engine (index.ts): loadSchema and load  *)
(* register a document, fetch what it references through the loaders, and   *)
(* assemble the dialects it declares from their metaschemas.  Loading is    *)
(* the one asynchronous part of the engine: several calls may be in flight  *)
(* over one registry, one pending-reference queue and one `assembling` set, *)
(* and each of them gives up control at every await.                        *)
(*                                                                         *)
(* A call is a stack of frames, one per suspended async function, top       *)
(* first.  JavaScript runs a job to completion: `turn` is the call whose    *)
(* job is running, and nobody else steps until it awaits.                   *)
(*                                                                         *)
(* What registration does to the indexes is the subject of SchemaRegistry;  *)
(* here a document is one resource at one URI, the default dialect always   *)
(* exists with its metaschema, and a dialect is named by the URI of its     *)
(* metaschema.                                                              *)
(***************************************************************************)
EXTENDS Naturals, Sequences, FiniteSets, SequencesExt

CONSTANTS
  Calls,          \* loadSchema / load calls in flight at once
  URIs,
  Docs,           \* schema documents, equal copies being one document
  None,
  At,             \* At[d]: the URI document d registers under
  Served,         \* Served[u]: the document the loaders have for u, or None
  Throwing,       \* URIs for which a loader may throw
  Dialect,        \* Dialect[d]: d's $schema, or None for the default dialect
  Embedded,       \* Embedded[d]: dialects its embedded resources declare
  Refs,           \* Refs[d]: resources its references name, in walk order
  Rejected,       \* documents whose walk throws
  Invalid,        \* documents that fail their metaschema
  Unassemblable,  \* metaschemas that require an unknown vocabulary
  Loadable,       \* documents passed to loadSchema
  Fetchable,      \* URIs passed to load
  Local,          \* documents passed to registerSchema while calls run
  ValidateSchemas

ASSUME LoadingAssumption ==
  /\ None \notin URIs \union Docs
  /\ At \in [Docs -> URIs]
  /\ Served \in [URIs -> Docs \union {None}]
  /\ \A u \in URIs : Served[u] # None => At[Served[u]] = u
  /\ Dialect \in [Docs -> URIs \union {None}]
  /\ Embedded \in [Docs -> Seq(URIs)]
  /\ Refs \in [Docs -> Seq(URIs)]
  /\ Throwing \union Fetchable \subseteq URIs
  /\ Rejected \union Invalid \union Unassemblable \subseteq Docs
  /\ Loadable \union Local \subseteq Docs
  /\ ValidateSchemas \in BOOLEAN

VARIABLES
  documents,   \* the registry: URI -> document, or None
  pending,     \* referenced resources not yet drained, in insertion order
  dialects,    \* dialects assembled beside the default one
  assembling,  \* dialects whose assembly is in progress
  stack,       \* call -> its suspended async functions, the running one first
  status,      \* call -> idle | running | throwing | resolved | rejected
  error,       \* call -> what it is throwing or was rejected with, and where
  turn,        \* the call whose job is running, or None
  target,      \* (history) call -> the URI it was asked to load
  attempts     \* (history) URIs some fetch or registration was tried for

registry == <<documents, pending, dialects>>
vars == <<registry, assembling, stack, status, error, turn, target, attempts>>

Kinds == {"unknown dialect", "metaschema cycle", "unknown vocabulary",
           "refused", "unresolvable", "invalid", "loader", "no loader"}

Frames ==
  [at : {"register"}, doc : Docs, attempted : SUBSET URIs]
    \union [at : {"fetch"}, uri : URIs, must : BOOLEAN]
    \union [at : {"meta", "settle"}, uri : URIs]
    \union [at : {"assemble"}, uri : URIs, doc : Docs]
    \union [at : {"drain"}]

Settled == {"idle", "resolved", "rejected"}

TypeOK ==
  /\ documents \in [URIs -> Docs \union {None}]
  /\ pending \in Seq(URIs)
  /\ dialects \in SUBSET URIs
  /\ assembling \in SUBSET URIs
  /\ stack \in [Calls -> Seq(Frames)]
  /\ status \in [Calls -> Settled \union {"running", "throwing"}]
  /\ error \in [Calls -> [kind : Kinds, uri : URIs] \union {None}]
  /\ turn \in Calls \union {None}
  /\ target \in [Calls -> URIs \union {None}]
  /\ attempts \in SUBSET URIs

-----------------------------------------------------------------------------
(* The registry as the loading code sees it.                               *)

Has(u) == documents[u] # None

\* Every resource reachable from document d through registered documents
\* satisfies `ok`, a set.
ReachesOnly(d, ok) ==
  \E reached \in SUBSET ok :
    /\ ToSet(Refs[d]) \subseteq reached
    /\ \A u \in reached : Has(u) => ToSet(Refs[documents[u]]) \subseteq reached

\* The dialects d demands besides the default one, in the walk's order.
Demands(d) == (IF Dialect[d] = None THEN << >> ELSE <<Dialect[d]>>) \o Embedded[d]

\* Where d demands a dialect that does not exist; the walk names the first.
Unknown(d) == {i \in DOMAIN Demands(d) : Demands(d)[i] \notin dialects}

\* A different document holds the URI.
Taken(d) == documents[At[d]] \notin {None, d}

\* Besides, the walk throws: before or after it meets an embedded dialect.
Refused(d) == Taken(d) \/ d \in Rejected

\* resourceCheck evaluates the metaschema of every dialect in force in d, if
\* that metaschema is registered.
CheckedAgainst(d) ==
  IF ValidateSchemas THEN {e \in ToSet(Demands(d)) : Has(e)} ELSE {}

\* The metaschemas among them whose references do not all resolve (every
\* reference of a metaschema is taken to be followed), and d failing its own.
Unresolvable(d) ==
  {e \in CheckedAgainst(d) : ~ReachesOnly(documents[e], {u \in URIs : Has(u)})}
FailsCheck(d) ==
  ValidateSchemas /\ d \in Invalid /\ Dialect[d] \in {None} \union {e \in URIs : Has(e)}

\* Registering d now succeeds.
Registrable(d) ==
  ~Refused(d) /\ Unknown(d) = {} /\ Unresolvable(d) = {} /\ ~FailsCheck(d)

\* A Set's insertion order: entries already there keep their place, and each
\* new one comes where it is first met.
Queue(uris) ==
  \E k \in 0..Len(uris) : \E from \in [1..k -> DOMAIN uris] :
    /\ \A i, j \in 1..k : i < j => from[i] < from[j]
    /\ {uris[from[i]] : i \in 1..k} = ToSet(uris) \ ToSet(pending)
    /\ \A i \in 1..k : \A j \in 1..(from[i] - 1) : uris[j] # uris[from[i]]
    /\ pending' = pending \o [i \in 1..k |-> uris[from[i]]]

Commit(d) ==
  /\ documents' = [documents EXCEPT ![At[d]] = d]
  /\ Queue(Refs[d])

-----------------------------------------------------------------------------
(* Control: frames, returns and throws.                                    *)

Running(c, at) ==
  /\ turn \in {None, c}
  /\ status[c] = "running"
  /\ stack[c][1].at = at

\* Await: the job ends.  Continue: it goes on in the frame now on top.
Await       == turn' = None
Continue(c) == turn' = c

Push(c, frames)    == stack' = [stack EXCEPT ![c] = frames \o @]
Replace(c, frames) == stack' = [stack EXCEPT ![c] = frames \o Tail(@)]

\* The top function returns; its caller resumes in a later job.
Return(c) ==
  /\ Replace(c, << >>)
  /\ status' = [status EXCEPT ![c] = IF Len(stack[c]) = 1 THEN "resolved" ELSE @]
  /\ Await
  /\ UNCHANGED error

\* The top function throws.
Throw(c, kind, uri) ==
  /\ status' = [status EXCEPT ![c] = "throwing"]
  /\ error'  = [error EXCEPT ![c] = [kind |-> kind, uri |-> uri]]
  /\ Continue(c)
  /\ UNCHANGED stack

\* A frame inside the try block of an assembly, whose finally clears it.
Assembling(frame) == frame.at \in {"meta", "assemble", "settle"}

\* What a frame was trying to get registered.
Attempted(frame) ==
  CASE frame.at = "register" -> {At[frame.doc]}
    [] frame.at = "drain"    -> {}
    [] OTHER                 -> {frame.uri}

\* Faulty: the assembly mark is cleared on success only.
UnwindKeeping(c) ==
  /\ status[c] = "throwing" /\ turn \in {None, c}
  /\ Replace(c, << >>)
  /\ attempts' = attempts \union Attempted(stack[c][1])
  /\ status' = [status EXCEPT ![c] = IF Len(stack[c]) = 1 THEN "rejected" ELSE @]
  /\ Await
  /\ UNCHANGED <<registry, assembling, error, target>>

\* The exception leaves the top frame, running its finally block.
Unwind(c) ==
  LET frame == stack[c][1]
  IN /\ status[c] = "throwing" /\ turn \in {None, c}
     /\ Replace(c, << >>)
     /\ assembling' = assembling \ (IF Assembling(frame) THEN {frame.uri} ELSE {})
     /\ attempts' = attempts \union Attempted(frame)
     /\ status' = [status EXCEPT ![c] = IF Len(stack[c]) = 1 THEN "rejected" ELSE @]
     /\ Await
     /\ UNCHANGED <<registry, error, target>>

-----------------------------------------------------------------------------
(* The async functions.                                                    *)

\* ensureDialectUri(e), called by a registration that met dialect e unknown;
\* the job goes on in it until it awaits the metaschema's fetch.
EnsureDialect(c, d, e, attempted) ==
  IF e \in assembling
  THEN Throw(c, "metaschema cycle", e) /\ UNCHANGED assembling
  ELSE /\ assembling' = assembling \union {e}
       /\ stack' = [stack EXCEPT ![c] =
            << IF Has(e) THEN [at |-> "assemble", uri |-> e, doc |-> documents[e]]
                         ELSE [at |-> "meta", uri |-> e],
               [at |-> "register", doc |-> d, attempted |-> attempted \union {e}] >>
            \o Tail(@)]
       /\ turn' = IF Has(e) THEN c ELSE None
       /\ UNCHANGED <<status, error>>

\* One turn of registerAssembling's loop.
Register(c) ==
  /\ Running(c, "register")
  /\ LET d         == stack[c][1].doc
         attempted == stack[c][1].attempted
         rootFirst == Dialect[d] # None /\ Dialect[d] \notin dialects
         Asks(e)   == IF e \in attempted
                      THEN Throw(c, "unknown dialect", e) /\ UNCHANGED assembling
                      ELSE EnsureDialect(c, d, e, attempted)
         Fails(kind, uri) == Throw(c, kind, uri) /\ UNCHANGED <<registry, assembling, attempts>>
     IN \/ /\ rootFirst \/ ~Taken(d)
           /\ \E i \in Unknown(d) : /\ \A j \in Unknown(d) : i <= j
                                   /\ Asks(Demands(d)[i])
           /\ UNCHANGED <<registry, attempts>>
        \/ ~rootFirst /\ Refused(d) /\ Fails("refused", At[d])
        \/ /\ ~Refused(d) /\ Unknown(d) = {}
           /\ \/ \E e \in Unresolvable(d) : Fails("unresolvable", e)
              \/ FailsCheck(d) /\ Fails("invalid", At[d])
        \/ /\ Registrable(d)
           /\ Commit(d)
           /\ Return(c)
           /\ attempts' = attempts \union {At[d]}
           /\ UNCHANGED <<dialects, assembling>>
  /\ UNCHANGED target

\* Faulty: a loader's miss is taken for a document.
ProvidedAlways(u) == TRUE

\* Some loader has a document for u.
Provided(u) == Served[u] # None

\* A loader answers loadResource's fetch.
FetchArrives(c) ==
  /\ Running(c, "fetch")
  /\ LET frame == stack[c][1]
     IN \/ /\ Provided(frame.uri)
           /\ Replace(c, <<[at |-> "register", doc |-> Served[frame.uri], attempted |-> {}]>>)
           /\ Continue(c)
           /\ UNCHANGED <<status, error, attempts>>
        \/ /\ ~Provided(frame.uri) /\ ~frame.must
           /\ Return(c)
           /\ attempts' = attempts \union {frame.uri}
        \/ /\ ~Provided(frame.uri) /\ frame.must
           /\ Throw(c, "no loader", frame.uri) /\ UNCHANGED attempts
        \/ /\ frame.uri \in Throwing
           /\ Throw(c, "loader", frame.uri) /\ UNCHANGED attempts
  /\ UNCHANGED <<registry, assembling, target>>

\* Faulty: every metaschema's dialect is assembled before it registers.
AssembleFirstAlways(meta, e) == TRUE

\* A self-describing metaschema's dialect must exist before it registers.
AssembleFirst(meta, e) == Dialect[meta] = e

\* A loader answers ensureDialectUri's fetch of metaschema e.
MetaArrives(c) ==
  /\ Running(c, "meta")
  /\ LET e    == stack[c][1].uri
         meta == Served[e]
         register == [at |-> "register", doc |-> meta, attempted |-> {}]
     IN \/ /\ Provided(e) /\ AssembleFirst(meta, e) /\ meta \notin Unassemblable
           /\ dialects' = dialects \union {e}
           /\ Replace(c, <<register, [at |-> "settle", uri |-> e]>>)
           /\ Continue(c)
           /\ UNCHANGED <<status, error>>
        \/ /\ Provided(e) /\ AssembleFirst(meta, e) /\ meta \in Unassemblable
           /\ Throw(c, "unknown vocabulary", e) /\ UNCHANGED dialects
        \/ /\ Provided(e) /\ ~AssembleFirst(meta, e)
           /\ Replace(c, <<register, [at |-> "assemble", uri |-> e, doc |-> meta]>>)
           /\ Continue(c)
           /\ UNCHANGED <<dialects, status, error>>
        \/ /\ ~Provided(e)
           /\ Throw(c, "unknown dialect", e) /\ UNCHANGED dialects
        \/ /\ e \in Throwing
           /\ Throw(c, "loader", e) /\ UNCHANGED dialects
  /\ UNCHANGED <<documents, pending, assembling, target, attempts>>

\* Faulty: the metaschema's closure is not drained before its dialect is used.
DrainNone(c) == Return(c)

\* The end of ensureDialectUri: its loadPending runs in the same job.
DrainClosure(c) ==
  /\ Replace(c, <<[at |-> "drain"]>>)
  /\ Continue(c)
  /\ UNCHANGED <<status, error>>

\* The metaschema is registered: assemble its dialect, leave the try block.
Assemble(c) ==
  /\ Running(c, "assemble")
  /\ LET frame == stack[c][1]
     IN \/ /\ frame.doc \in Unassemblable
           /\ Throw(c, "unknown vocabulary", frame.uri)
           /\ UNCHANGED <<dialects, assembling>>
        \/ /\ frame.doc \notin Unassemblable
           /\ dialects' = dialects \union {frame.uri}
           /\ assembling' = assembling \ {frame.uri}
           /\ DrainClosure(c)
  /\ UNCHANGED <<documents, pending, target, attempts>>

\* The self-describing metaschema is registered: leave the try block.
Settle(c) ==
  /\ Running(c, "settle")
  /\ assembling' = assembling \ {stack[c][1].uri}
  /\ DrainClosure(c)
  /\ UNCHANGED <<registry, target, attempts>>

\* Faulty: the queue is emptied at once, or read without being emptied.
RestTaken(i) == << >>
RestUnread(i) == pending

\* nextUnresolved pops up to the first that is not registered, the i-th.
Rest(i) == SubSeq(pending, i + 1, Len(pending))

\* One turn of loadPending's loop.
Drain(c) ==
  /\ Running(c, "drain")
  /\ LET missing == {i \in DOMAIN pending : ~Has(pending[i])}
     IN \/ \E i \in missing :
             /\ \A j \in missing : i <= j
             /\ pending' = Rest(i)
             /\ Push(c, <<[at |-> "fetch", uri |-> pending[i], must |-> FALSE]>>)
             /\ Await
             /\ UNCHANGED <<status, error>>
        \/ /\ missing = {}
           /\ pending' = << >>
           /\ Return(c)
  /\ UNCHANGED <<documents, dialects, assembling, target, attempts>>

-----------------------------------------------------------------------------
(* The public operations.                                                  *)

Start(c, uri, frames) ==
  /\ turn = None
  /\ status[c] \in Settled
  /\ status' = [status EXCEPT ![c] = "running"]
  /\ error' = [error EXCEPT ![c] = None]
  /\ stack' = [stack EXCEPT ![c] = frames]
  /\ target' = [target EXCEPT ![c] = uri]
  /\ UNCHANGED <<registry, assembling, attempts>>

\* loadSchema(d)
LoadSchema(c, d) ==
  /\ Start(c, At[d], <<[at |-> "register", doc |-> d, attempted |-> {}], [at |-> "drain"]>>)
  /\ Continue(c)

\* load(u)
Load(c, u) ==
  /\ Start(c, u, (IF Has(u) THEN << >> ELSE <<[at |-> "fetch", uri |-> u, must |-> TRUE]>>)
                \o <<[at |-> "drain"]>>)
  /\ Await

\* registerSchema(d), synchronously, while calls are suspended.
RegisterSchema(d) ==
  /\ turn = None
  /\ Registrable(d)
  /\ Commit(d)
  /\ attempts' = attempts \union {At[d]}
  /\ UNCHANGED <<dialects, assembling, stack, status, error, turn, target>>

Init ==
  /\ documents = [u \in URIs |-> None]
  /\ pending = << >>
  /\ dialects = {} /\ assembling = {}
  /\ stack = [c \in Calls |-> << >>]
  /\ status = [c \in Calls |-> "idle"]
  /\ error = [c \in Calls |-> None]
  /\ turn = None
  /\ target = [c \in Calls |-> None]
  /\ attempts = {}

Step(c) ==
  \/ Register(c) \/ FetchArrives(c) \/ MetaArrives(c)
  \/ Assemble(c) \/ Settle(c) \/ Drain(c) \/ Unwind(c)

Next ==
  \/ \E c \in Calls :
       \/ Step(c)
       \/ \E d \in Loadable : LoadSchema(c, d)
       \/ \E u \in Fetchable : Load(c, u)
  \/ \E d \in Local : RegisterSchema(d)

\* A loader that was asked eventually answers, and a job that is ready, queued
\* behind those of other calls, eventually runs: the queue is first in, first
\* out, so a call that can step again and again does (strong fairness).
Fairness == \A c \in Calls : SF_vars(Step(c))

Spec == Init /\ [][Next]_vars /\ Fairness

-----------------------------------------------------------------------------
(* Properties.                                                             *)

Frame(c, i) == stack[c][i]

\* The `assembling` set is exactly what the calls in flight are assembling,
\* and one of them at a time: every way out of an assembly, an exception
\* through any number of frames included, clears its mark, so a dialect that
\* failed to assemble once can be asked for again.
AssemblingIsOwned ==
  \A e \in URIs :
    LET owners == {f \in UNION {{c} \X DOMAIN stack[c] : c \in Calls} :
                     Assembling(Frame(f[1], f[2])) /\ Frame(f[1], f[2]).uri = e}
    IN Cardinality(owners) = IF e \in assembling THEN 1 ELSE 0

\* No reference is lost: what a registered document references is registered,
\* queued, being loaded by some call, or has been attempted.  "The references
\* not yet attempted are loaded by the next loadSchema or load."
NoReferenceLost ==
  \A u \in {x \in URIs : Has(x)} : \A r \in ToSet(Refs[documents[u]]) :
    \/ Has(r) \/ r \in ToSet(pending) \/ r \in attempts
    \/ \E c \in Calls : \E i \in DOMAIN stack[c] : r \in Attempted(Frame(c, i))

\* Only a self-describing metaschema's dialect can be assembled with no
\* metaschema registered behind it, whatever fails in between.
AssembledHasMetaschema ==
  \A e \in dialects : Has(e) \/ Dialect[Served[e]] = e

\* Dialect e is on, or leads into, a cycle of metaschemas each declaring
\* another's dialect.
Cyclic(e) ==
  \E s \in SUBSET URIs :
    /\ e \in s
    /\ \A x \in s : Served[x] # None /\ ToSet(Demands(Served[x])) \intersect (s \ {x}) # {}

\* "Metaschema cycle" is reported of metaschemas that declare each other, not
\* of an assembly that happens to be in progress elsewhere.
CycleIsReal ==
  \A c \in Calls :
    error[c] # None /\ error[c].kind = "metaschema cycle" => Cyclic(error[c].uri)

\* The loaders have a usable document for everything d references, to any
\* depth.
ServedWhole(d) ==
  \E s \in SUBSET {u \in URIs \ Throwing : Served[u] \notin Rejected \union {None}} :
    /\ ToSet(Refs[d]) \subseteq s
    /\ \A u \in s : ToSet(Refs[Served[u]]) \subseteq s

\* A metaschema's own closure is loaded "before it validates anything": a
\* registration never fails because the metaschema checking it references
\* something the loaders have.
ClosureBeforeChecks ==
  \A c \in Calls :
    error[c] # None /\ error[c].kind = "unresolvable" => ~ServedWhole(Served[error[c].uri])

\* What the suspended functions of call c are trying to get registered.
InHand(c) == UNION {Attempted(Frame(c, i)) : i \in DOMAIN stack[c]}

\* A registration that had dialect e assembled, and waited for it, is checked
\* against e when everything e's metaschema reaches is registered, was attempted
\* or is in the call's own hands: it never fails for want of a part that is still
\* queued.  Of one that finds e assembled by another this is not said.
AskersFindClosure ==
  [][\A c \in Calls : \A e \in URIs :
       /\ status[c] = "running" /\ stack[c][1].at = "register" /\ e \in stack[c][1].attempted
       /\ status'[c] = "throwing" /\ error'[c] = [kind |-> "unresolvable", uri |-> e]
       => ReachesOnly(documents[e], attempts \union InHand(c) \union {u \in URIs : Has(u)})]_vars

\* When loadSchema or load resolves, everything its document transitively
\* references is registered or was attempted.
ResolvedMeansLoaded ==
  [][\A c \in Calls :
       status[c] = "running" /\ status'[c] = "resolved" =>
         ReachesOnly(documents[target[c]], attempts \union {u \in URIs : Has(u)})']_vars

\* Every call is answered: it resolves or rejects, with every loader miss,
\* refusal and cycle on its way.
CallsFinish ==
  \A c \in Calls : status[c] = "running" ~> status[c] \in {"resolved", "rejected"}
=============================================================================

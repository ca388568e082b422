--------------------------- MODULE AjvFacadeProofs ---------------------------
(***************************************************************************)
(* What holds of every Ajv instance, whatever schemas it is given and      *)
(* however many calls are made on it: proofs about AjvFacade.              *)
(***************************************************************************)
EXTENDS AjvFacade, InductionLemmas

(***************************************************************************)
(* Registration in one engine.                                             *)
(***************************************************************************)
MaybeObject == Objects \union {None}
MaybeEngine == Engine \union {None}

\* What f resolves and holds, it resolves and holds as e does, where e does.
Extends(e, f) ==
  /\ \A u \in Resources :
       Resolved(e, u) # None => SameSchema(Resolved(f, u), Resolved(e, u))
  /\ \A u \in Resources :
       e.documents[u] # None => SameSchema(f.documents[u], e.documents[u])
  /\ f.keywords = e.keywords /\ f.formats = e.formats

\* An engine resolves names to schema objects.
LEMMA ResolvedType ==
  ASSUME NEW e \in Engine, NEW u \in Resources
  PROVE  Canonical(e, u) \in Resources /\ Resolved(e, u) \in MaybeObject
BY DEF Engine, Resources, Canonical, Resolved, MaybeObject

\* Engines that extend each other do so in a row.
LEMMA ExtendsTransitive ==
  ASSUME NEW e, NEW f, NEW g, Extends(e, f), Extends(f, g)
  PROVE  Extends(e, g)
BY DEF Extends, SameSchema

\* Every engine extends itself.
LEMMA ExtendsReflexive ==
  ASSUME NEW e \in Engine
  PROVE  Extends(e, e)
BY DEF Extends, SameSchema

\* A schema is registered under a name.
LEMMA BaseOfType ==
  ASSUME NEW o \in Objects, NEW r \in Resources
  PROVE  /\ BaseOf(o, r) \in Resources
         /\ BaseOf(o, r) # r => BaseOf(o, r) \in URIs
         /\ BaseOf(o, r) = Anonymous => r = Anonymous /\ Id[o] = None
         /\ BaseOf(o, r) = Id[o] \/ (Id[o] = None /\ BaseOf(o, r) = r)
BY FacadeAssumption, AbsenceIsNoThing DEF FacadeAssumption, AbsenceIsNoThing, Resources, BaseOf

\* f is e with o registered.
RegisteredAs(e, o, r, f) ==
  /\ f \in Engine /\ Extends(e, f)
  /\ f.pending = e.pending \union Refs[o]
  /\ Resolved(f, r) = o /\ Resolved(f, BaseOf(o, r)) = o
  /\ f.documents[BaseOf(o, r)] = o
  /\ \A u \in Resources : u # BaseOf(o, r) => f.documents[u] = e.documents[u]

\* A registration that is not refused keeps what the engine resolves, and
\* makes the schema resolve under the names it was registered with.
LEMMA RegisterKeeps ==
  ASSUME NEW e \in MaybeEngine, NEW o \in Objects, NEW r \in Resources,
         NEW f, f = RegisterIn(e, o, r)
  PROVE  f = None \/ (e \in Engine /\ RegisteredAs(e, o, r, f))
<1> DEFINE base == BaseOf(o, r)
<1> SUFFICES ASSUME f # None  PROVE e \in Engine /\ RegisteredAs(e, o, r, f)
  OBVIOUS
<1>1. e \in Engine /\ Registrable(e, o, r) /\ f = Registered(e, o, r)
  BY DEF RegisterIn, Failed, MaybeEngine
<1>2. /\ base \in Resources
      /\ base # r => base \in URIs
  BY BaseOfType
<1> HIDE DEF base
<1>3. /\ base # r => e.documents[r] = None /\ e.aliases[r] \in {None, base}
      /\ e.aliases[base] = None
      /\ e.documents[base] # None => Value[e.documents[base]] = Value[o]
  BY <1>1 DEF Registrable, base
<1>4. /\ f.documents = [e.documents EXCEPT ![base] = o]
      /\ f.aliases = [e.aliases EXCEPT ![r] = IF base = r THEN @ ELSE base]
      /\ f.pending = e.pending \union Refs[o]
      /\ f.keywords = e.keywords /\ f.formats = e.formats
  BY <1>1 DEF Registered, base, Engine
<1>5. f \in Engine
  <2>1. e.documents \in [Resources -> MaybeObject] /\ f.documents \in [Resources -> MaybeObject]
    BY <1>1, <1>4 DEF Engine, MaybeObject
  <2>2. f.aliases \in [Resources -> URIs \union {None}]
    BY <1>1, <1>2, <1>4 DEF Engine
  <2>3. f.pending \in SUBSET URIs
    BY <1>1, <1>4, FacadeAssumption DEF FacadeAssumption, Engine
  <2>4. f = [documents |-> f.documents, aliases |-> f.aliases, pending |-> f.pending,
             keywords |-> f.keywords, formats |-> f.formats]
    BY <1>1 DEF Registered, Engine
  <2> QED BY <1>1, <1>4, <2>1, <2>2, <2>3, <2>4 DEF Engine, MaybeObject
<1>6. ASSUME NEW u \in Resources
      PROVE  /\ f.documents[u] = IF u = base THEN o ELSE e.documents[u]
             /\ f.aliases[u] = IF u = r /\ base # r THEN base ELSE e.aliases[u]
             /\ e.documents[u] \in MaybeObject /\ e.aliases[u] \in URIs \union {None}
  BY <1>1, <1>4 DEF Engine, MaybeObject
<1>7. o # None /\ None \notin Resources
  BY AbsenceIsNoThing DEF AbsenceIsNoThing, Resources
<1>8. \A u \in Resources :
        e.documents[u] # None => SameSchema(f.documents[u], e.documents[u])
  BY <1>3, <1>6, <1>7 DEF SameSchema
<1>9. ASSUME NEW u \in Resources, Resolved(e, u) # None
      PROVE  SameSchema(Resolved(f, u), Resolved(e, u))
  <2>1. Canonical(f, u) = Canonical(e, u)
    BY <1>2, <1>3, <1>6, <1>7, <1>9 DEF Canonical, Resolved
  <2> QED BY <1>1, <1>8, <1>9, <2>1, ResolvedType DEF Resolved
<1>10. Resolved(f, r) = o /\ Resolved(f, base) = o
  BY <1>2, <1>3, <1>6, <1>7 DEF Resolved, Canonical
<1>11. Extends(e, f)
  BY <1>4, <1>8, <1>9 DEF Extends
<1> QED BY <1>1, <1>2, <1>4, <1>5, <1>6, <1>10, <1>11 DEF RegisteredAs, base

(***************************************************************************)
(* Registering a whole book: a fold, since the book is a set of keys.      *)
(***************************************************************************)
\* Everything filed under a key in keys is registered in b.
Holds(b, book, keys) ==
  \A k \in keys : /\ SameSchema(Resolved(b, k), book[k])
                  /\ SameSchema(b.documents[BaseOf(book[k], k)], book[k])

\* Folding step over S, in the order c chooses, registers the book in e.
BookFolds(e, book, S, c, step) ==
  /\ IsFiniteSet(S) /\ Chooses(c, S)
  /\ step \in [S -> [MaybeEngine -> MaybeEngine]]
  /\ \E f \in [SUBSET S -> MaybeEngine] :
       IsFold(f, S, e, c, step) /\ RegisterAll(e, book) = f[S]

\* Registering a book is folding the registrations of its entries.
LEMMA RegisterAllFolds ==
  ASSUME NEW e \in MaybeEngine, NEW book \in [URIs -> MaybeObject],
         NEW S, S = Filed(book),
         NEW c, c = [s \in SUBSET S |-> IF s = {} THEN {} ELSE CHOOSE x \in s : TRUE],
         NEW step, step = [k \in S |-> [d \in MaybeEngine |-> RegisterIn(d, book[k], k)]]
  PROVE  BookFolds(e, book, S, c, step)
<1>1. S \subseteq URIs /\ IsFiniteSet(S)
  BY FacadeAssumption, FS_Subset DEF FacadeAssumption, Filed
<1>2. \A k \in S : book[k] \in Objects /\ k \in Resources
  BY DEF Filed, Resources, MaybeObject
<1>3. ASSUME NEW s \in (SUBSET S) \ {{}}
      PROVE  c[s] \in s /\ c[s] = CHOOSE x \in s : TRUE
  <2>1. \E x \in s : TRUE
    OBVIOUS
  <2>2. (CHOOSE x \in s : TRUE) \in s
    BY <2>1
  <2>3. c[s] = CHOOSE x \in s : TRUE
    OBVIOUS
  <2> QED BY <2>2, <2>3
<1>4. c \in [SUBSET S -> S \union {{}}]
  BY <1>3
<1>5. \A k \in S : \A d \in MaybeEngine :
        step[k][d] = RegisterIn(d, book[k], k) /\ step[k][d] \in MaybeEngine
  <2> SUFFICES ASSUME NEW k \in S, NEW d \in MaybeEngine
               PROVE  RegisterIn(d, book[k], k) \in MaybeEngine
    OBVIOUS
  <2>1. book[k] \in Objects /\ k \in Resources
    BY <1>2
  <2> QED BY <2>1, RegisterKeeps DEF RegisteredAs, MaybeEngine
<1>6. step \in [S -> [MaybeEngine -> MaybeEngine]]
  BY <1>5
<1>7. PICK f \in [SUBSET S -> MaybeEngine] : IsFold(f, S, e, c, step)
  <2>1. Chooses(c, S)
    BY <1>3, <1>4 DEF Chooses
  <2> QED BY ONLY <1>1, <2>1, <1>6, e \in MaybeEngine, FoldExists
<1> DEFINE body(g) == [s \in SUBSET S |->
             IF s = {} THEN e
             ELSE RegisterIn(g[s \ {CHOOSE x \in s : TRUE}], book[CHOOSE x \in s : TRUE],
                             CHOOSE x \in s : TRUE)]
           iter == CHOOSE g : g = body(g)
<1>8. RegisterAll(e, book) = iter[S]
  BY DEF RegisterAll, FoldSet, MapThenFoldSet
<1>9. f = body(f)
  <2>1. ASSUME NEW s \in SUBSET S  PROVE f[s] = body(f)[s]
    <3>1. CASE s = {}
      BY <1>7, <3>1 DEF IsFold, FoldsAt
    <3>2. CASE s # {}
      <4> DEFINE x == CHOOSE y \in s : TRUE
      <4>1. c[s] = x /\ x \in s
        BY <1>3, <3>2
      <4> HIDE DEF x
      <4>2. f[s \ {x}] \in MaybeEngine /\ x \in S
        BY <1>7, <4>1
      <4>3. f[s] = step[x][f[s \ {x}]]
        BY <1>7, <3>2, <4>1 DEF IsFold, FoldsAt
      <4>4. f[s] = RegisterIn(f[s \ {x}], book[x], x)
        BY <1>5, <4>2, <4>3
      <4> QED BY <3>2, <4>4 DEF x
    <3> QED BY <3>1, <3>2
  <2>2. f = [s \in SUBSET S |-> f[s]]
    BY <1>7
  <2> QED BY <2>1, <2>2
<1>10. iter = body(iter)
  <2> HIDE DEF body
  <2> QED BY <1>9
<1> HIDE DEF iter
<1>11. ASSUME NEW s \in SUBSET S, s # {}
       PROVE  \E x \in s : /\ f[s] = RegisterIn(f[s \ {x}], book[x], x)
                           /\ iter[s] = RegisterIn(iter[s \ {x}], book[x], x)
  <2> DEFINE x == CHOOSE y \in s : TRUE
  <2>1. x \in s
    BY <1>11
  <2>2. f[s] = RegisterIn(f[s \ {x}], book[x], x)
    BY <1>9, <1>11
  <2>3. iter[s] = RegisterIn(iter[s \ {x}], book[x], x)
    BY <1>10, <1>11
  <2> QED BY <2>1, <2>2, <2>3
<1>12. f[{}] = iter[{}]
  BY <1>9, <1>10
<1>13. f[S] = iter[S]
  <2> HIDE DEF body
  <2> DEFINE n == Cardinality(S)
             P == {m \in 0..n : \A s \in SUBSET S : Cardinality(s) <= m => f[s] = iter[s]}
  <2>1. n \in Nat
    BY <1>1, FS_CardinalityType
  <2>2. ASSUME NEW s \in SUBSET S
        PROVE  /\ Cardinality(s) \in Nat
               /\ Cardinality(s) = 0 => s = {}
               /\ \A x \in s : Cardinality(s \ {x}) = Cardinality(s) - 1
    BY <1>1, FS_Subset, FS_CardinalityType, FS_EmptySet, FS_RemoveElement
  <2>3. 0 \in P
    <3>1. \A s \in SUBSET S : Cardinality(s) <= 0 => f[s] = iter[s]
      <4> HIDE DEF iter
      <4>1. ASSUME NEW s \in SUBSET S, Cardinality(s) <= 0  PROVE s = {}
        BY <2>2, <4>1
      <4> QED BY <1>12, <4>1
    <3> QED BY <2>1, <3>1
  <2>4. ASSUME NEW m \in 1..n, m - 1 \in P  PROVE m \in P
    <3>1. ASSUME NEW s \in SUBSET S, Cardinality(s) <= m  PROVE f[s] = iter[s]
      <4>1. CASE s = {}
        BY <1>12, <4>1
      <4>2. CASE s # {}
        <5>1. PICK x \in s : /\ f[s] = RegisterIn(f[s \ {x}], book[x], x)
                             /\ iter[s] = RegisterIn(iter[s \ {x}], book[x], x)
          BY <1>11, <4>2
        <5>2. f[s \ {x}] = iter[s \ {x}]
          BY <2>1, <2>2, <2>4, <3>1
        <5> QED BY <5>1, <5>2
      <4> QED BY <4>1, <4>2
    <3> QED BY <2>1, <2>4, <3>1
  <2>5. 0..n \subseteq P
    <3> HIDE DEF P, n
    <3> QED BY <2>1, <2>3, <2>4, UpToInduction
  <2>6. n \in P
    BY <2>1, <2>5
  <2>7. Cardinality(S) <= Cardinality(S)
    BY <2>1
  <2> QED BY <2>6, <2>7
<1>14. RegisterAll(e, book) = f[S]
  BY <1>8, <1>13
<1>15. Chooses(c, S)
  BY <1>3, <1>4 DEF Chooses
<1> QED BY ONLY <1>1, <1>6, <1>7, <1>14, <1>15 DEF BookFolds

\* b is e with what is filed in the book under keys.
Bound(e, b, book, keys) ==
  /\ b \in Engine /\ Extends(e, b) /\ Holds(b, book, keys)
  /\ b.documents[Anonymous] = e.documents[Anonymous]

\* One more entry.
LEMMA BoundOneMore ==
  ASSUME NEW e \in Engine, NEW book \in [URIs -> MaybeObject],
         NEW keys \in SUBSET Filed(book), NEW k \in keys,
         NEW d, Bound(e, d, book, keys \ {k}),
         NEW f, f = RegisterIn(d, book[k], k)
  PROVE  f = None \/ Bound(e, f, book, keys)
<1> SUFFICES ASSUME f # None  PROVE Bound(e, f, book, keys)
  OBVIOUS
<1>1. \A j \in keys : book[j] \in Objects /\ j \in URIs /\ j \in Resources /\ j # Anonymous
  BY AbsenceIsNoThing DEF AbsenceIsNoThing, Filed, Resources, MaybeObject
<1>2. d \in Engine /\ d \in MaybeEngine
  BY DEF Bound, MaybeEngine
<1>3. RegisteredAs(d, book[k], k, f)
  BY <1>1, <1>2, RegisterKeeps
<1>4. f \in Engine /\ Extends(d, f) /\ Extends(e, f)
  BY <1>3, ExtendsTransitive DEF RegisteredAs, Bound
<1>5. \A j \in keys : BaseOf(book[j], j) \in Resources /\ BaseOf(book[j], j) # Anonymous
  BY <1>1, BaseOfType
<1>6. f.documents[Anonymous] = e.documents[Anonymous]
  BY <1>1, <1>3, <1>5 DEF RegisteredAs, Bound, Resources
<1>7. ASSUME NEW j \in keys
      PROVE  /\ SameSchema(Resolved(f, j), book[j])
             /\ SameSchema(f.documents[BaseOf(book[j], j)], book[j])
  <2>1. CASE j = k
    BY <1>1, <1>3, <2>1, AbsenceIsNoThing DEF AbsenceIsNoThing, RegisteredAs, SameSchema
  <2>2. CASE j # k
    <3>1. /\ SameSchema(Resolved(d, j), book[j])
          /\ SameSchema(d.documents[BaseOf(book[j], j)], book[j])
      BY <2>2 DEF Bound, Holds
    <3>2. Resolved(d, j) # None /\ d.documents[BaseOf(book[j], j)] # None
      BY <3>1 DEF SameSchema
    <3>3. /\ SameSchema(Resolved(f, j), Resolved(d, j))
          /\ SameSchema(f.documents[BaseOf(book[j], j)], d.documents[BaseOf(book[j], j)])
      BY <1>1, <1>4, <1>5, <3>2 DEF Extends
    <3> QED BY <3>1, <3>3 DEF SameSchema
  <2> QED BY <2>1, <2>2
<1> QED BY <1>4, <1>6, <1>7 DEF Bound, Holds

\* A book that is not refused is wholly in the engine, which extends the one
\* it was registered in.
LEMMA RegisterAllKeeps ==
  ASSUME NEW e \in MaybeEngine, NEW book \in [URIs -> MaybeObject],
         NEW b, b = RegisterAll(e, book)
  PROVE  b = None \/ (e \in Engine /\ Bound(e, b, book, Filed(book)))
<1> DEFINE S == Filed(book)
           c == [s \in SUBSET S |-> IF s = {} THEN {} ELSE CHOOSE x \in s : TRUE]
           step == [k \in S |-> [d \in MaybeEngine |-> RegisterIn(d, book[k], k)]]
           Good(s, d) == d = None \/ (e \in Engine /\ Bound(e, d, book, s))
           R == {r \in (SUBSET S) \X MaybeEngine : Good(r[1], r[2])}
<1>1. BookFolds(e, book, S, c, step)
  <2> HIDE DEF S, c, step
  <2>1. /\ S = Filed(book)
        /\ c = [s \in SUBSET S |-> IF s = {} THEN {} ELSE CHOOSE x \in s : TRUE]
        /\ step = [k \in S |-> [d \in MaybeEngine |-> RegisterIn(d, book[k], k)]]
    BY DEF S, c, step
  <2> QED BY ONLY <2>1, e \in MaybeEngine, book \in [URIs -> MaybeObject], RegisterAllFolds
<1>2. PICK f \in [SUBSET S -> MaybeEngine] :
        IsFold(f, S, e, c, step) /\ RegisterAll(e, book) = f[S]
  BY <1>1 DEF BookFolds
<1>3. <<{}, e>> \in R
  <2>1. Good({}, e)
    BY ExtendsReflexive DEF MaybeEngine, Bound, Holds
  <2> HIDE DEF Good
  <2> QED BY <2>1
<1>4. ASSUME NEW s \in SUBSET S, NEW x \in s, NEW d \in MaybeEngine, <<s \ {x}, d>> \in R
      PROVE  <<s, step[x][d]>> \in R
  <2>1. step[x][d] = RegisterIn(d, book[x], x) /\ step[x][d] \in MaybeEngine
    BY <1>1 DEF BookFolds
  <2>2. Good(s \ {x}, d)
    <3> HIDE DEF Good
    <3> QED BY <1>4
  <2>3. Good(s, step[x][d])
    <3>1. CASE d = None
      BY <2>1, <3>1 DEF RegisterIn, Failed
    <3>2. CASE d # None
      <4>1. e \in Engine /\ Bound(e, d, book, s \ {x})
        BY <2>2, <3>2
      <4>2. s \in SUBSET Filed(book)
        OBVIOUS
      <4> HIDE DEF S, R, step, c
      <4> QED BY <2>1, <4>1, <4>2, BoundOneMore
    <3> QED BY <3>1, <3>2
  <2> HIDE DEF Good
  <2> QED BY <2>1, <2>3
<1>5. <<S, f[S]>> \in R
  <2> HIDE DEF S, c, step, R
  <2>1. FoldingKeeps(R, S, MaybeEngine, step)
    BY <1>4 DEF FoldingKeeps
  <2>2. /\ IsFiniteSet(S) /\ Chooses(c, S)
        /\ step \in [S -> [MaybeEngine -> MaybeEngine]]
    BY ONLY <1>1 DEF BookFolds
  <2> QED BY ONLY <1>2, <1>3, <2>1, <2>2, e \in MaybeEngine,
                  f \in [SUBSET S -> MaybeEngine], FoldInduction
<1>6. Good(S, f[S])
  <2> HIDE DEF Good
  <2> QED BY <1>5
<1> QED BY <1>2, <1>6
(***************************************************************************)
(* What the ledger builds, and what is still current by it.                *)
(***************************************************************************)
EmptyWith(keywords, formats) ==
  [documents |-> [u \in Resources |-> None], aliases |-> [u \in Resources |-> None],
   pending |-> {}, keywords |-> keywords, formats |-> formats]

BuiltFrom(metaBook, book, keywords, formats) ==
  RegisterAll(RegisterAll(EmptyWith(keywords, formats), metaBook), book)

\* b has every schema in the book, and none without a name.
BuiltAs(b, book, keywords, formats) ==
  /\ b \in Engine
  /\ b.keywords = keywords /\ b.formats = formats
  /\ b.documents[Anonymous] = None
  /\ Holds(b, book, Filed(book))

\* A build that does not throw holds what the ledger says.
LEMMA BuiltKeeps ==
  ASSUME NEW metaBook \in [URIs -> MaybeObject], NEW book \in [URIs -> MaybeObject],
         NEW keywords \in SUBSET Keywords, NEW formats \in SUBSET Formats,
         NEW b, b = BuiltFrom(metaBook, book, keywords, formats)
  PROVE  b = None \/ BuiltAs(b, book, keywords, formats)
<1> DEFINE e == EmptyWith(keywords, formats)
           m == RegisterAll(e, metaBook)
<1> SUFFICES ASSUME b # None  PROVE BuiltAs(b, book, keywords, formats)
  OBVIOUS
<1>1. /\ e \in Engine /\ e \in MaybeEngine
      /\ e.documents[Anonymous] = None /\ e.keywords = keywords /\ e.formats = formats
  BY DEF EmptyWith, Engine, MaybeEngine, Resources
<1> HIDE DEF e
<1>2. m = None \/ Bound(e, m, metaBook, Filed(metaBook))
  BY <1>1, RegisterAllKeeps
<1>3. m \in MaybeEngine /\ b = RegisterAll(m, book)
  BY <1>2 DEF Bound, MaybeEngine, BuiltFrom, e
<1> HIDE DEF m
<1>4. m \in Engine /\ Bound(m, b, book, Filed(book))
  BY <1>3, RegisterAllKeeps
<1>5. m # None
  BY <1>4, AbsenceIsNoThing DEF AbsenceIsNoThing
<1> QED BY <1>1, <1>2, <1>4, <1>5 DEF Bound, BuiltAs, Extends

\* e is current by b: it extends it, by schemas under their own names.
Fits(b, e) ==
  /\ e \in Engine /\ Extends(b, e)
  /\ \A u \in Resources : e.documents[u] # None =>
       SameSchema(e.documents[u], b.documents[u]) \/ Id[e.documents[u]] = u

\* A build is current by itself.
LEMMA FitsItself ==
  ASSUME NEW b \in Engine
  PROVE  Fits(b, b)
BY ExtendsReflexive DEF Fits, SameSchema

\* Draining an engine changes nothing it resolves.
LEMMA DrainedKeeps ==
  ASSUME NEW e \in Engine
  PROVE  /\ Drained(e) \in Engine /\ Extends(e, Drained(e))
         /\ Drained(e).documents = e.documents /\ Drained(e).pending = {}
         /\ \A u \in Resources : Resolved(Drained(e), u) = Resolved(e, u)
         /\ \A b : Fits(b, e) => Fits(b, Drained(e))
<1> DEFINE d == Drained(e)
<1>1. d \in Engine
  BY DEF Drained, Engine
<1>2. /\ d.documents = e.documents /\ d.aliases = e.aliases
      /\ d.keywords = e.keywords /\ d.formats = e.formats /\ d.pending = {}
  BY DEF Drained, Engine
<1> HIDE DEF d
<1>3. \A u \in Resources : Resolved(d, u) = Resolved(e, u)
  BY <1>2 DEF Resolved, Canonical
<1>4. Extends(e, d)
  BY <1>2, <1>3 DEF Extends, SameSchema
<1>5. ASSUME NEW b, Fits(b, e)  PROVE Fits(b, d)
  BY <1>1, <1>2, <1>4, <1>5, ExtendsTransitive DEF Fits
<1> QED BY <1>1, <1>2, <1>3, <1>4, <1>5 DEF d

\* A current engine holds nothing without a name.
LEMMA FitsNamed ==
  ASSUME NEW b, NEW e, Fits(b, e), b.documents[Anonymous] = None
  PROVE  e.documents[Anonymous] = None
<1>1. e.documents[Anonymous] \in MaybeObject /\ Anonymous \in Resources
  BY DEF Fits, Engine, MaybeObject, Resources
<1> QED BY <1>1, FacadeAssumption, AbsenceIsNoThing
        DEF Fits, FacadeAssumption, AbsenceIsNoThing, MaybeObject, SameSchema

\* A current engine stays so when it is given a schema under its own name, or
\* one that the book has under the key.
LEMMA RegisterFits ==
  ASSUME NEW b, NEW book, NEW keywords, NEW formats, BuiltAs(b, book, keywords, formats),
         NEW e, Fits(b, e), NEW o \in Objects, NEW r \in Resources,
         Id[o] # None \/ (r \in Filed(book) /\ book[r] = o),
         NEW f, f = RegisterIn(e, o, r), f # None
  PROVE  Fits(b, f) /\ Extends(e, f)
<1>1. e \in Engine /\ e \in MaybeEngine
  BY DEF Fits, MaybeEngine
<1>2. RegisteredAs(e, o, r, f)
  BY <1>1, RegisterKeeps
<1>3. f \in Engine /\ Extends(e, f) /\ Extends(b, f)
  BY <1>2, ExtendsTransitive DEF RegisteredAs, Fits
<1>4. ASSUME NEW u \in Resources, f.documents[u] # None
      PROVE  SameSchema(f.documents[u], b.documents[u]) \/ Id[f.documents[u]] = u
  <2>1. CASE u # BaseOf(o, r)
    BY <1>2, <1>4, <2>1 DEF RegisteredAs, Fits
  <2>2. CASE u = BaseOf(o, r) /\ Id[o] # None
    BY <1>2, <2>2 DEF RegisteredAs, BaseOf
  <2>3. CASE u = BaseOf(o, r) /\ Id[o] = None
    <3>1. SameSchema(b.documents[u], o)
      BY <2>3 DEF BuiltAs, Holds
    <3> QED BY <1>2, <2>3, <3>1 DEF RegisteredAs, SameSchema
  <2> QED BY <2>1, <2>2, <2>3
<1> QED BY <1>3, <1>4 DEF Fits
(***************************************************************************)
(* The invariant.  Its first part says that every engine referred to is    *)
(* there, and that the shared one is what the ledger builds and more.      *)
(***************************************************************************)
MaybeValidator == ValidateFunction \union {None}
Suspended == [engine : Slots, schema : Objects, uri : Resources]

LedgerTyped ==
  /\ opts \in [strict : BOOLEAN, addUsedSchema : BOOLEAN]
  /\ docs \in [URIs -> MaybeObject] /\ metaDocs \in [URIs -> MaybeObject]
  /\ customKeywords \in SUBSET Keywords
  /\ customFormats \in SUBSET Formats
  /\ mutatingKeywords \in SUBSET MutatingKeywords

CachesTyped ==
  /\ engines \in [Slots -> MaybeEngine]
  /\ engineCache \in Slots \union {None}
  /\ compiledByObject \in [Objects -> MaybeValidator]
  /\ compiledByRef \in [URIs -> MaybeValidator]
  /\ loads \in SUBSET Suspended
  /\ returned \in MaybeValidator

TypeOK ==
  LedgerTyped /\ CachesTyped /\ postProcessing \in BOOLEAN /\ calls \in Nat

\* The slots something refers to.
Referred(shared, byObject, byRef, suspended, last) ==
  {shared} \union {v.engine : v \in ValidatorsIn(byObject, byRef, last)}
  \union {l.engine : l \in suspended}

\* Nothing refers to an engine that is gone.
AllAlive ==
  \A s \in Slots :
    s \in Referred(engineCache, compiledByObject, compiledByRef, loads, returned) =>
      engines[s] # None

SharedFits == engineCache # None => Built # None /\ Fits(Built, engines[engineCache])

Base == TypeOK /\ AllAlive /\ SharedFits

\* What the ledger as it stands builds holds what it says.
LEMMA BuiltHolds ==
  ASSUME LedgerTyped
  PROVE  Built = None \/ BuiltAs(Built, docs, customKeywords, customFormats)
<1>1. Built = BuiltFrom(metaDocs, docs, customKeywords, customFormats)
  BY DEF Built, BuiltFrom, EmptyEngine, EmptyWith
<1> QED BY <1>1, BuiltKeeps DEF LedgerTyped

\* A build depends on the ledger only.
LEMMA BuiltUnchanged ==
  ASSUME UNCHANGED ledger
  PROVE  Built' = Built
<1>1. Built = BuiltFrom(metaDocs, docs, customKeywords, customFormats)
  BY DEF Built, BuiltFrom, EmptyEngine, EmptyWith
<1>2. Built' = BuiltFrom(metaDocs', docs', customKeywords', customFormats')
  BY DEF Built, BuiltFrom, EmptyEngine, EmptyWith
<1> QED BY <1>1, <1>2 DEF ledger

\* The engine in the slot may be the shared one after this call: it is what it
\* was and more, or freshly built.
SharedBecomes(slot, e) ==
  /\ slot \in Slots /\ Built # None /\ Fits(Built, e)
  /\ \/ engineCache = slot /\ Extends(engines[slot], e)
     \/ engineCache = None /\ engines[slot] = None

SharedStays(slot, e) == (slot = None /\ engineCache = None) \/ SharedBecomes(slot, e)

\* There is a slot for the shared engine, and a build that does not throw.
LEMMA SharedWorld ==
  ASSUME Base, Free # {}, NEW slot, slot = SharedSlot, NEW e, e = SharedEngine
  PROVE  SharedStays(slot, e)
<1>1. CASE engineCache # None
  <2>1. slot = engineCache /\ e = engines[slot] /\ slot \in Slots
    BY <1>1 DEF Base, TypeOK, CachesTyped, SharedSlot, SharedEngine
  <2>2. e \in Engine
    BY <2>1 DEF Base, AllAlive, Referred, TypeOK, CachesTyped, MaybeEngine
  <2> QED BY <1>1, <2>1, <2>2, ExtendsReflexive DEF Base, SharedFits, SharedStays, SharedBecomes
<1>2. CASE engineCache = None /\ Built = None
  BY <1>2 DEF SharedStays, SharedSlot, Failed
<1>3. CASE engineCache = None /\ Built # None
  <2>1. slot = NewSlot /\ e = Built
    BY <1>3 DEF SharedSlot, SharedEngine, Failed
  <2>2. NewSlot \in Free
    BY DEF NewSlot
  <2>3. slot \in Slots /\ engines[slot] = None
    BY <2>1, <2>2 DEF Free
  <2>4. Fits(Built, e)
    BY <1>3, <2>1, BuiltHolds, FitsItself DEF Base, TypeOK, BuiltAs
  <2> QED BY <1>3, <2>3, <2>4 DEF SharedStays, SharedBecomes
<1> QED BY <1>1, <1>2, <1>3

(***************************************************************************)
(* The kinds of step.                                                      *)
(***************************************************************************)
\* The engines become the heap, without what nothing refers to: an engine that
\* was there stays as it was or grows.
Moves(heap) ==
  /\ heap \in [Slots -> MaybeEngine]
  /\ \A s \in Slots : engines[s] # None => heap[s] # None /\ Extends(engines[s], heap[s])
  /\ engines' = Collected(heap, engineCache', compiledByObject', compiledByRef',
                          loads', returned')

LedgerStays == UNCHANGED <<opts, ledger>>

\* Nothing but flags.
Rested == LedgerStays /\ UNCHANGED <<caches, async>>

\* A change to the ledger.
Dropped ==
  /\ LedgerTyped' /\ Moves(engines)
  /\ engineCache' = None /\ compiledByRef' = NoValidators
  /\ UNCHANGED <<opts, compiledByObject, async>>

\* A compilation that threw.
Left ==
  /\ LedgerStays /\ UNCHANGED <<compiledByObject, compiledByRef, async>>
  /\ \E slot, e : /\ SharedStays(slot, e) /\ engineCache' = slot
                  /\ Moves([s \in Slots |-> IF s = slot THEN e ELSE engines[s]])

\* A compilation: v goes to the caches.
Cached(o, key, v) ==
  /\ compiledByObject' = [compiledByObject EXCEPT ![o] = v]
  /\ compiledByRef' = [k \in URIs |->
       IF k \in {key} \union (IF opts.addUsedSchema THEN {Id[o]} ELSE {})
       THEN v ELSE compiledByRef[k]]

KeptShared(o, key, slot, e) ==
  /\ ~ IsAnonymous(o, key) /\ (key # None => docs[key] = o)
  /\ SharedBecomes(slot, e) /\ engineCache' = slot
  /\ Cached(o, key, Validator(slot, BaseOf(o, Retrieval(o, key)), o, mutatingKeywords))
  /\ \A u \in Refs[o] : Resolved(e, u) # None
  /\ Resolved(e, Retrieval(o, key)) = o /\ Resolved(e, BaseOf(o, Retrieval(o, key))) = o
  /\ Moves([s \in Slots |-> IF s = slot THEN e ELSE engines[s]])

KeptApart(o, slot, e, shared, sharedEngine) ==
  /\ IsAnonymous(o, None)
  /\ SharedStays(shared, sharedEngine) /\ engineCache' = shared
  /\ Cached(o, None, Validator(slot, Anonymous, o, mutatingKeywords))
  /\ slot \in Slots \ {shared} /\ engines[slot] = None
  /\ e \in Engine /\ \A u \in Refs[o] : Resolved(e, u) # None
  /\ Moves([s \in Slots |-> IF s = slot THEN e ELSE IF s = shared THEN sharedEngine ELSE engines[s]])

Kept ==
  /\ LedgerStays /\ UNCHANGED async
  /\ \/ \E o \in Objects, key \in URIs \union {None} : \E slot, e : KeptShared(o, key, slot, e)
     \/ \E o \in Objects : \E slot, e, shared, sharedEngine :
          KeptApart(o, slot, e, shared, sharedEngine)

\* A compileAsync that goes on: it starts, is answered, is rejected or ends.
Started(l, e) ==
  /\ l \in Suspended /\ engines[l.engine] = None /\ e \in Engine
  /\ loads' = loads \union {l} /\ returned' = returned
  /\ Moves([engines EXCEPT ![l.engine] = e])
Answered(l, e) ==
  /\ l \in loads /\ loads' = loads /\ returned' = returned
  /\ Moves([engines EXCEPT ![l.engine] = e])
Rejected(l) == l \in loads /\ loads' = loads \ {l} /\ returned' = returned /\ Moves(engines)
Ended(l) ==
  /\ l \in loads /\ loads' = loads \ {l} /\ Moves(engines)
  /\ returned' = Validator(l.engine, l.uri, l.schema, mutatingKeywords)

Waited ==
  /\ LedgerStays /\ UNCHANGED <<engineCache, compiledByObject, compiledByRef>>
  /\ \E l : (\E e : Started(l, e) \/ Answered(l, e)) \/ Rejected(l) \/ Ended(l)

Turn == Rested \/ Dropped \/ Left \/ Kept \/ Waited
\* The heap as it is, and with the shared engine as it becomes.
LEMMA HeapGrows ==
  ASSUME Base,
         NEW slot, NEW e, SharedStays(slot, e),
         NEW heap, heap = engines \/ heap = [s \in Slots |-> IF s = slot THEN e ELSE engines[s]]
  PROVE  /\ heap \in [Slots -> MaybeEngine]
         /\ \A s \in Slots : engines[s] # None => heap[s] # None /\ Extends(engines[s], heap[s])
<1>1. \A s \in Slots : engines[s] # None => engines[s] \in Engine /\ Extends(engines[s], engines[s])
  BY ExtendsReflexive DEF Base, TypeOK, CachesTyped, MaybeEngine
<1>2. CASE heap = engines
  BY <1>1, <1>2 DEF Base, TypeOK, CachesTyped
<1>3. CASE heap = [s \in Slots |-> IF s = slot THEN e ELSE engines[s]]
  <2>1. CASE slot = None
    <3>1. \A s \in Slots : s # slot
      BY <2>1, AbsenceIsNoThing DEF AbsenceIsNoThing
    <3> QED BY <1>1, <1>3, <3>1 DEF Base, TypeOK, CachesTyped
  <2>2. CASE slot # None
    <3>1. SharedBecomes(slot, e)
      BY <2>2 DEF SharedStays
    <3>2. e \in Engine /\ e # None /\ e \in MaybeEngine
      BY <3>1, AbsenceIsNoThing DEF AbsenceIsNoThing, SharedBecomes, Fits, MaybeEngine
    <3>3. engines[slot] # None => Extends(engines[slot], e)
      BY <3>1 DEF SharedBecomes
    <3> QED BY <1>1, <1>3, <3>2, <3>3 DEF Base, TypeOK, CachesTyped
  <2> QED BY <2>1, <2>2
<1> QED BY <1>2, <1>3

\* ... and as it is, alone.
LEMMA HeapStays ==
  ASSUME Base
  PROVE  /\ engines \in [Slots -> MaybeEngine]
         /\ \A s \in Slots : engines[s] # None => engines[s] # None /\ Extends(engines[s], engines[s])
BY ExtendsReflexive DEF Base, TypeOK, CachesTyped, MaybeEngine

\* Every call that changes the ledger drops what was built from it.
LEMMA InvalidateDrops ==
  ASSUME Base, Invalidate, LedgerTyped'
  PROVE  Dropped
BY HeapStays DEF Invalidate, Dropped, Moves, async

\* A key and an object to file under it.
LEMMA KeyForType ==
  ASSUME NEW a \in Adds \union MetaAdds
  PROVE  /\ a[1] \in Objects
         /\ KeyFor(a[1], a[2]) \in URIs \union {None}
BY FacadeAssumption DEF FacadeAssumption, KeyFor

\* The calls that change the ledger.
LEMMA LedgerTurn ==
  ASSUME Base,
         \/ \E a \in Adds : AddSchema(a[1], a[2])
         \/ \E a \in MetaAdds : AddMetaSchema(a[1], a[2])
         \/ \E keys \in Removals : RemoveSchema(keys)
         \/ \E name \in Keywords : AddKeyword(name) \/ RemoveKeyword(name)
         \/ \E name \in Formats : AddFormat(name)
         \/ \E name \in MutatingKeywords : ActivateMutatingKeyword(name)
  PROVE  Dropped
<1>0. LedgerTyped
  BY DEF Base, TypeOK
<1>1. ASSUME NEW a \in Adds, AddSchema(a[1], a[2])  PROVE Dropped
  <2> DEFINE id == KeyFor(a[1], a[2])
  <2>1. a[1] \in Objects /\ id \in URIs
    BY <1>1, KeyForType DEF AddSchema
  <2>2. docs' = [docs EXCEPT ![id] = a[1]]
    BY <1>1 DEF AddSchema
  <2> HIDE DEF id
  <2>3. docs' \in [URIs -> MaybeObject]
    BY <1>0, <2>1, <2>2 DEF LedgerTyped, MaybeObject
  <2> QED BY <1>0, <1>1, <2>3, InvalidateDrops DEF AddSchema, LedgerTyped, Invalidate
<1>2. ASSUME NEW a \in MetaAdds, AddMetaSchema(a[1], a[2])  PROVE Dropped
  <2> DEFINE id == KeyFor(a[1], a[2])
  <2>1. a[1] \in Objects /\ id \in URIs
    BY <1>2, KeyForType DEF AddMetaSchema
  <2>2. metaDocs' = [metaDocs EXCEPT ![id] = a[1]]
    BY <1>2 DEF AddMetaSchema
  <2> HIDE DEF id
  <2>3. metaDocs' \in [URIs -> MaybeObject]
    BY <1>0, <2>1, <2>2 DEF LedgerTyped, MaybeObject
  <2> QED BY <1>0, <1>2, <2>3, InvalidateDrops DEF AddMetaSchema, LedgerTyped, Invalidate
<1>3. ASSUME NEW keys \in Removals, RemoveSchema(keys)  PROVE Dropped
  <2>1. docs' \in [URIs -> MaybeObject]
    BY <1>0, <1>3 DEF LedgerTyped, MaybeObject, RemoveSchema
  <2> QED BY <1>0, <1>3, <2>1, InvalidateDrops DEF RemoveSchema, LedgerTyped, Invalidate
<1>4. ASSUME NEW name \in Keywords, AddKeyword(name) \/ RemoveKeyword(name)  PROVE Dropped
  BY <1>0, <1>4, InvalidateDrops DEF AddKeyword, RemoveKeyword, LedgerTyped, Invalidate
<1>5. ASSUME NEW name \in Formats, AddFormat(name)  PROVE Dropped
  BY <1>0, <1>5, InvalidateDrops DEF AddFormat, LedgerTyped, Invalidate
<1>6. ASSUME NEW name \in MutatingKeywords, ActivateMutatingKeyword(name)  PROVE Dropped
  BY <1>0, <1>6, InvalidateDrops DEF ActivateMutatingKeyword, LedgerTyped, Invalidate
<1> QED BY <1>1, <1>2, <1>3, <1>4, <1>5, <1>6

\* A call that throws leaves the shared engine it has.
LEMMA LeaveTurn ==
  ASSUME Base, NEW slot, NEW e, SharedStays(slot, e), Leave(slot, e),
         LedgerStays, UNCHANGED async
  PROVE  Left
<1> DEFINE heap == [s \in Slots |-> IF s = slot THEN e ELSE engines[s]]
<1>1. heap = IF slot = None THEN engines ELSE [engines EXCEPT ![slot] = e]
  <2>1. engines = [s \in Slots |-> engines[s]] /\ None \notin Slots
    BY AbsenceIsNoThing DEF AbsenceIsNoThing, Base, TypeOK, CachesTyped
  <2> QED BY <2>1
<1>2. engines' = Collected(heap, slot, compiledByObject, compiledByRef, loads, returned)
  BY <1>1 DEF Leave
<1> HIDE DEF heap
<1>3. /\ heap \in [Slots -> MaybeEngine]
      /\ \A s \in Slots : engines[s] # None => heap[s] # None /\ Extends(engines[s], heap[s])
  BY HeapGrows DEF heap
<1>4. Moves(heap)
  BY <1>2, <1>3 DEF Moves, Leave, async
<1> QED BY <1>4 DEF Left, Leave, async, heap
\* There is room for two engines: one is left beside the shared one.
LEMMA RoomForTwo ==
  ASSUME Cardinality(Free) >= 2, NEW shared, NEW slot, slot = CHOOSE s \in Free \ {shared} : TRUE
  PROVE  Free # {} /\ slot \in Slots \ {shared} /\ engines[slot] = None
<1>1. IsFiniteSet(Free)
  BY FacadeAssumption, FS_Subset DEF FacadeAssumption, Free
<1>2. Cardinality({}) = 0 /\ Cardinality({shared}) = 1 /\ IsFiniteSet({shared})
  BY FS_EmptySet, FS_Singleton
<1>3. Free # {}
  BY <1>2
<1>4. Free \ {shared} # {}
  <2>1. SUFFICES ASSUME Free \ {shared} = {}  PROVE FALSE
    OBVIOUS
  <2>2. Free \subseteq {shared}
    BY <2>1
  <2>3. Cardinality(Free) <= Cardinality({shared})
    BY ONLY <1>2, <2>2, FS_Subset
  <2>4. Cardinality(Free) \in Nat
    BY <1>1, FS_CardinalityType
  <2> QED BY ONLY <1>2, <2>3, <2>4, Cardinality(Free) >= 2
<1>5. slot \in Free \ {shared}
  BY <1>4
<1> QED BY <1>3, <1>5 DEF Free

\* Registering o in a drained engine, where all it refers to is found.
LEMMA RegisterWhole ==
  ASSUME NEW d \in Engine, NEW o \in Objects, NEW r \in Resources,
         NEW f, f = RegisterIn(Drained(d), o, r), f # None, Missing(f) = {}
  PROVE  /\ f \in Engine
         /\ \A u \in Refs[o] : Resolved(Drained(f), u) # None
         /\ Resolved(Drained(f), r) = o /\ Resolved(Drained(f), BaseOf(o, r)) = o
<1>1. Drained(d) \in Engine /\ Drained(d) \in MaybeEngine /\ Drained(d).pending = {}
  BY DrainedKeeps DEF MaybeEngine
<1>2. RegisteredAs(Drained(d), o, r, f)
  BY <1>1, RegisterKeeps
<1>3. f \in Engine /\ f.pending = Refs[o]
  BY <1>1, <1>2 DEF RegisteredAs
<1>4. Refs[o] \in SUBSET Resources /\ BaseOf(o, r) \in Resources
  BY FacadeAssumption, BaseOfType DEF FacadeAssumption, Resources
<1>5. \A u \in Refs[o] : Resolved(f, u) # None
  BY <1>3 DEF Missing, Unresolved
<1>6. \A u \in Resources : Resolved(Drained(f), u) = Resolved(f, u)
  BY <1>3, DrainedKeeps
<1> QED BY <1>2, <1>3, <1>4, <1>5, <1>6 DEF RegisteredAs

\* What an anonymous schema is called.
LEMMA AnonymousNames ==
  ASSUME NEW o \in Objects, IsAnonymous(o, None)
  PROVE  Retrieval(o, None) = Anonymous /\ BaseOf(o, Anonymous) = Anonymous
BY DEF IsAnonymous, Retrieval, BaseOf

\* What the others are called.
LEMMA NamedNames ==
  ASSUME NEW o \in Objects, NEW key \in URIs \union {None}, ~ IsAnonymous(o, key)
  PROVE  /\ Retrieval(o, key) \in URIs /\ Retrieval(o, key) \in Resources
         /\ key # None => Retrieval(o, key) = key
         /\ Id[o] = None => key # None
         /\ BaseOf(o, Retrieval(o, key)) \in URIs
         /\ Id[o] # None => BaseOf(o, Retrieval(o, key)) = Id[o]
BY FacadeAssumption DEF FacadeAssumption, IsAnonymous, Retrieval, BaseOf, Resources

\* Compiling an anonymous schema.
LEMMA ApartTurn ==
  ASSUME Base, NEW o \in Objects, IsAnonymous(o, None), Cardinality(Free) >= 2,
         NEW shared, SharedStays(shared, SharedEngine), CompileApart(o, shared),
         LedgerStays, UNCHANGED async
  PROVE  Left \/ Kept
<1> DEFINE own == RegisterIn(Prepared(Built), o, Anonymous)
           slot == CHOOSE s \in Free \ {shared} : TRUE
<1>1. CASE Built = Failed \/ own = Failed \/ Missing(own) # {}
  <2>1. Leave(shared, SharedEngine)
    BY <1>1 DEF CompileApart
  <2> QED BY <2>1, LeaveTurn
<1>2. CASE ~ (Built = Failed \/ own = Failed \/ Missing(own) # {})
  <2>1. Keep(o, None, slot, Drained(own), shared, SharedEngine)
    BY <1>2 DEF CompileApart
  <2>2. slot \in Slots \ {shared} /\ engines[slot] = None
    BY RoomForTwo
  <2>3. Built \in Engine /\ own = RegisterIn(Drained(Built), o, Anonymous) /\ Anonymous \in Resources
    BY <1>2, BuiltHolds DEF Base, TypeOK, BuiltAs, Failed, Prepared, Resources
  <2>4. own # None /\ Missing(own) = {}
    BY <1>2 DEF Failed
  <2> DEFINE e == Drained(own)
             sharedEngine == SharedEngine
             heap == [s \in Slots |-> IF s = slot THEN e
                                      ELSE IF s = shared THEN sharedEngine ELSE engines[s]]
             v == Validator(slot, Anonymous, o, mutatingKeywords)
  <2> HIDE DEF slot, own
  <2>5. e \in Engine /\ \A u \in Refs[o] : Resolved(e, u) # None
    BY <2>3, <2>4, RegisterWhole, DrainedKeeps
  <2>6. v = Validator(slot, BaseOf(o, Retrieval(o, None)), o, mutatingKeywords)
    BY AnonymousNames
  <2> HIDE DEF v
  <2>7. /\ Cached(o, None, v) /\ engineCache' = shared
        /\ engines' = Collected(heap, shared, compiledByObject', compiledByRef', loads, returned)
    BY <2>1, <2>6 DEF Keep, Cached
  <2> HIDE DEF e, sharedEngine
  <2>8. /\ heap \in [Slots -> MaybeEngine]
        /\ \A s \in Slots : engines[s] # None => heap[s] # None /\ Extends(engines[s], heap[s])
    <3> DEFINE h == [s \in Slots |-> IF s = shared THEN sharedEngine ELSE engines[s]]
    <3>1. /\ h \in [Slots -> MaybeEngine]
          /\ \A s \in Slots : engines[s] # None => h[s] # None /\ Extends(engines[s], h[s])
      BY HeapGrows DEF sharedEngine
    <3>2. \A s \in Slots : heap[s] = IF s = slot THEN e ELSE h[s]
      OBVIOUS
    <3>3. e \in MaybeEngine
      BY <2>5 DEF MaybeEngine
    <3>4. heap = [s \in Slots |-> IF s = slot THEN e ELSE h[s]]
      OBVIOUS
    <3> HIDE DEF heap, h
    <3> QED BY <2>2, <3>1, <3>2, <3>3, <3>4
  <2> HIDE DEF heap
  <2>9. Moves(heap)
    BY <2>7, <2>8 DEF Moves, async
  <2>10. KeptApart(o, slot, e, shared, sharedEngine)
    BY <2>2, <2>5, <2>7, <2>9 DEF KeptApart, heap, v, sharedEngine
  <2> QED BY <2>10 DEF Kept
<1> QED BY <1>1, <1>2
\* Compiling a schema that has a name, in the shared engine.
LEMMA SharedTurn ==
  ASSUME Base, NEW o \in Objects, NEW key \in URIs \union {None}, ~ IsAnonymous(o, key),
         key # None => docs[key] = o, Free # {}, CompileShared(o, key),
         LedgerStays, UNCHANGED async
  PROVE  Left \/ Kept
<1> DEFINE slot == SharedSlot
           before == SharedEngine
           prepared == Prepared(before)
           r == Retrieval(o, key)
           after == RegisterIn(prepared, o, r)
<1>1. SharedStays(slot, before)
  BY SharedWorld
<1>2. CASE slot = None
  <2>1. engineCache = None
    BY <1>1, <1>2, AbsenceIsNoThing DEF AbsenceIsNoThing, SharedStays, SharedBecomes
  <2>2. SharedStays(None, Failed) /\ Leave(None, Failed)
    BY <1>2, <2>1 DEF SharedStays, CompileShared
  <2> QED BY <2>2, LeaveTurn
<1>3. CASE slot # None
  <2>1. SharedBecomes(slot, before)
    BY <1>1, <1>3 DEF SharedStays
  <2>2. before \in Engine /\ Fits(Built, before) /\ Built # None
    BY <2>1 DEF SharedBecomes, Fits
  <2>3. prepared \in Engine /\ Extends(before, prepared) /\ Fits(Built, prepared)
    BY <2>2, DrainedKeeps DEF Prepared
  <2>4. SharedBecomes(slot, prepared)
    BY <2>1, <2>3, ExtendsTransitive DEF SharedBecomes
  <2>5. CASE after = Failed
    <3>1. Leave(slot, prepared)
      BY <1>3, <2>5 DEF CompileShared
    <3> QED BY <2>4, <3>1, LeaveTurn DEF SharedStays
  <2>6. CASE after # Failed
    <3>1. r \in Resources /\ (Id[o] # None \/ (r \in Filed(docs) /\ docs[r] = o))
      BY NamedNames, AbsenceIsNoThing DEF Filed, AbsenceIsNoThing
    <3>2. BuiltAs(Built, docs, customKeywords, customFormats)
      BY <2>2, BuiltHolds DEF Base, TypeOK
    <3>3. Fits(Built, after) /\ Extends(prepared, after) /\ after \in Engine
      <4> HIDE DEF prepared, r
      <4>1. after # None
        BY <2>6 DEF Failed
      <4>2. Fits(Built, after) /\ Extends(prepared, after)
        BY <2>3, <3>1, <3>2, <4>1, RegisterFits
      <4> QED BY <4>2 DEF Fits
    <3> DEFINE e == Drained(after)
    <3>4. e \in Engine /\ Extends(after, e) /\ Fits(Built, e)
      <4> HIDE DEF after
      <4> QED BY <3>3, DrainedKeeps
    <3>5. SharedBecomes(slot, e)
      <4> HIDE DEF slot, prepared, after, e, before
      <4> QED BY <2>4, <3>3, <3>4, ExtendsTransitive DEF SharedBecomes
    <3>6. CASE Missing(after) # {}
      <4>1. Leave(slot, e)
        BY <1>3, <2>6, <3>6 DEF CompileShared
      <4> QED BY <3>5, <4>1, LeaveTurn DEF SharedStays
    <3>7. CASE Missing(after) = {}
      <4>1. Keep(o, key, slot, e, slot, e)
        BY <1>3, <2>6, <3>7 DEF CompileShared
      <4>2. /\ \A u \in Refs[o] : Resolved(e, u) # None
            /\ Resolved(e, r) = o /\ Resolved(e, BaseOf(o, r)) = o
        <5>1. after = RegisterIn(Drained(before), o, r) /\ after # None
          BY <2>6 DEF Prepared, Failed
        <5> HIDE DEF after, r, before
        <5> QED BY <2>2, <3>1, <3>7, <5>1, RegisterWhole
      <4> HIDE DEF slot, e, r
      <4> DEFINE v == Validator(slot, BaseOf(o, Retrieval(o, key)), o, mutatingKeywords)
                 heap == [s \in Slots |-> IF s = slot THEN e ELSE engines[s]]
      <4> HIDE DEF v
      <4>3. /\ Cached(o, key, v) /\ engineCache' = slot
            /\ engines' = Collected(heap, slot, compiledByObject', compiledByRef', loads, returned)
        <5>1. heap = [s \in Slots |-> IF s = slot THEN e ELSE IF s = slot THEN e ELSE engines[s]]
          OBVIOUS
        <5> QED BY <4>1, <5>1 DEF Keep, Cached, v
      <4>4. /\ heap \in [Slots -> MaybeEngine]
            /\ \A s \in Slots : engines[s] # None => heap[s] # None /\ Extends(engines[s], heap[s])
        BY <3>5, HeapGrows DEF SharedStays
      <4> HIDE DEF heap
      <4>5. Moves(heap)
        BY <4>3, <4>4 DEF Moves, async
      <4>6. KeptShared(o, key, slot, e)
        BY <3>5, <4>2, <4>3, <4>5 DEF KeptShared, v, heap, r
      <4> QED BY <4>6 DEF Kept
    <3> QED BY <3>6, <3>7
  <2> QED BY <2>5, <2>6
<1> QED BY <1>2, <1>3

\* Compiling, whether it throws or not.
LEMMA CompileTurn ==
  ASSUME Base, NEW o \in Objects, NEW key \in URIs \union {None},
         key # None => docs[key] = o, CompileAt(o, key)
  PROVE  Left \/ Kept
<1>1. LedgerStays /\ UNCHANGED async /\ Cardinality(Free) >= 2 /\ Free # {}
  <2>1. Cardinality(Free) >= 2
    BY DEF CompileAt
  <2> QED BY <2>1, RoomForTwo DEF CompileAt, LedgerStays
<1> DEFINE shared == IF opts.strict THEN SharedSlot ELSE engineCache
<1>2. SharedStays(shared, SharedEngine)
  <2>1. CASE opts.strict
    BY <1>1, <2>1, SharedWorld
  <2>2. CASE ~ opts.strict /\ engineCache = None
    BY <2>2 DEF SharedStays
  <2>3. CASE ~ opts.strict /\ engineCache # None
    <3>1. SharedSlot = engineCache /\ shared = engineCache
      BY <2>3 DEF SharedSlot
    <3> QED BY <1>1, <3>1, SharedWorld
  <2> QED BY <2>1, <2>2, <2>3
<1>3. CASE Leave(shared, SharedEngine)
  BY <1>1, <1>2, <1>3, LeaveTurn
<1>4. CASE CompileTarget(o, key)
  <2>1. CASE IsAnonymous(o, key)
    <3>1. key = None /\ CompileApart(o, shared)
      BY <1>4, <2>1 DEF CompileTarget, IsAnonymous
    <3> HIDE DEF shared
    <3> QED BY <1>1, <1>2, <2>1, <3>1, ApartTurn
  <2>2. CASE ~ IsAnonymous(o, key)
    BY <1>1, <1>4, <2>2, SharedTurn DEF CompileTarget
  <2> QED BY <2>1, <2>2
<1> QED BY <1>3, <1>4 DEF CompileAt
\* A heap with one engine replaced, where it grew or there was none.
LEMMA HeapPut ==
  ASSUME Base, NEW slot \in Slots, NEW e \in Engine,
         engines[slot] = None \/ Extends(engines[slot], e),
         NEW heap, heap = [engines EXCEPT ![slot] = e]
  PROVE  /\ heap \in [Slots -> MaybeEngine]
         /\ \A s \in Slots : engines[s] # None => heap[s] # None /\ Extends(engines[s], heap[s])
<1>1. e \in MaybeEngine /\ e # None
  BY AbsenceIsNoThing DEF AbsenceIsNoThing, MaybeEngine
<1> QED BY <1>1, HeapStays

\* compileAsync starts.
LEMMA StartTurn ==
  ASSUME Base, NEW o \in Objects, CompileAsync(o)
  PROVE  Waited
<1> DEFINE r == Retrieval(o, None)
           own == RegisterIn(Built, o, r)
           l == [engine |-> NewSlot, schema |-> o, uri |-> BaseOf(o, r)]
           heap == [engines EXCEPT ![NewSlot] = own]
<1>1. /\ Free # {} /\ own # None
      /\ Suspend(loads \union {l}, heap, returned)
  BY DEF CompileAsync, Failed
<1>2. NewSlot \in Slots /\ engines[NewSlot] = None
  BY <1>1 DEF NewSlot, Free
<1>3. r \in Resources
  BY FacadeAssumption DEF FacadeAssumption, Retrieval, Resources
<1>4. Built \in MaybeEngine
  BY BuiltHolds DEF Base, TypeOK, BuiltAs, MaybeEngine
<1>5. own \in Engine
  <2> HIDE DEF r
  <2> QED BY <1>1, <1>3, <1>4, RegisterKeeps DEF RegisteredAs
<1>6. l \in Suspended /\ l.engine = NewSlot
  BY <1>2, <1>3, BaseOfType DEF Suspended
<1> HIDE DEF own, l
<1>7. /\ heap \in [Slots -> MaybeEngine]
      /\ \A s \in Slots : engines[s] # None => heap[s] # None /\ Extends(engines[s], heap[s])
  BY <1>2, <1>5, HeapPut
<1>8. heap = [engines EXCEPT ![l.engine] = own]
  BY <1>6
<1> HIDE DEF heap
<1>9. /\ LedgerStays /\ UNCHANGED <<engineCache, compiledByObject, compiledByRef>>
      /\ loads' = loads \union {l} /\ returned' = returned
  BY <1>1 DEF Suspend, LedgerStays
<1>10. Moves(heap)
  BY <1>1, <1>7, <1>9 DEF Moves, Suspend
<1>11. Started(l, own)
  BY <1>2, <1>5, <1>6, <1>8, <1>9, <1>10 DEF Started
<1> QED BY <1>9, <1>11 DEF Waited

\* The loader answers.
LEMMA ArrivalTurn ==
  ASSUME Base, NEW l \in loads, NEW u \in URIs, LoadArrives(l, u)
  PROVE  Waited
<1> DEFINE d == engines[l.engine]
           e == [d EXCEPT !.pending = @ \ {u}]
           next == IF Resolved(e, u) # None \/ Served[u] = None THEN e ELSE RegisterIn(e, Served[u], u)
<1>1. l \in Suspended /\ l.engine \in Slots
  BY DEF Base, TypeOK, CachesTyped, Suspended
<1>2. d \in Engine
  BY <1>1 DEF Base, AllAlive, Referred, TypeOK, CachesTyped, MaybeEngine
<1>3. e \in Engine /\ Extends(d, e)
  <2> HIDE DEF d
  <2>1. e \in Engine
    BY <1>2 DEF Engine
  <2>2. /\ e.documents = d.documents /\ e.aliases = d.aliases
        /\ e.keywords = d.keywords /\ e.formats = d.formats
    BY <1>2 DEF Engine
  <2> HIDE DEF e
  <2>3. \A x \in Resources : Resolved(e, x) = Resolved(d, x)
    BY <2>2 DEF Resolved, Canonical
  <2> QED BY <2>1, <2>2, <2>3 DEF Extends, SameSchema
<1>4. IF next = Failed THEN Suspend(loads \ {l}, engines, returned)
      ELSE Suspend(loads, [engines EXCEPT ![l.engine] = next], returned)
  BY DEF LoadArrives
<1>5. next = Failed \/ (next \in Engine /\ Extends(e, next))
  <2>1. CASE Resolved(e, u) # None \/ Served[u] = None
    BY <1>3, <2>1, ExtendsReflexive
  <2>2. CASE ~ (Resolved(e, u) # None \/ Served[u] = None)
    <3>1. Served[u] \in Objects /\ u \in Resources
      BY <2>2, FacadeAssumption DEF FacadeAssumption, Resources
    <3>2. next = RegisterIn(e, Served[u], u)
      BY <2>2
    <3>3. e \in MaybeEngine
      BY <1>3 DEF MaybeEngine
    <3> HIDE DEF e, next
    <3> QED BY <3>1, <3>2, <3>3, RegisterKeeps DEF RegisteredAs, Failed
  <2> QED BY <2>1, <2>2
<1> HIDE DEF e, next
<1>6. CASE next = Failed
  <2>1. Suspend(loads \ {l}, engines, returned)
    BY <1>4, <1>6
  <2>2. Moves(engines)
    BY <2>1, HeapStays DEF Suspend, Moves
  <2> QED BY <2>1, <2>2 DEF Suspend, Waited, Rejected, LedgerStays
<1>7. CASE next # Failed
  <2> DEFINE heap == [engines EXCEPT ![l.engine] = next]
  <2>1. Suspend(loads, heap, returned)
    BY <1>4, <1>7
  <2>2. next \in Engine /\ Extends(d, next)
    BY <1>3, <1>5, <1>7, ExtendsTransitive
  <2>3. /\ heap \in [Slots -> MaybeEngine]
        /\ \A s \in Slots : engines[s] # None => heap[s] # None /\ Extends(engines[s], heap[s])
    BY <1>1, <2>2, HeapPut
  <2> HIDE DEF heap
  <2>4. Moves(heap)
    BY <2>1, <2>3 DEF Suspend, Moves
  <2>5. Answered(l, next)
    BY <2>1, <2>4 DEF Answered, Suspend, heap
  <2> QED BY <2>1, <2>5 DEF Suspend, Waited, LedgerStays
<1> QED BY <1>6, <1>7

\* compileAsync resolves.
LEMMA EndTurn ==
  ASSUME Base, NEW l \in loads, LoadEnds(l)
  PROVE  Waited
<1>1. /\ LedgerStays /\ UNCHANGED <<engineCache, compiledByObject, compiledByRef>>
      /\ loads' = loads \ {l}
      /\ returned' = Validator(l.engine, l.uri, l.schema, mutatingKeywords)
  BY DEF LoadEnds, Suspend, LedgerStays
<1>2. Moves(engines)
  BY HeapStays DEF LoadEnds, Suspend, Moves
<1> QED BY <1>1, <1>2 DEF Waited, Ended

\* Every step is one of these kinds.
LEMMA NextTurn ==
  ASSUME Base, [Next]_vars
  PROVE  Turn
<1>1. CASE \/ \E a \in Adds : AddSchema(a[1], a[2])
           \/ \E a \in MetaAdds : AddMetaSchema(a[1], a[2])
           \/ \E keys \in Removals : RemoveSchema(keys)
           \/ \E name \in Keywords : AddKeyword(name) \/ RemoveKeyword(name)
           \/ \E name \in Formats : AddFormat(name)
           \/ \E name \in MutatingKeywords : ActivateMutatingKeyword(name)
  BY <1>1, LedgerTurn DEF Turn
<1>2. CASE SetErrorPostProcessor
  BY <1>2 DEF SetErrorPostProcessor, Turn, Rested, LedgerStays
<1>3. ASSUME NEW o \in Compiled, Compile(o)  PROVE Turn
  <2>1. o \in Objects /\ CompileAt(o, None)
    BY <1>3, FacadeAssumption DEF FacadeAssumption, Compile
  <2> QED BY <2>1, CompileTurn DEF Turn
<1>4. ASSUME NEW key \in URIs, GetSchema(key)  PROVE Turn
  <2>1. docs[key] \in Objects /\ CompileAt(docs[key], key)
    BY <1>4 DEF GetSchema, Base, TypeOK, LedgerTyped, MaybeObject
  <2> QED BY <2>1, CompileTurn DEF Turn
<1>5. ASSUME NEW o \in Awaited, CompileAsync(o)  PROVE Turn
  <2>1. o \in Objects
    BY FacadeAssumption DEF FacadeAssumption
  <2> QED BY <1>5, <2>1, StartTurn DEF Turn
<1>6. ASSUME NEW l \in loads, NEW u \in URIs, LoadArrives(l, u)  PROVE Turn
  BY <1>6, ArrivalTurn DEF Turn
<1>7. ASSUME NEW l \in loads, LoadEnds(l)  PROVE Turn
  BY <1>7, EndTurn DEF Turn
<1>8. CASE UNCHANGED vars
  BY <1>8 DEF vars, Turn, Rested, LedgerStays
<1> QED BY <1>1, <1>2, <1>3, <1>4, <1>5, <1>6, <1>7, <1>8 DEF Next
(***************************************************************************)
(* The first part of the invariant is kept.                                *)
(***************************************************************************)
\* What a move makes of the engines.
LEMMA MovesTo ==
  ASSUME NEW heap, Moves(heap), NEW s \in Slots
  PROVE  engines'[s] = IF s \in Referred(engineCache', compiledByObject', compiledByRef',
                                         loads', returned')
                       THEN heap[s] ELSE None
BY DEF Moves, Collected, Referred

\* A move under which what is referred to is in the heap keeps engines alive.
LEMMA MovesAlive ==
  ASSUME NEW heap, Moves(heap),
         \A s \in Slots :
           s \in Referred(engineCache', compiledByObject', compiledByRef', loads', returned') =>
             heap[s] # None
  PROVE  AllAlive' /\ engines' \in [Slots -> MaybeEngine]
<1>1. AllAlive'
  BY MovesTo DEF AllAlive
<1>2. \A s \in Slots : engines'[s] \in MaybeEngine
  BY MovesTo DEF Moves, MaybeEngine
<1>3. engines' = [s \in Slots |-> engines'[s]]
  BY DEF Moves, Collected
<1> QED BY <1>1, <1>2, <1>3

\* The shared slot a move ends with holds what the heap has there.
LEMMA MovesShared ==
  ASSUME NEW heap, Moves(heap), engineCache' \in Slots
  PROVE  engines'[engineCache'] = heap[engineCache']
BY MovesTo DEF Referred

\* The validators something refers to are validators.
LEMMA ValidatorsType ==
  ASSUME CachesTyped
  PROVE  /\ Validators \subseteq ValidateFunction
         /\ \A o \in Objects : compiledByObject[o] = None \/ compiledByObject[o] \in Validators
         /\ \A k \in URIs : compiledByRef[k] = None \/ compiledByRef[k] \in Validators
BY AbsenceIsNoThing DEF AbsenceIsNoThing, CachesTyped, Validators, ValidatorsIn, MaybeValidator

\* A compilation adds one validator.
LEMMA CachedAdds ==
  ASSUME CachesTyped, NEW o \in Objects, NEW key, NEW v \in ValidateFunction,
         Cached(o, key, v), returned' = returned
  PROVE  /\ Validators' \subseteq Validators \union {v}
         /\ v \in Validators'
         /\ ValidatorsIn(compiledByObject', compiledByRef', None)
              \subseteq ValidatorsIn(compiledByObject, compiledByRef, None) \union {v}
         /\ compiledByObject' \in [Objects -> MaybeValidator]
         /\ compiledByRef' \in [URIs -> MaybeValidator]
<1>1. v # None
  BY AbsenceIsNoThing DEF AbsenceIsNoThing
<1>2. \A p \in Objects : compiledByObject'[p] = IF p = o THEN v ELSE compiledByObject[p]
  BY DEF Cached, CachesTyped
<1>3. \A k \in URIs : compiledByRef'[k] \in {v, compiledByRef[k]}
  BY DEF Cached
<1>4. /\ compiledByObject' \in [Objects -> MaybeValidator]
      /\ compiledByRef' \in [URIs -> MaybeValidator]
  BY DEF Cached, CachesTyped, MaybeValidator
<1>5. Validators' \subseteq Validators \union {v} /\ v \in Validators'
  BY <1>1, <1>2, <1>3 DEF Validators, ValidatorsIn
<1>6. ValidatorsIn(compiledByObject', compiledByRef', None)
        \subseteq ValidatorsIn(compiledByObject, compiledByRef, None) \union {v}
  BY <1>2, <1>3 DEF ValidatorsIn
<1> QED BY <1>4, <1>5, <1>6

\* A change to the ledger keeps the first part.
LEMMA DroppedBase ==
  ASSUME Base, Dropped
  PROVE  LedgerTyped' /\ CachesTyped' /\ AllAlive' /\ SharedFits'
<1>1. Validators' \subseteq Validators /\ compiledByRef' \in [URIs -> MaybeValidator]
  BY DEF Dropped, Validators, ValidatorsIn, NoValidators, MaybeValidator, async
<1>2. Referred(engineCache', compiledByObject', compiledByRef', loads', returned')
        \subseteq Referred(engineCache, compiledByObject, compiledByRef, loads, returned) \union {None}
  BY <1>1 DEF Dropped, Referred, Validators, async
<1>3. \A s \in Slots :
        s \in Referred(engineCache', compiledByObject', compiledByRef', loads', returned') =>
          engines[s] # None
  BY <1>2, AbsenceIsNoThing DEF AbsenceIsNoThing, Base, AllAlive
<1>4. AllAlive' /\ engines' \in [Slots -> MaybeEngine]
  BY <1>3, MovesAlive DEF Dropped
<1> QED BY <1>1, <1>4 DEF Dropped, Base, TypeOK, CachesTyped, SharedFits, async

\* What the shared engine becomes is current.
LEMMA SharedFitsNext ==
  ASSUME LedgerStays, NEW heap, Moves(heap), NEW slot, NEW e, SharedStays(slot, e),
         engineCache' = slot, slot = None \/ heap[slot] = e
  PROVE  SharedFits' /\ engineCache' \in Slots \union {None}
<1>1. Built' = Built
  BY BuiltUnchanged DEF LedgerStays
<1>2. CASE slot = None
  BY <1>2 DEF SharedFits
<1>3. CASE slot # None
  <2>1. SharedBecomes(slot, e) /\ heap[slot] = e
    BY <1>3 DEF SharedStays
  <2>2. engines'[slot] = e /\ slot \in Slots
    BY <2>1, MovesShared DEF SharedBecomes
  <2>3. Built' # None /\ Fits(Built', engines'[engineCache'])
    BY <1>1, <2>1, <2>2 DEF SharedBecomes
  <2> QED BY <2>2, <2>3 DEF SharedFits
<1> QED BY <1>2, <1>3

\* A compilation that throws keeps the first part.
LEMMA LeftBase ==
  ASSUME Base, Left
  PROVE  LedgerTyped' /\ CachesTyped' /\ AllAlive' /\ SharedFits'
<1>1. PICK slot, e : /\ SharedStays(slot, e) /\ engineCache' = slot
                     /\ Moves([s \in Slots |-> IF s = slot THEN e ELSE engines[s]])
  BY DEF Left
<1> DEFINE heap == [s \in Slots |-> IF s = slot THEN e ELSE engines[s]]
<1>2. slot # None => e # None /\ slot \in Slots
  BY <1>1, AbsenceIsNoThing DEF AbsenceIsNoThing, SharedStays, SharedBecomes, Fits
<1>3. LedgerStays /\ UNCHANGED <<compiledByObject, compiledByRef, async>>
  BY DEF Left
<1>4. \A s \in Slots :
        s \in Referred(engineCache', compiledByObject', compiledByRef', loads', returned') =>
          heap[s] # None
  <2>1. Referred(engineCache', compiledByObject', compiledByRef', loads', returned')
          \subseteq Referred(engineCache, compiledByObject, compiledByRef, loads, returned) \union {slot}
    BY <1>1, <1>3 DEF Referred, async
  <2>2. \A s \in Slots : heap[s] = IF s = slot THEN e ELSE engines[s]
    OBVIOUS
  <2> HIDE DEF heap
  <2> QED BY <1>2, <2>1, <2>2, AbsenceIsNoThing DEF AbsenceIsNoThing, Base, AllAlive
<1>5. Moves(heap) /\ (slot = None \/ heap[slot] = e)
  BY <1>1, <1>2
<1> HIDE DEF heap
<1>6. AllAlive' /\ engines' \in [Slots -> MaybeEngine]
  BY <1>4, <1>5, MovesAlive
<1>7. SharedFits' /\ engineCache' \in Slots \union {None}
  BY <1>1, <1>3, <1>5, SharedFitsNext
<1> QED BY <1>3, <1>6, <1>7 DEF LedgerStays, ledger, async, Base, TypeOK, LedgerTyped, CachesTyped
\* What is referred to once there is another validator.
LEMMA ReferredGrows ==
  ASSUME NEW v, Validators' \subseteq Validators \union {v}, loads' = loads
  PROVE  Referred(engineCache', compiledByObject', compiledByRef', loads', returned')
           \subseteq Referred(engineCache, compiledByObject, compiledByRef, loads, returned)
                     \union {engineCache', v.engine}
BY DEF Referred, Validators

\* A compilation in the shared engine keeps the first part.
LEMMA KeptSharedBase ==
  ASSUME Base, LedgerStays, UNCHANGED async,
         NEW o \in Objects, NEW key \in URIs \union {None}, NEW slot, NEW e,
         KeptShared(o, key, slot, e)
  PROVE  LedgerTyped' /\ CachesTyped' /\ AllAlive' /\ SharedFits'
<1> DEFINE v == Validator(slot, BaseOf(o, Retrieval(o, key)), o, mutatingKeywords)
           heap == [s \in Slots |-> IF s = slot THEN e ELSE engines[s]]
<1>1. /\ SharedBecomes(slot, e) /\ engineCache' = slot /\ Cached(o, key, v) /\ Moves(heap)
      /\ ~ IsAnonymous(o, key)
  BY DEF KeptShared
<1>2. slot \in Slots /\ e # None /\ heap[slot] = e
  BY <1>1, AbsenceIsNoThing DEF AbsenceIsNoThing, SharedBecomes, Fits
<1>3. v \in ValidateFunction /\ v.engine = slot
  BY <1>1, <1>2, NamedNames DEF Base, TypeOK, LedgerTyped, Validator, ValidateFunction, Resources
<1>4. \A s \in Slots : heap[s] = IF s = slot THEN e ELSE engines[s]
  OBVIOUS
<1> HIDE DEF v, heap
<1>5. /\ Validators' \subseteq Validators \union {v}
      /\ compiledByObject' \in [Objects -> MaybeValidator]
      /\ compiledByRef' \in [URIs -> MaybeValidator]
  BY <1>1, <1>3, CachedAdds DEF Base, TypeOK, async
<1>6. \A s \in Slots :
        s \in Referred(engineCache', compiledByObject', compiledByRef', loads', returned') =>
          heap[s] # None
  <2>1. Referred(engineCache', compiledByObject', compiledByRef', loads', returned')
          \subseteq Referred(engineCache, compiledByObject, compiledByRef, loads, returned) \union {slot}
    BY <1>1, <1>3, <1>5, ReferredGrows DEF async
  <2> QED BY <1>2, <1>4, <2>1 DEF Base, AllAlive
<1>7. AllAlive' /\ engines' \in [Slots -> MaybeEngine]
  BY <1>1, <1>6, MovesAlive
<1>8. SharedFits' /\ engineCache' \in Slots \union {None}
  BY <1>1, <1>2, SharedFitsNext DEF SharedStays
<1> QED BY <1>5, <1>7, <1>8 DEF LedgerStays, ledger, async, Base, TypeOK, LedgerTyped, CachesTyped

\* A compilation in an engine of its own keeps the first part.
LEMMA KeptApartBase ==
  ASSUME Base, LedgerStays, UNCHANGED async,
         NEW o \in Objects, NEW slot, NEW e, NEW shared, NEW sharedEngine,
         KeptApart(o, slot, e, shared, sharedEngine)
  PROVE  LedgerTyped' /\ CachesTyped' /\ AllAlive' /\ SharedFits'
<1> DEFINE v == Validator(slot, Anonymous, o, mutatingKeywords)
           heap == [s \in Slots |-> IF s = slot THEN e
                                    ELSE IF s = shared THEN sharedEngine ELSE engines[s]]
<1>1. /\ SharedStays(shared, sharedEngine) /\ engineCache' = shared /\ Cached(o, None, v)
      /\ Moves(heap) /\ slot \in Slots \ {shared} /\ e \in Engine
  BY DEF KeptApart
<1>2. e # None /\ (shared # None => shared \in Slots /\ sharedEngine # None)
  BY <1>1, AbsenceIsNoThing DEF AbsenceIsNoThing, SharedStays, SharedBecomes, Fits
<1>3. v \in ValidateFunction /\ v.engine = slot
  BY <1>1 DEF Base, TypeOK, LedgerTyped, Validator, ValidateFunction, Resources
<1>4. \A s \in Slots : heap[s] = IF s = slot THEN e ELSE IF s = shared THEN sharedEngine ELSE engines[s]
  OBVIOUS
<1> HIDE DEF v, heap
<1>5. /\ Validators' \subseteq Validators \union {v}
      /\ compiledByObject' \in [Objects -> MaybeValidator]
      /\ compiledByRef' \in [URIs -> MaybeValidator]
  BY <1>1, <1>3, CachedAdds DEF Base, TypeOK, async
<1>6. \A s \in Slots :
        s \in Referred(engineCache', compiledByObject', compiledByRef', loads', returned') =>
          heap[s] # None
  <2>1. Referred(engineCache', compiledByObject', compiledByRef', loads', returned')
          \subseteq Referred(engineCache, compiledByObject, compiledByRef, loads, returned)
                    \union {slot, shared}
    BY <1>1, <1>3, <1>5, ReferredGrows DEF async
  <2> QED BY <1>2, <1>4, <2>1, AbsenceIsNoThing DEF AbsenceIsNoThing, Base, AllAlive
<1>7. AllAlive' /\ engines' \in [Slots -> MaybeEngine]
  BY <1>1, <1>6, MovesAlive
<1>8. shared = None \/ heap[shared] = sharedEngine
  BY <1>1, <1>2, <1>4
<1>9. SharedFits' /\ engineCache' \in Slots \union {None}
  BY <1>1, <1>8, SharedFitsNext
<1> QED BY <1>5, <1>7, <1>9 DEF LedgerStays, ledger, async, Base, TypeOK, LedgerTyped, CachesTyped

\* The shared engine is untouched by what leaves its slot as it is.
LEMMA SharedUntouched ==
  ASSUME Base, LedgerStays, engineCache' = engineCache,
         NEW heap, Moves(heap), engineCache \in Slots => heap[engineCache] = engines[engineCache]
  PROVE  SharedFits'
<1>1. Built' = Built
  BY BuiltUnchanged DEF LedgerStays
<1>2. CASE engineCache \in Slots
  BY <1>1, <1>2, MovesShared DEF Base, SharedFits
<1>3. CASE engineCache = None
  BY <1>3 DEF SharedFits
<1> QED BY <1>2, <1>3 DEF Base, TypeOK, CachesTyped
(***************************************************************************)
(* Private engines stay private, whence an answer of a loader does not     *)
(* reach the shared engine.                                                *)
(***************************************************************************)
ValidatorsApart ==
  \A v \in Validators : v.uri = Anonymous =>
    /\ v.engine # engineCache
    /\ \A w \in Validators \ {v} : w.engine # v.engine

LoadsApart ==
  \A l \in loads :
    /\ l.engine # engineCache /\ \A v \in Validators : l.engine # v.engine
    /\ \A m \in loads \ {l} : m.engine # l.engine

Apart == ValidatorsApart /\ LoadsApart

\* Validators and loads have engines.
LEMMA EnginesOf ==
  ASSUME Base
  PROVE  /\ \A v \in Validators : v.engine \in Slots /\ engines[v.engine] # None
         /\ \A l \in loads : l.engine \in Slots /\ engines[l.engine] # None
         /\ engineCache # None => engineCache \in Slots /\ engines[engineCache] # None
<1>1. Validators \subseteq ValidateFunction /\ loads \subseteq Suspended
  BY ValidatorsType DEF Base, TypeOK, CachesTyped
<1>2. /\ \A v \in Validators : v.engine \in Slots
      /\ \A l \in loads : l.engine \in Slots
      /\ engineCache # None => engineCache \in Slots
  BY <1>1 DEF ValidateFunction, Suspended, Base, TypeOK, CachesTyped
<1> QED BY <1>2 DEF Base, AllAlive, Referred, Validators

\* Nothing has an engine in an empty slot.
LEMMA EmptySlot ==
  ASSUME Base, NEW slot, engines[slot] = None
  PROVE  /\ engineCache = None \/ engineCache # slot
         /\ \A v \in Validators : v.engine # slot
         /\ \A l \in loads : l.engine # slot
BY EnginesOf

\* No private engine is in the slot of the shared one, old or new.
LEMMA SharedApart ==
  ASSUME Base, Apart, NEW slot, NEW e, SharedStays(slot, e)
  PROVE  /\ \A v \in Validators : v.uri = Anonymous => v.engine # slot
         /\ \A l \in loads : l.engine # slot
<1>1. CASE slot = None
  BY <1>1, EnginesOf, AbsenceIsNoThing DEF AbsenceIsNoThing
<1>2. CASE slot = engineCache
  BY <1>2 DEF Apart, ValidatorsApart, LoadsApart
<1>3. CASE engines[slot] = None
  BY <1>3, EmptySlot
<1> QED BY <1>1, <1>2, <1>3 DEF SharedStays, SharedBecomes

\* A step that changes the ledger.
LEMMA DroppedApart ==
  ASSUME Base, Apart, Dropped
  PROVE  Apart'
<1>1. Validators' \subseteq Validators
  BY DEF Dropped, Validators, ValidatorsIn, NoValidators, async
<1>2. engineCache' = None /\ loads' = loads
  BY DEF Dropped, async
<1>3. /\ \A v \in Validators : v.engine # None
      /\ \A l \in loads : l.engine # None
  BY EnginesOf, AbsenceIsNoThing DEF AbsenceIsNoThing
<1>4. ValidatorsApart'
  BY <1>1, <1>2, <1>3 DEF ValidatorsApart, Apart
<1>5. LoadsApart'
  BY <1>1, <1>2, <1>3 DEF LoadsApart, Apart
<1> QED BY <1>4, <1>5 DEF Apart

\* A compilation that throws.
LEMMA LeftApart ==
  ASSUME Base, Apart, Left
  PROVE  Apart'
<1>1. PICK slot, e : SharedStays(slot, e) /\ engineCache' = slot
  BY DEF Left
<1>2. Validators' = Validators /\ loads' = loads
  BY DEF Left, Validators, ValidatorsIn, async
<1>3. /\ \A v \in Validators : v.uri = Anonymous => v.engine # engineCache'
      /\ \A l \in loads : l.engine # engineCache'
  BY <1>1, SharedApart
<1>4. ValidatorsApart'
  BY <1>2, <1>3 DEF ValidatorsApart, Apart
<1>5. LoadsApart'
  BY <1>2, <1>3 DEF LoadsApart, Apart
<1> QED BY <1>4, <1>5 DEF Apart

\* A compilation: the validator has the shared engine, or one of its own.
LEMMA KeptApartness ==
  ASSUME Base, Apart, Kept
  PROVE  Apart'
<1>1. LedgerStays /\ loads' = loads /\ returned' = returned /\ CachesTyped
  BY DEF Kept, async, Base, TypeOK
<1>2. ASSUME NEW o \in Objects, NEW key \in URIs \union {None}, NEW slot, NEW e,
             KeptShared(o, key, slot, e)
      PROVE  Apart'
  <2> DEFINE v == Validator(slot, BaseOf(o, Retrieval(o, key)), o, mutatingKeywords)
  <2>1. /\ SharedBecomes(slot, e) /\ engineCache' = slot /\ Cached(o, key, v)
        /\ ~ IsAnonymous(o, key)
    BY <1>2 DEF KeptShared
  <2>2. v \in ValidateFunction /\ v.engine = slot /\ v.uri # Anonymous
    <3>1. BaseOf(o, Retrieval(o, key)) \in URIs /\ slot \in Slots
      BY <2>1, NamedNames DEF SharedBecomes
    <3> QED BY <3>1, AbsenceIsNoThing
            DEF AbsenceIsNoThing, Base, TypeOK, LedgerTyped, Validator, ValidateFunction, Resources
  <2> HIDE DEF v
  <2>3. Validators' \subseteq Validators \union {v}
    BY <1>1, <2>1, <2>2, CachedAdds
  <2>4. /\ \A w \in Validators : w.uri = Anonymous => w.engine # slot
        /\ \A l \in loads : l.engine # slot
    BY <2>1, SharedApart DEF SharedStays
  <2>5. ValidatorsApart'
    BY <2>1, <2>2, <2>3, <2>4 DEF ValidatorsApart, Apart
  <2>6. LoadsApart'
    BY <1>1, <2>1, <2>2, <2>3, <2>4 DEF LoadsApart, Apart
  <2> QED BY <2>5, <2>6 DEF Apart
<1>3. ASSUME NEW o \in Objects, NEW slot, NEW e, NEW shared, NEW sharedEngine,
             KeptApart(o, slot, e, shared, sharedEngine)
      PROVE  Apart'
  <2> DEFINE v == Validator(slot, Anonymous, o, mutatingKeywords)
  <2>1. /\ SharedStays(shared, sharedEngine) /\ engineCache' = shared /\ Cached(o, None, v)
        /\ slot \in Slots \ {shared} /\ engines[slot] = None
    BY <1>3 DEF KeptApart
  <2>2. v \in ValidateFunction /\ v.engine = slot
    BY <2>1 DEF Base, TypeOK, LedgerTyped, Validator, ValidateFunction, Resources
  <2> HIDE DEF v
  <2>3. Validators' \subseteq Validators \union {v}
    BY <1>1, <2>1, <2>2, CachedAdds
  <2>4. /\ \A w \in Validators : w.uri = Anonymous => w.engine # shared
        /\ \A l \in loads : l.engine # shared
    BY <2>1, SharedApart
  <2>5. /\ \A w \in Validators : w.engine # slot
        /\ \A l \in loads : l.engine # slot
    BY <2>1, EmptySlot
  <2>6. ValidatorsApart'
    BY <2>1, <2>2, <2>3, <2>4, <2>5 DEF ValidatorsApart, Apart
  <2>7. LoadsApart'
    BY <1>1, <2>1, <2>2, <2>3, <2>4, <2>5 DEF LoadsApart, Apart
  <2> QED BY <2>6, <2>7 DEF Apart
<1> QED BY <1>2, <1>3 DEF Kept

\* A compileAsync that goes on.
LEMMA WaitedApart ==
  ASSUME Base, Apart, Waited
  PROVE  Apart'
<1>1. UNCHANGED <<engineCache, compiledByObject, compiledByRef>>
  BY DEF Waited
<1>2. ASSUME NEW l, NEW e, Started(l, e)  PROVE Apart'
  <2>1. Validators' = Validators /\ loads' = loads \union {l} /\ engines[l.engine] = None
    BY <1>1, <1>2 DEF Started, Validators, ValidatorsIn
  <2>2. /\ engineCache = None \/ engineCache # l.engine
        /\ \A v \in Validators : v.engine # l.engine
        /\ \A m \in loads : m.engine # l.engine
    BY <2>1, EmptySlot
  <2>3. l.engine # None
    BY <1>2, AbsenceIsNoThing DEF AbsenceIsNoThing, Started, Suspended
  <2>4. ValidatorsApart'
    BY <1>1, <2>1 DEF ValidatorsApart, Apart
  <2>5. LoadsApart'
    BY <1>1, <2>1, <2>2, <2>3 DEF LoadsApart, Apart
  <2> QED BY <2>4, <2>5 DEF Apart
<1>3. ASSUME NEW l, (\E e : Answered(l, e)) \/ Rejected(l)  PROVE Apart'
  <2>1. Validators' = Validators /\ loads' \subseteq loads
    BY <1>1, <1>3 DEF Answered, Rejected, Validators, ValidatorsIn
  <2> QED BY <1>1, <2>1 DEF ValidatorsApart, LoadsApart, Apart
<1>4. ASSUME NEW l, Ended(l)  PROVE Apart'
  <2> DEFINE v == Validator(l.engine, l.uri, l.schema, mutatingKeywords)
  <2>1. Validators' \subseteq Validators \union {v} /\ loads' = loads \ {l} /\ l \in loads
    BY <1>1, <1>4 DEF Ended, Validators, ValidatorsIn
  <2>2. v.engine = l.engine
    BY DEF Validator
  <2> HIDE DEF v
  <2>3. ValidatorsApart'
    BY <1>1, <2>1, <2>2 DEF ValidatorsApart, LoadsApart, Apart
  <2>4. LoadsApart'
    BY <1>1, <2>1, <2>2 DEF LoadsApart, Apart
  <2> QED BY <2>3, <2>4 DEF Apart
<1> QED BY <1>2, <1>3, <1>4 DEF Waited
\* A compileAsync that goes on keeps the first part.
LEMMA WaitedBase ==
  ASSUME Base, Apart, Waited
  PROVE  LedgerTyped' /\ CachesTyped' /\ AllAlive' /\ SharedFits'
<1>1. /\ UNCHANGED <<engineCache, compiledByObject, compiledByRef>> /\ LedgerStays
      /\ LedgerTyped'
  BY DEF Waited, LedgerStays, ledger, Base, TypeOK, LedgerTyped
<1> DEFINE Alive == Referred(engineCache, compiledByObject, compiledByRef, loads, returned)
           Alive1 == Referred(engineCache', compiledByObject', compiledByRef', loads', returned')
<1>2. ASSUME NEW heap, Moves(heap), \A s \in Slots : s \in Alive1 => heap[s] # None,
             engineCache \in Slots => heap[engineCache] = engines[engineCache],
             loads' \in SUBSET Suspended, returned' \in MaybeValidator
      PROVE  LedgerTyped' /\ CachesTyped' /\ AllAlive' /\ SharedFits'
  <2>1. AllAlive' /\ engines' \in [Slots -> MaybeEngine]
    BY <1>2, MovesAlive
  <2>2. SharedFits'
    BY <1>1, <1>2, SharedUntouched
  <2> QED BY <1>1, <1>2, <2>1, <2>2 DEF Base, TypeOK, CachesTyped
<1>3. loads \in SUBSET Suspended /\ returned \in MaybeValidator
  BY DEF Base, TypeOK, CachesTyped
<1>4. \A s \in Slots : s \in Alive => engines[s] # None
  BY DEF Base, AllAlive
<1>5. ASSUME NEW l, NEW e, Started(l, e) \/ Answered(l, e)
      PROVE  LedgerTyped' /\ CachesTyped' /\ AllAlive' /\ SharedFits'
  <2> DEFINE heap == [engines EXCEPT ![l.engine] = e]
  <2>1. Moves(heap) /\ l \in Suspended /\ loads' \subseteq loads \union {l} /\ returned' = returned
    BY <1>3, <1>5 DEF Started, Answered
  <2>2. Alive1 \subseteq Alive \union {l.engine}
    BY <1>1, <2>1 DEF Referred
  <2>3. l.engine \in Slots
    BY <2>1 DEF Suspended
  <2>4. \A s \in Slots : heap[s] = IF s = l.engine THEN e ELSE engines[s]
    BY DEF Base, TypeOK, CachesTyped
  <2>5. e # None
    <3>1. CASE Started(l, e)
      BY <3>1, AbsenceIsNoThing DEF AbsenceIsNoThing, Started
    <3>2. CASE Answered(l, e)
      <4>1. engines[l.engine] # None /\ heap[l.engine] = e
        BY <2>3, <2>4, <3>2, EnginesOf DEF Answered
      <4> HIDE DEF heap
      <4> QED BY <2>1, <2>3, <4>1 DEF Moves
    <3> QED BY <1>5, <3>1, <3>2
  <2>6. engineCache \in Slots => engineCache # l.engine
    <3>1. CASE Started(l, e)
      BY <3>1, EmptySlot, AbsenceIsNoThing DEF AbsenceIsNoThing, Started
    <3>2. CASE Answered(l, e)
      BY <3>2 DEF Answered, Apart, LoadsApart
    <3> QED BY <1>5, <3>1, <3>2
  <2> HIDE DEF heap, Alive, Alive1
  <2>7. \A s \in Slots : s \in Alive1 => heap[s] # None
    BY <1>4, <2>2, <2>4, <2>5
  <2>8. engineCache \in Slots => heap[engineCache] = engines[engineCache]
    BY <2>4, <2>6
  <2> QED BY <1>2, <1>3, <2>1, <2>7, <2>8
<1>6. ASSUME NEW l, Rejected(l) \/ Ended(l)
      PROVE  LedgerTyped' /\ CachesTyped' /\ AllAlive' /\ SharedFits'
  <2>1. Moves(engines) /\ l \in loads /\ loads' = loads \ {l}
    BY <1>6 DEF Rejected, Ended
  <2> DEFINE v == Validator(l.engine, l.uri, l.schema, mutatingKeywords)
  <2>2. returned' \in {returned, v}
    BY <1>6 DEF Rejected, Ended
  <2>3. v \in ValidateFunction /\ v.engine = l.engine
    BY <1>3, <2>1 DEF Base, TypeOK, LedgerTyped, Validator, ValidateFunction, Suspended
  <2>4. returned' \in MaybeValidator
    BY <1>3, <2>2, <2>3 DEF MaybeValidator
  <2> HIDE DEF v
  <2>5. Alive1 \subseteq Alive
    <3>1. Validators' \subseteq Validators \union {v}
      BY <1>1, <2>2 DEF Validators, ValidatorsIn
    <3> QED BY <1>1, <2>1, <2>3, <3>1 DEF Referred, Validators
  <2> HIDE DEF Alive, Alive1
  <2>6. \A s \in Slots : s \in Alive1 => engines[s] # None
    BY <1>4, <2>5
  <2> QED BY <1>2, <1>3, <2>1, <2>4, <2>6
<1> QED BY <1>5, <1>6 DEF Waited

\* A step that only sets flags.
LEMMA RestedBase ==
  ASSUME Base, Rested
  PROVE  LedgerTyped' /\ CachesTyped' /\ AllAlive' /\ SharedFits'
<1>1. Built' = Built
  BY BuiltUnchanged DEF Rested, LedgerStays
<1> QED BY <1>1 DEF Rested, LedgerStays, ledger, caches, async, Base, TypeOK, LedgerTyped,
           CachesTyped, AllAlive, SharedFits

\* The flags and the count of calls.
LEMMA FlagsTyped ==
  ASSUME Base, [Next]_vars
  PROVE  postProcessing' \in BOOLEAN /\ calls' \in Nat
<1>1. postProcessing \in BOOLEAN /\ calls \in Nat
  BY DEF Base, TypeOK
<1>2. CASE UNCHANGED vars
  BY <1>1, <1>2 DEF vars
<1>3. CASE Next
  <2>1. postProcessing' \in {TRUE, postProcessing}
    BY <1>3 DEF Next, AddSchema, AddMetaSchema, RemoveSchema, AddKeyword, RemoveKeyword, AddFormat,
       ActivateMutatingKeyword, SetErrorPostProcessor, Invalidate, Compile, GetSchema, CompileAt,
       CompileAsync, LoadArrives, LoadEnds, Suspend
  <2>2. calls' \in {calls, calls + 1}
    BY <1>3 DEF Next, AddSchema, AddMetaSchema, RemoveSchema, AddKeyword, RemoveKeyword, AddFormat,
       ActivateMutatingKeyword, SetErrorPostProcessor, Invalidate, Compile, GetSchema, CompileAt,
       CompileAsync, LoadArrives, LoadEnds, Counted
  <2>3. postProcessing' \in BOOLEAN
    BY ONLY <1>1, <2>1, Zenon
  <2>4. calls' \in Nat
    BY ONLY <1>1, <2>2
  <2> QED BY <2>3, <2>4
<1> QED BY <1>2, <1>3

Inv == Base /\ Apart

\* Before the first call.
LEMMA InvInit ==
  ASSUME Init
  PROVE  Inv
<1>1. TypeOK
  BY FacadeAssumption DEF FacadeAssumption, Init, TypeOK, LedgerTyped, CachesTyped, NoValidators,
     MaybeObject, MaybeEngine, MaybeValidator
<1>2. Validators = {}
  BY DEF Init, Validators, ValidatorsIn, NoValidators
<1>3. AllAlive
  BY <1>2, AbsenceIsNoThing DEF AbsenceIsNoThing, Init, AllAlive, Referred, Validators
<1> QED BY <1>1, <1>2, <1>3 DEF Init, Inv, Base, SharedFits, Apart, ValidatorsApart, LoadsApart

\* Every step keeps both.
LEMMA InvNext ==
  ASSUME Inv, [Next]_vars
  PROVE  Inv'
<1>1. Base /\ Apart /\ Turn
  BY NextTurn DEF Inv
<1>2. LedgerTyped' /\ CachesTyped' /\ AllAlive' /\ SharedFits'
  BY <1>1, RestedBase, DroppedBase, LeftBase, KeptSharedBase, KeptApartBase, WaitedBase
     DEF Turn, Kept
<1>3. Apart'
  <2>1. CASE Rested
    BY <1>1, <2>1 DEF Rested, caches, async, Apart, ValidatorsApart, LoadsApart, Validators
  <2> QED BY <1>1, <2>1, DroppedApart, LeftApart, KeptApartness, WaitedApart DEF Turn
<1>4. TypeOK'
  BY <1>1, <1>2, FlagsTyped DEF TypeOK
<1> QED BY <1>2, <1>3, <1>4 DEF Inv, Base

\* The inductive invariant holds throughout.
LEMMA InvAlways == Spec => []Inv
<1> QED BY InvInit, InvNext, PTL DEF Spec

\* The ledger, the caches and the engines stay what they are: every engine a
\* validator, a suspended compileAsync or the shared slot refers to is there.
THEOREM FacadeTypeCorrect == Spec => [](TypeOK /\ AllAlive)
<1>1. Inv => TypeOK /\ AllAlive
  BY DEF Inv, Base
<1> QED BY <1>1, InvAlways, PTL

\* No validator, and no other compileAsync, has the engine an anonymous schema
\* or a compileAsync was given; the shared engine never takes such a schema.
THEOREM PrivateEngines == Spec => []PrivateEnginesStayPrivate
<1>1. ASSUME Inv  PROVE PrivateEnginesStayPrivate
  <2>1. engineCache # None => engines[engineCache].documents[Anonymous] = None
    BY <1>1, BuiltHolds, FitsNamed DEF Inv, Base, TypeOK, SharedFits, BuiltAs
  <2>2. \A l \in loads : l.engine \notin {engineCache} \union {v.engine : v \in Validators}
    BY <1>1 DEF Inv, Apart, LoadsApart
  <2>3. \A l \in loads : \A m \in loads \ {l} : m.engine # l.engine
    BY <1>1 DEF Inv, Apart, LoadsApart
  <2>4. \A v \in Validators : v.uri = Anonymous =>
          v.engine # engineCache /\ \A w \in Validators \ {v} : w.engine # v.engine
    BY <1>1 DEF Inv, Apart, ValidatorsApart
  <2> QED BY ONLY <2>1, <2>2, <2>3, <2>4 DEF PrivateEnginesStayPrivate
<1> QED BY <1>1, InvAlways, PTL
(***************************************************************************)
(* Validators are snapshots.                                               *)
(***************************************************************************)
\* Between two states an engine that a validator keeps only grows.
LEMMA EnginesGrow ==
  ASSUME Inv, Turn, NEW s \in Slots, engines[s] # None,
         s \in Referred(engineCache', compiledByObject', compiledByRef', loads', returned')
  PROVE  Extends(engines[s], engines'[s])
<1>1. CASE Rested
  <2>1. engines[s] \in Engine
    BY DEF Inv, Base, TypeOK, CachesTyped, MaybeEngine
  <2> QED BY <1>1, <2>1, ExtendsReflexive DEF Rested, caches
<1>2. ASSUME NEW heap, Moves(heap)  PROVE Extends(engines[s], engines'[s])
  <2>1. engines'[s] = heap[s]
    BY <1>2, MovesTo
  <2> QED BY <1>2, <2>1 DEF Moves
<1>3. CASE Dropped
  BY <1>2, <1>3 DEF Dropped
<1>4. CASE Left
  BY <1>2, <1>4 DEF Left
<1>5. CASE Kept
  BY <1>2, <1>5 DEF Kept, KeptShared, KeptApart
<1>6. CASE Waited
  BY <1>2, <1>6 DEF Waited, Started, Answered, Rejected, Ended
<1> QED BY <1>1, <1>3, <1>4, <1>5, <1>6 DEF Turn

\* ... so that of a validator kept does.
LEMMA ValidatorEnginesGrow ==
  ASSUME Inv, Turn, NEW v \in Validators \intersect Validators'
  PROVE  /\ engines[v.engine] \in Engine /\ v.uri \in Resources /\ v.schema \in Objects
         /\ Extends(engines[v.engine], engines'[v.engine])
<1>1. v.engine \in Slots /\ engines[v.engine] # None
  BY EnginesOf DEF Inv
<1>2. v \in ValidateFunction
  BY ValidatorsType DEF Inv, Base, TypeOK
<1>3. v.engine \in Referred(engineCache', compiledByObject', compiledByRef', loads', returned')
  BY DEF Referred, Validators
<1>4. engines[v.engine] \in Engine
  BY <1>1 DEF Inv, Base, TypeOK, CachesTyped, MaybeEngine
<1> QED BY <1>1, <1>2, <1>3, <1>4, EnginesGrow DEF ValidateFunction

\* An evaluation gets to resources by their names.
LEMMA NamesReachedType ==
  ASSUME NEW e \in Engine, NEW uri \in Resources
  PROVE  NamesReached(e, uri) \subseteq Resources
<1> DEFINE from(names) ==
             UNION {IF Resolved(e, u) = None THEN {} ELSE Refs[Resolved(e, u)] : u \in names}
           n == Cardinality(Objects)
           D == SUBSET Resources
           step == [d \in D |-> [k \in 1..n |-> d \union from(d)]]
           body(g) == [k \in 0..n |-> IF k = 0 THEN {uri} ELSE g[k - 1] \union from(g[k - 1])]
           reached == CHOOSE g : g = body(g)
<1>1. n \in Nat
  BY FacadeAssumption, FS_CardinalityType DEF FacadeAssumption
<1>2. ASSUME NEW d \in D  PROVE d \union from(d) \in D
  <2>1. ASSUME NEW u \in d
        PROVE  (IF Resolved(e, u) = None THEN {} ELSE Refs[Resolved(e, u)]) \subseteq Resources
    <3>1. Resolved(e, u) \in MaybeObject
      BY ResolvedType
    <3> QED BY <3>1, FacadeAssumption DEF FacadeAssumption, MaybeObject, Resources
  <2> QED BY <2>1
<1> HIDE DEF from
<1>3. {uri} \in D /\ step \in [D -> [1..n -> D]]
  BY <1>2
<1>4. \A d \in D, k \in 1..n : step[d][k] = d \union from(d)
  OBVIOUS
<1> HIDE DEF n, D, step
<1>5. PICK g \in [0..n -> D] : Recursion(g, n, {uri}, step)
  BY ONLY <1>1, <1>3, RecursionExists
<1>6. g = body(g)
  <2>1. ASSUME NEW k \in 0..n  PROVE g[k] = body(g)[k]
    <3>1. CASE k = 0
      BY <1>5, <3>1 DEF Recursion
    <3>2. CASE k # 0
      <4>1. k \in 1..n /\ k - 1 \in 0..n
        BY <1>1, <3>2
      <4>2. g[k - 1] \in D /\ g[k] = step[g[k - 1]][k]
        BY <1>5, <4>1 DEF Recursion
      <4> QED BY <1>4, <3>2, <4>1, <4>2
    <3> QED BY <3>1, <3>2
  <2> QED BY <1>5, <2>1
<1>7. reached = body(reached)
  <2> HIDE DEF body
  <2> QED BY <1>6
<1> HIDE DEF reached
<1>8. reached[n] \in D
  <2> DEFINE P == {k \in 0..n : reached[k] \in D}
  <2>1. 0 \in P
    BY <1>1, <1>3, <1>7
  <2>2. ASSUME NEW k \in 1..n, k - 1 \in P  PROVE k \in P
    <3>1. k \in 0..n /\ k # 0 /\ reached[k - 1] \in D
      BY <1>1, <2>2
    <3>2. reached[k] = reached[k - 1] \union from(reached[k - 1])
      BY <1>7, <3>1
    <3> QED BY <1>2, <3>1, <3>2
  <2>3. 0..n \subseteq P
    <3> HIDE DEF P
    <3> QED BY <1>1, <2>1, <2>2, UpToInduction
  <2>4. n \in 0..n
    BY <1>1
  <2> QED BY <2>3, <2>4
<1>9. NamesReached(e, uri) = reached[n]
  BY DEF NamesReached, reached, n, from
<1> QED BY <1>8, <1>9 DEF D

\* No call changes what an evaluation of a validator compiled before it gets
\* to: schemas added or removed later never reach its engine.
THEOREM ValidatorSnapshots == Spec => ValidatorsAreSnapshots
<1>1. ASSUME Inv, [Next]_vars, NEW v \in Validators \intersect Validators',
             NEW u \in NamesReached(engines[v.engine], v.uri),
             Resolved(engines[v.engine], u) # None
      PROVE  SameSchema(Resolved(engines'[v.engine], u), Resolved(engines[v.engine], u))
  <2>1. Turn
    BY <1>1, NextTurn DEF Inv
  <2>2. /\ engines[v.engine] \in Engine /\ v.uri \in Resources
        /\ Extends(engines[v.engine], engines'[v.engine])
    BY <1>1, <2>1, ValidatorEnginesGrow
  <2>3. u \in Resources
    BY <1>1, <2>2, NamesReachedType
  <2> QED BY <1>1, <2>2, <2>3 DEF Extends
<1> DEFINE Keeps ==
      \A v \in Validators \intersect Validators' :
        LET e == engines[v.engine]
        IN \A u \in NamesReached(e, v.uri) : Resolved(e, u) # None =>
             SameSchema(Resolved(engines'[v.engine], u), Resolved(e, u))
<1>2. Inv /\ [Next]_vars => [Keeps]_vars
  BY <1>1
<1> QED BY <1>2, InvAlways, PTL DEF Spec, ValidatorsAreSnapshots
(***************************************************************************)
(* Every validator in a cache resolves the references of its schema.       *)
(***************************************************************************)
CachedValidators == ValidatorsIn(compiledByObject, compiledByRef, None)

\* What a cache holds, something refers to.
LEMMA CachedAreValidators ==
  CachedValidators \subseteq Validators
BY DEF CachedValidators, Validators, ValidatorsIn

\* ... which a step that caches nothing new keeps, ...
LEMMA OwnReferencesKept ==
  ASSUME Inv, Turn, OwnReferencesResolve,
         NEW v \in CachedValidators, v \in CachedValidators', NEW u \in Refs[v.schema]
  PROVE  Resolved(engines'[v.engine], u) # None
<1>1. CachedValidators \subseteq Validators /\ CachedValidators' \subseteq Validators'
  BY CachedAreValidators DEF CachedValidators, Validators, ValidatorsIn
<1>2. Extends(engines[v.engine], engines'[v.engine]) /\ v.schema \in Objects
  BY <1>1, ValidatorEnginesGrow
<1>3. u \in Resources
  BY <1>2, FacadeAssumption DEF FacadeAssumption, Resources
<1>4. Resolved(engines[v.engine], u) # None
  BY DEF OwnReferencesResolve, CachedValidators
<1> QED BY <1>2, <1>3, <1>4 DEF Extends, SameSchema

\* ... and a compilation checks of what it caches.
LEMMA OwnReferencesAdded ==
  ASSUME Inv, Kept,
         NEW v \in CachedValidators' \ CachedValidators, NEW u \in Refs[v.schema]
  PROVE  Resolved(engines'[v.engine], u) # None
<1>1. CachesTyped /\ returned' = returned
  BY DEF Inv, Base, TypeOK, Kept, async
<1>2. ASSUME NEW o \in Objects, NEW key, NEW w \in ValidateFunction, Cached(o, key, w),
             w.schema = o, NEW heap, Moves(heap), NEW e, heap[w.engine] = e,
             \A x \in Refs[o] : Resolved(e, x) # None
      PROVE  Resolved(engines'[v.engine], u) # None
  <2>1. v = w /\ w \in Validators'
    BY <1>1, <1>2, CachedAdds DEF CachedValidators
  <2>2. w.engine \in Slots
    BY DEF ValidateFunction
  <2>3. w.engine \in Referred(engineCache', compiledByObject', compiledByRef', loads', returned')
    BY <2>1 DEF Referred, Validators
  <2>4. engines'[w.engine] = e
    BY <1>2, <2>2, <2>3, MovesTo
  <2> QED BY <1>2, <2>1, <2>4
<1>3. ASSUME NEW o \in Objects, NEW key \in URIs \union {None}, NEW slot, NEW e,
             KeptShared(o, key, slot, e)
      PROVE  Resolved(engines'[v.engine], u) # None
  <2> DEFINE w == Validator(slot, BaseOf(o, Retrieval(o, key)), o, mutatingKeywords)
             heap == [s \in Slots |-> IF s = slot THEN e ELSE engines[s]]
  <2>1. /\ slot \in Slots /\ Cached(o, key, w) /\ Moves(heap)
        /\ \A x \in Refs[o] : Resolved(e, x) # None
    BY <1>3 DEF KeptShared, SharedBecomes
  <2>2. w \in ValidateFunction /\ w.engine = slot /\ w.schema = o
    <3>1. BaseOf(o, Retrieval(o, key)) \in URIs
      BY <1>3, NamedNames DEF KeptShared
    <3> QED BY <2>1, <3>1
            DEF Inv, Base, TypeOK, LedgerTyped, Validator, ValidateFunction, Resources
  <2>3. heap[w.engine] = e
    BY <2>1, <2>2
  <2> HIDE DEF w, heap
  <2> QED BY <1>2, <2>1, <2>2, <2>3
<1>4. ASSUME NEW o \in Objects, NEW slot, NEW e, NEW shared, NEW sharedEngine,
             KeptApart(o, slot, e, shared, sharedEngine)
      PROVE  Resolved(engines'[v.engine], u) # None
  <2> DEFINE w == Validator(slot, Anonymous, o, mutatingKeywords)
             heap == [s \in Slots |-> IF s = slot THEN e
                                      ELSE IF s = shared THEN sharedEngine ELSE engines[s]]
  <2>1. /\ slot \in Slots /\ Cached(o, None, w) /\ Moves(heap)
        /\ \A x \in Refs[o] : Resolved(e, x) # None
    BY <1>4 DEF KeptApart
  <2>2. w \in ValidateFunction /\ w.engine = slot /\ w.schema = o
    BY <2>1 DEF Inv, Base, TypeOK, LedgerTyped, Validator, ValidateFunction, Resources
  <2>3. heap[w.engine] = e
    BY <2>1, <2>2
  <2> HIDE DEF w, heap
  <2> QED BY <1>2, <2>1, <2>2, <2>3
<1> QED BY <1>3, <1>4 DEF Kept

\* A validator is cached only when nothing its schema refers to is missing,
\* whatever calls failed in its engine before, and stays so.
THEOREM ValidatorsResolve == Spec => []OwnReferencesResolve
<1>1. Init => OwnReferencesResolve
  BY DEF Init, OwnReferencesResolve, ValidatorsIn, NoValidators
<1>2. ASSUME Inv, OwnReferencesResolve, [Next]_vars  PROVE OwnReferencesResolve'
  <2>1. Turn
    BY <1>2, NextTurn DEF Inv
  <2>2. Kept \/ CachedValidators' \subseteq CachedValidators
    BY <2>1 DEF Turn, Rested, Dropped, Left, Waited, caches, CachedValidators, ValidatorsIn,
       NoValidators
  <2>3. ASSUME NEW v \in CachedValidators', NEW u \in Refs[v.schema]
        PROVE  Resolved(engines'[v.engine], u) # None
    <3>1. CASE v \in CachedValidators
      BY <1>2, <2>1, <2>3, <3>1, OwnReferencesKept
    <3>2. CASE v \notin CachedValidators
      BY <1>2, <2>2, <2>3, <3>2, OwnReferencesAdded
    <3> QED BY <3>1, <3>2
  <2> QED BY <2>3 DEF OwnReferencesResolve, CachedValidators
<1> QED BY <1>1, <1>2, InvAlways, PTL DEF Spec

(***************************************************************************)
(* The caches are current.                                                 *)
(***************************************************************************)
\* The shared engine is.
LEMMA SharedCurrent ==
  ASSUME Inv
  PROVE  SharedEngineIsCurrent
<1> SUFFICES ASSUME engineCache # None
             PROVE  LET e == engines[engineCache]
                    IN /\ Built # Failed
                       /\ \A u \in URIs : Resolved(Built, u) # None =>
                            SameSchema(Resolved(e, u), Resolved(Built, u))
                       /\ \A u \in Resources : e.documents[u] # None =>
                            SameSchema(e.documents[u], Built.documents[u]) \/ Id[e.documents[u]] = u
                       /\ e.keywords = customKeywords /\ e.formats = customFormats
  BY DEF SharedEngineIsCurrent
<1>1. Built # None /\ Fits(Built, engines[engineCache])
  BY DEF Inv, Base, SharedFits
<1>2. BuiltAs(Built, docs, customKeywords, customFormats)
  BY <1>1, BuiltHolds DEF Inv, Base, TypeOK
<1> QED BY <1>1, <1>2 DEF Failed, Fits, Extends, BuiltAs, Resources

\* A validator filed by key before and after the step is current as it was.
LEMMA RefKept ==
  ASSUME Inv, Turn, RefCacheIsCurrent, docs' = docs,
         engineCache = None \/ engineCache' = engineCache,
         NEW k \in URIs, compiledByRef'[k] = compiledByRef[k], compiledByRef[k] # None
  PROVE  LET v == compiledByRef'[k]
         IN /\ v.engine = engineCache'
            /\ SameSchema(v.schema, Resolved(engines'[engineCache'], k))
            /\ docs'[k] # None => SameSchema(v.schema, docs'[k])
<1> DEFINE v == compiledByRef[k]
<1>1. /\ v.engine = engineCache
      /\ SameSchema(v.schema, Resolved(engines[engineCache], k))
      /\ docs[k] # None => SameSchema(v.schema, docs[k])
  BY DEF RefCacheIsCurrent
<1>2. v \in Validators
  BY ValidatorsType DEF Inv, Base, TypeOK
<1>3. v.engine \in Slots
  BY <1>2, EnginesOf DEF Inv
<1>4. engineCache' = engineCache /\ engineCache \in Slots /\ engineCache # None
  BY <1>1, <1>3, AbsenceIsNoThing DEF AbsenceIsNoThing
<1>5. engines[engineCache] # None
  BY <1>4, EnginesOf DEF Inv
<1>6. Extends(engines[engineCache], engines'[engineCache])
  BY <1>4, <1>5, EnginesGrow DEF Referred
<1>7. SameSchema(Resolved(engines'[engineCache], k), Resolved(engines[engineCache], k))
  BY <1>1, <1>6 DEF Extends, SameSchema, Resources
<1> QED BY <1>1, <1>4, <1>7 DEF SameSchema

\* One filed by the step is.
LEMMA RefAdded ==
  ASSUME Inv, LedgerStays, NEW o \in Objects, NEW key \in URIs \union {None}, NEW slot, NEW e,
         KeptShared(o, key, slot, e),
         NEW k \in URIs, k \in {key} \union (IF opts.addUsedSchema THEN {Id[o]} ELSE {})
  PROVE  LET v == compiledByRef'[k]
         IN /\ v.engine = engineCache'
            /\ SameSchema(v.schema, Resolved(engines'[engineCache'], k))
            /\ docs'[k] # None => SameSchema(v.schema, docs'[k])
<1> DEFINE v == Validator(slot, BaseOf(o, Retrieval(o, key)), o, mutatingKeywords)
           heap == [s \in Slots |-> IF s = slot THEN e ELSE engines[s]]
<1>1. /\ SharedBecomes(slot, e) /\ engineCache' = slot /\ Cached(o, key, v) /\ Moves(heap)
      /\ Resolved(e, Retrieval(o, key)) = o /\ Resolved(e, BaseOf(o, Retrieval(o, key))) = o
      /\ ~ IsAnonymous(o, key)
  BY DEF KeptShared
<1>2. slot \in Slots /\ Built # None /\ Fits(Built, e)
  BY <1>1 DEF SharedBecomes
<1>3. compiledByRef'[k] = v /\ v.engine = slot /\ v.schema = o
  BY <1>1 DEF Cached, Validator
<1>4. engines'[engineCache'] = e
  BY <1>1, <1>2, MovesShared
<1>5. o # None
  BY AbsenceIsNoThing DEF AbsenceIsNoThing
<1>6. Resolved(e, k) = o
  <2>1. k # None
    BY AbsenceIsNoThing DEF AbsenceIsNoThing
  <2> QED BY <1>1, <2>1, NamedNames
<1>7. docs[k] # None => SameSchema(o, docs[k])
  <2> SUFFICES ASSUME docs[k] # None  PROVE SameSchema(o, docs[k])
    OBVIOUS
  <2>1. BuiltAs(Built, docs, customKeywords, customFormats)
    BY <1>2, BuiltHolds DEF Inv, Base, TypeOK
  <2>2. SameSchema(Resolved(Built, k), docs[k])
    BY <2>1 DEF BuiltAs, Holds, Filed
  <2>3. SameSchema(Resolved(e, k), Resolved(Built, k))
    BY <1>2, <2>2 DEF Fits, Extends, SameSchema, Resources
  <2> QED BY <1>6, <2>2, <2>3 DEF SameSchema
<1> HIDE DEF v
<1> QED BY <1>1, <1>3, <1>4, <1>5, <1>6, <1>7 DEF SameSchema, LedgerStays, ledger

\* A step keeps them all.
LEMMA RefNext ==
  ASSUME Inv, Turn, RefCacheIsCurrent
  PROVE  RefCacheIsCurrent'
<1> DEFINE Current(k) ==
      LET v == compiledByRef'[k]
      IN /\ v.engine = engineCache'
         /\ SameSchema(v.schema, Resolved(engines'[engineCache'], k))
         /\ docs'[k] # None => SameSchema(v.schema, docs'[k])
<1> SUFFICES ASSUME NEW k \in URIs, compiledByRef'[k] # None  PROVE Current(k)
  BY DEF RefCacheIsCurrent
<1>1. CASE compiledByRef'[k] = compiledByRef[k] /\ docs' = docs
           /\ (engineCache = None \/ engineCache' = engineCache)
  BY <1>1, RefKept
<1> HIDE DEF Current
<1>2. CASE Rested \/ Waited
  BY <1>1, <1>2 DEF Rested, Waited, caches, LedgerStays, ledger
<1>3. CASE Dropped
  BY <1>3 DEF Dropped, NoValidators
<1>4. ASSUME NEW slot, NEW e, SharedStays(slot, e), engineCache' = slot
      PROVE  engineCache = None \/ engineCache' = engineCache
  BY <1>4 DEF SharedStays, SharedBecomes
<1>5. CASE Left
  BY <1>1, <1>4, <1>5 DEF Left, LedgerStays, ledger
<1>6. CASE Kept
  <2>0. docs' = docs /\ LedgerStays
    BY <1>6 DEF Kept, LedgerStays, ledger
  <2>1. ASSUME NEW o \in Objects, NEW key \in URIs \union {None}, NEW slot, NEW e,
               KeptShared(o, key, slot, e)
        PROVE  Current(k)
    <3>1. CASE k \in {key} \union (IF opts.addUsedSchema THEN {Id[o]} ELSE {})
      BY <2>0, <2>1, <3>1, RefAdded DEF Current
    <3>2. CASE k \notin {key} \union (IF opts.addUsedSchema THEN {Id[o]} ELSE {})
      <4>1. compiledByRef'[k] = compiledByRef[k]
        BY <2>1, <3>2 DEF KeptShared, Cached
      <4>2. engineCache = None \/ engineCache' = engineCache
        BY <1>4, <2>1 DEF KeptShared, SharedStays
      <4> QED BY <1>1, <2>0, <4>1, <4>2
    <3> QED BY <3>1, <3>2
  <2>2. ASSUME NEW o \in Objects, NEW slot, NEW e, NEW shared, NEW sharedEngine,
               KeptApart(o, slot, e, shared, sharedEngine)
        PROVE  Current(k)
    <3>1. k \notin {None} \union (IF opts.addUsedSchema THEN {Id[o]} ELSE {})
      BY <2>2, AbsenceIsNoThing DEF AbsenceIsNoThing, KeptApart, IsAnonymous
    <3>2. compiledByRef'[k] = compiledByRef[k]
      BY <2>2, <3>1 DEF KeptApart, Cached
    <3>3. engineCache = None \/ engineCache' = engineCache
      BY <1>4, <2>2 DEF KeptApart
    <3> QED BY <1>1, <2>0, <3>2, <3>3
  <2> QED BY <1>6, <2>1, <2>2 DEF Kept
<1> QED BY <1>2, <1>3, <1>5, <1>6 DEF Turn

\* Neither the shared engine nor the cache by reference answers from before a
\* change: the engine is what the ledger as it stands builds, and a validator
\* filed by key answers for the schema the key names now.
THEOREM CachesCurrent == Spec => []CachesAreCurrent
<1>1. Init => RefCacheIsCurrent
  BY DEF Init, RefCacheIsCurrent, NoValidators
<1>2. ASSUME Inv, RefCacheIsCurrent, [Next]_vars  PROVE RefCacheIsCurrent'
  BY <1>2, NextTurn, RefNext DEF Inv
<1>3. Inv /\ RefCacheIsCurrent => CachesAreCurrent
  BY SharedCurrent DEF CachesAreCurrent
<1> QED BY <1>1, <1>2, <1>3, InvAlways, PTL DEF Spec
=============================================================================

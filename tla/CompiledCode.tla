------------------------------ MODULE CompiledCode ------------------------------
(***************************************************************************)
(* The code a plan is serialized to, and what running it comes to.  There  *)
(* are two outputs.  A flag artifact answers yes or no, returns at the     *)
(* first failure and expands single-use units into their caller.  A list   *)
(* artifact goes on after a failure and collects every error.  A unit that *)
(* tracks coverage, and the units it applies at its own location, run      *)
(* every branch in either output and thread the channel.                   *)
(*                                                                         *)
(* A function is <<unit, region>>: the units of a region have a second     *)
(* variant that takes the channel.  The code is [plan, list, functions,    *)
(* maxDepth], functions mapping those that are emitted to what their       *)
(* bodies come to, maxDepth being the option the artifact is bound with.   *)
(***************************************************************************)
EXTENDS CompilationPlan, Interpretation

CONSTANTS InlineLimit, \* units expanded into one another
          IsCoverage(_) \* of a behavior: coverageIds() has it

IsStatic(P, n) == P.units[n].kind = "static"
LoweredKeywords(P, n) ==
  LET present == KeywordsOf(n)
  IN [i \in DOMAIN present |-> [k |-> present[i], code |-> Lower(present[i], P.units[n])]]

(***************************************************************************)
(* Serializing.                                                            *)
(***************************************************************************)
RECURSIVE CallsOf(_)
\* The applications of a statement list: [app, must].
CallsOf(code) ==
  LET of(s) == CASE s.op \in {"must", "negate", "count"} -> <<[app |-> s.app, must |-> s.op = "must"]>>
                 [] s.op \in {"anyRun", "oneRun"} ->
                      [i \in DOMAIN s.apps |-> [app |-> s.apps[i], must |-> FALSE]]
                 [] s.op = "if" ->
                      OnlyIf(s.cond.test = "applies", <<[app |-> s.cond.app, must |-> FALSE]>>)
                      \o CallsOf(s.then) \o CallsOf(s.else)
                 [] s.op \in {"eachKey", "eachIndex", "scope"} -> CallsOf(s.body)
                 [] OTHER -> << >>
  IN FlattenSeq([i \in DOMAIN code |-> of(code[i])])
AllCalls(P, n) ==
  LET ks == LoweredKeywords(P, n)
  IN FlattenSeq([i \in DOMAIN ks |-> CallsOf(ks[i].code)])

HasEdge(P, n, app) == \E i \in DOMAIN P.units[n].edges : P.units[n].edges[i].segs = app.segs
EdgeTarget(P, n, app) ==
  LET e == P.units[n].edges
  IN e[CHOOSE i \in DOMAIN e : e[i].segs = app.segs].to

IsHere(app) == app.cursor.to = "here"
InRegionOf(P, app, region) == region /\ IsHere(app)
Function(P, app, to, region) == <<to, InRegionOf(P, app, region) /\ ~IsBoolean(to)>>

\* A function whose unit has two variants expands in neither.
Expands(P, fn, list) ==
  ~list /\ ~P.units[fn[1]].tracking /\ ~P.units[fn[1]].inRegion
\* stack holds the units being expanded, the function's own first.
Inlines(P, call, to, stack, expands) ==
  /\ expands /\ call.must
  /\ IsStatic(P, to) /\ ~IsBoolean(to)
  /\ P.units[to].uses = 1
  /\ ~P.units[to].reaches /\ ~P.units[to].tracking /\ ~P.units[to].inRegion
  /\ to \notin stack
  /\ Cardinality(stack) <= InlineLimit

\* An application that is folded to a literal calls nothing.
Folds(to, list) == Node[to].kind = "true" \/ (Node[to].kind = "false" /\ ~list)

\* What a function's body comes to: the units it expands, the functions it
\* calls, and whether it calls anything, islands included.
Nothing == [inlined |-> {}, calls |-> {}, any |-> FALSE]
Merged(parts) ==
  [inlined |-> UNION {p.inlined : p \in parts}, calls |-> UNION {p.calls : p \in parts},
   any |-> \E p \in parts : p.any]
RECURSIVE Body(_, _, _, _, _, _)
Body(P, n, stack, region, expands, list) ==
  LET calls == AllCalls(P, n)
      of(call) ==
        LET to == EdgeTarget(P, n, call.app)
            inner == Body(P, to, stack \union {to}, FALSE, TRUE, list)
        IN IF Inlines(P, call, to, stack, expands)
           THEN [inner EXCEPT !.inlined = @ \union {to}]
           ELSE IF ~IsStatic(P, to) THEN [Nothing EXCEPT !.any = TRUE]
           ELSE IF Folds(to, list) THEN Nothing
           ELSE [Nothing EXCEPT !.calls = {Function(P, call.app, to, region)}, !.any = TRUE]
  IN Merged({of(calls[i]) : i \in DOMAIN calls})
BodyOf(P, fn, list) ==
  IF IsBoolean(fn[1]) THEN Nothing
  ELSE Body(P, fn[1], {fn[1]}, fn[2] \/ P.units[fn[1]].tracking, Expands(P, fn, list), list)

\* Every application of a static unit needs its edge, and one that threads the
\* channel a target with a variant for it: otherwise SerializeError.
Serializable(P) ==
  \A n \in DOMAIN P.units : IsStatic(P, n) /\ ~IsBoolean(n) =>
    LET calls == AllCalls(P, n)
    IN \A i \in DOMAIN calls :
         /\ HasEdge(P, n, calls[i].app)
         /\ LET to == EdgeTarget(P, n, calls[i].app)
            IN InRegionOf(P, calls[i].app, P.units[n].tracking \/ P.units[n].inRegion)
               /\ IsStatic(P, to) /\ ~IsBoolean(to) => P.units[to].inRegion

Rendered(P) ==
  {<<n, FALSE>> : n \in {n \in DOMAIN P.units : IsStatic(P, n)}}
  \union {<<n, TRUE>> : n \in {n \in DOMAIN P.units : IsStatic(P, n) /\ P.units[n].inRegion}}

\* (mutant) The other variant of an expanded unit is dropped with it.
EmittedPlain(P, list) ==
  LET inlined == UNION {BodyOf(P, fn, list).inlined : fn \in Rendered(P)}
  IN {fn \in Rendered(P) : fn[1] = P.root \/ (fn[1] \notin inlined /\ ~P.units[fn[1]].inRegion)}
\* The functions of expanded units are dropped, and of folded booleans.
Emitted(P, list) ==
  LET inlined == UNION {BodyOf(P, fn, list).inlined : fn \in Rendered(P)}
  IN {fn \in Rendered(P) :
        \/ fn[2]
        \/ fn[1] = P.root
        \/ fn[1] \notin inlined /\ (IsBoolean(fn[1]) => list)}

FunctionsOf(P, list) == [fn \in Emitted(P, list) |-> BodyOf(P, fn, list)]

(***************************************************************************)
(* Running.  g is where a body runs: [code, fn, unit, stack, region, c,    *)
(* path, scope, depth]; f what it has come to: the verdict of a list (ok,  *)
(* and of the keyword in hand kwOk), whether a flag body has returned      *)
(* false, the errors, the channel, and what the keyword has bound.         *)
(***************************************************************************)
Started ==
  [thrown |-> "", ok |-> TRUE, returned |-> FALSE, kwOk |-> TRUE, errs |-> << >>,
   ev |-> << >>, notes |-> << >>, tried |-> << >>, matched |-> << >>, rejects |-> << >>, key |-> "", covered |-> {}]
Stopped(f) == f.thrown # "" \/ f.returned

Answers(ok, errs, ev, notes) ==
  [thrown |-> "", ok |-> ok, errs |-> errs, ev |-> ev, notes |-> notes]
Raises(name) == [Answers(FALSE, << >>, << >>, << >>) EXCEPT !.thrown = name]

SegOf(s, f) == IF s.loop THEN f.key ELSE s.seg
IndexOf(seg) == CHOOSE i \in 0..9 : Ix(i) = seg
ChildOf(c, seg) == IF IsObject(c.val) THEN Property(c, seg) ELSE Item(c, IndexOf(seg))
CursorAt(c, cursor, f) ==
  CASE cursor.to = "here"  -> c
    [] cursor.to = "child" -> ChildOf(c, SegOf(cursor.seg, f))
    [] cursor.to = "key"   -> PropertyName(c, f.key)

\* The index keys a loop runs over.
IndexKeys(v, start) == IxOf(FromIndex(v, start))

Holds(cond, k, v, f) ==
  CASE cond.test = "type"      -> v.t = cond.type
    [] cond.test = "has"       -> IsObject(v) /\ cond.name \in Keys(v)
    [] cond.test = "longer"    -> IsArray(v) /\ Len(v.kids) > cond.than
    [] cond.test = "in"        -> f.key \in cond.names
    [] cond.test = "notIn"     -> f.key \notin cond.names
    [] cond.test = "uncovered" -> f.key \notin f.covered
    [] cond.test = "violated"  -> LoweredFails(k, v)
    [] cond.test = "absent"    -> MissingNames(k.deps, v) # << >>

\* The behaviors whose data consumers understand as coverage: what crosses from
\* an island into the channel, and what producers put there.  The runtime and
\* the serializer ask the registry for them once.
ReadAsCoverage(present) ==
  LET states(k) == EvaluatesNames(k).stated \/ EvaluatesIndexes(k).stated
  IN {k.id : k \in {k \in present : states(k)}} \intersect UNION {k.reads : k \in present}
ASSUME CoverageIdsAreRead ==
  LET present == UNION {ToSet(KeywordsOf(n)) :
                          n \in {n \in DOMAIN Node : Node[n].kind = "object"}}
  IN \A k \in present : IsCoverage(k.id) <=> k.id \in ReadAsCoverage(present)

\* The keys the channel covers: names, or the items of this array.
Covered(ev, v) ==
  UNION {ev[i].names : i \in DOMAIN ev}
  \union {Ix(j) : j \in EvaluatedItems([i \in DOMAIN ev |-> [data |-> ev[i]]], v) \ {Len(v.kids)}}

\* What a producer puts on the channel, from the keys it tried or matched.
Rendering(render, f, v) ==
  LET tried == {IndexOf(seg) : seg \in ToSet(f.tried)}
      largest == CHOOSE i \in tried : \A j \in tried : j <= i
  IN CASE render = "names" -> <<Names(ToSet(f.tried))>>
       [] render = "largestOrTrue" -> OnlyIf(f.tried # << >>,
            <<IF largest + 1 = Len(v.kids) THEN All(TRUE) ELSE Count(largest + 1)>>)
       [] render = "appliedTrue" -> OnlyIf(f.tried # << >>, <<All(TRUE)>>)
       [] render = "matchedOrAllTrue" -> OnlyIf(f.matched # << >>,
            <<IF Len(f.matched) = Len(v.kids) THEN All(TRUE)
              ELSE Indexes({IndexOf(seg) : seg \in ToSet(f.matched)})>>)

Tried(f, app) == IF app.cursor.to # "child" THEN f
                 ELSE [f EXCEPT !.tried = Append(@, SegOf(app.cursor.seg, f))]

\* A list notes the failure and goes on; a flag leaves the function.
Rejects(f, g) ==
  IF g.code.list THEN [f EXCEPT !.ok = FALSE, !.kwOk = FALSE] ELSE [f EXCEPT !.returned = TRUE]
Failing(f, k, g, about) ==
  IF g.code.list
  THEN Rejects([f EXCEPT !.errs = Append(@, ErrorAt(k.kw, k.on, g.c, g.path, about))], g)
  ELSE Rejects(f, g)

\* Of the applications rs: the coverage and the annotations of those that passed,
\* and all errors.
Keeping(f, rs) ==
  [f EXCEPT !.ev = @ \o FlattenSeq([i \in DOMAIN rs |-> OnlyIf(rs[i].ok, rs[i].ev)]),
            !.notes = @ \o FlattenSeq([i \in DOMAIN rs |-> OnlyIf(rs[i].ok, rs[i].notes)])]
Telling(f, rs) == [f EXCEPT !.errs = @ \o FlattenSeq([i \in DOMAIN rs |-> rs[i].errs])]
Verdicts(rs) == [i \in DOMAIN rs |-> rs[i].ok]

DataOf(deps) == [i \in DOMAIN deps |-> deps[i].data]
\* An island is interpreted, as a fragment of its own, from the value: it starts
\* with an empty set of open applications and gives back the coverage recorded
\* at its root.
RunIsland(to, c, path, g, region) ==
  LET crosses(d) == d.loc = c.loc /\ IsCoverage(d.id)
      back(r) == IF r.thrown # "" THEN Raises(r.thrown)
                 ELSE Answers(r.ok, OnlyIf(g.code.list, r.errors),
                              OnlyIf(region, DataOf(SelectSeq(r.deps, crosses))),
                              OnlyIf(g.code.list, r.notes))
  IN back(ApplySchema(to, [RootCursor(c.val) EXCEPT !.loc = c.loc], path,
                      Fragment(g.scope, g.depth, g.code.maxDepth)))

\* Unknown keywords annotate, after all others.
UnknownNotes(g) ==
  LET unknown == SelectSeq(NodeTable(g.fn[1]), LAMBDA k : k.id = "unknown")
  IN [i \in DOMAIN unknown |-> NoteAt(unknown[i], g.c, g.path)]

RECURSIVE Exec(_, _, _, _, _), ExecOne(_, _, _, _), Iterate(_, _, _, _, _, _), CallAll(_, _, _, _),
          RunKeywords(_, _, _, _), CallUnit(_, _)

\* The application app of g's unit, made where the keyword has come to f.
Call(app, f, g) ==
  LET P      == g.code.plan
      at(to) == [g EXCEPT !.c = CursorAt(g.c, app.cursor, f), !.path = @ \o app.segs,
                          !.fn = Function(P, app, to, g.region),
                          !.scope = IF P.units[g.unit].reaches THEN @ ELSE << >>]
      made(to) == IF ~IsStatic(P, to)
                  THEN RunIsland(to, at(to).c, at(to).path, at(to), InRegionOf(P, app, g.region))
                  ELSE IF Folds(to, g.code.list)
                  THEN Answers(Node[to].kind = "true", << >>, << >>, << >>)
                  ELSE CallUnit(at(to), g.depth)
  IN made(EdgeTarget(P, g.unit, app))

\* calls are [app, f]; the answers up to the first that throws, or up to the
\* first that passes where that is enough.
CallAll(calls, i, enough, g) ==
  LET after(r) == IF r.thrown # "" \/ (enough /\ r.ok) THEN <<r>>
                  ELSE <<r>> \o CallAll(calls, i + 1, enough, g)
  IN IF i > Len(calls) THEN << >> ELSE after(Call(calls[i].app, calls[i].f, g))

\* The function g.fn, called at g.c with the scope and the channel of its caller.
\* Only one that calls a function or an island looks at the depth, and counts.
CallUnit(g, depth) ==
  LET n      == g.fn[1]
      P      == g.code.plan
      calls  == g.code.functions[g.fn].any
      nested == P.units[n].reaches /\ (g.scope = << >> \/ g.scope[Len(g.scope)] # Base(n))
      own    == [g EXCEPT !.unit = n, !.stack = {n},
                          !.region = g.fn[2] \/ P.units[n].tracking,
                          !.expands = Expands(P, g.fn, g.code.list),
                          !.scope = IF nested THEN Append(@, Base(n)) ELSE @,
                          !.depth = IF calls THEN depth + 1 ELSE depth]
      answer(f) == IF f.thrown # "" THEN Raises(f.thrown)
                   ELSE Answers(f.ok /\ ~f.returned, f.errs, OnlyIf(g.fn[2], f.ev),
                                OnlyIf(g.code.list, f.notes \o UnknownNotes(g)))
  IN IF g.fn \notin DOMAIN g.code.functions THEN Raises("ReferenceError")
     ELSE IF IsBoolean(n)
     THEN Answers(Node[n].kind = "true",
                  OnlyIf(g.code.list /\ IsFalse(n), <<ErrorAt("", n, g.c, g.path, << >>)>>), << >>, << >>)
     ELSE IF calls /\ depth >= g.code.maxDepth THEN Raises("MaxDepth")
     ELSE answer(RunKeywords(LoweredKeywords(P, n), 1, own, Started))

RunKeywords(ks, i, g, f) ==
  IF i > Len(ks) \/ Stopped(f) THEN f
  ELSE RunKeywords(ks, i + 1, g,
         Exec(ks[i].code, 1, ks[i].k, g,
              [f EXCEPT !.kwOk = TRUE, !.tried = << >>, !.matched = << >>]))

Exec(code, i, k, g, f) ==
  IF i > Len(code) \/ Stopped(f) THEN f ELSE Exec(code, i + 1, k, g, ExecOne(code[i], k, g, f))
Iterate(keys, i, body, k, g, f) ==
  IF i > Len(keys) \/ Stopped(f) THEN f
  ELSE Iterate(keys, i + 1, body, k, g, Exec(body, 1, k, g, [f EXCEPT !.key = keys[i]]))

\* Then(f, rs) unless an answer threw.
Calling(calls, enough, g, f, Then(_)) ==
  LET with(rs) == IF rs # << >> /\ rs[Len(rs)].thrown # ""
                  THEN [f EXCEPT !.thrown = rs[Len(rs)].thrown] ELSE Then(rs)
  IN with(CallAll(calls, 1, enough, g))
Branched(apps, f) == [i \in DOMAIN apps |-> [app |-> apps[i], f |-> f]]

ExecIf(s, k, g, f) ==
  IF s.cond.test = "applies"
  THEN Calling(Branched(<<s.cond.app>>, f), FALSE, g, f, LAMBDA rs :
         Exec(IF rs[1].ok THEN s.then ELSE s.else, 1, k, g, Keeping(f, rs)))
  ELSE Exec(IF Holds(s.cond, k, g.c.val, f) THEN s.then ELSE s.else, 1, k, g, f)

\* An expanded unit runs in its caller's place, at its depth.
ExecMust(s, k, g, f) ==
  LET tried == Tried(f, s.app)
      to    == EdgeTarget(g.code.plan, g.unit, s.app)
      inner == [g EXCEPT !.unit = to, !.stack = @ \union {to},
                         !.c = CursorAt(@, s.app.cursor, f), !.path = @ \o s.app.segs]
  IN IF Inlines(g.code.plan, [app |-> s.app, must |-> TRUE], to, g.stack, g.expands)
     THEN [RunKeywords(LoweredKeywords(g.code.plan, to), 1, inner, tried) EXCEPT !.key = f.key]
     ELSE Calling(Branched(<<s.app>>, f), FALSE, g, tried, LAMBDA rs :
            LET told == Telling(Keeping(tried, rs), rs)
            IN IF rs[1].ok THEN told ELSE Rejects(told, g))

\* A negated schema that passes keeps what it evaluated; one that fails leaves
\* nothing, and neither does a run or a count that is satisfied leave errors.
ExecNegate(s, k, g, f) ==
  Calling(Branched(<<s.app>>, f), FALSE, g, f, LAMBDA rs :
    IF rs[1].ok THEN Failing(Telling(Keeping(f, rs), rs), k, g, << >>) ELSE f)
ExecAnyRun(s, k, g, f) ==
  Calling(Branched(s.apps, f), ~g.code.list /\ ~g.region, g, f, LAMBDA rs :
    IF Passing(Verdicts(rs)) # << >> THEN Keeping(f, rs)
    ELSE Failing(Telling(f, rs), k, g, << >>))
ExecOneRun(s, k, g, f) ==
  Calling(Branched(s.apps, f), FALSE, g, f, LAMBDA rs :
    IF Len(Passing(Verdicts(rs))) = 1 THEN Keeping(f, rs)
    ELSE Failing(Telling(Keeping(f, rs), rs), k, g, IxAll(Passing(Verdicts(rs)))))
ExecCount(s, k, g, f) ==
  LET keys == IndexKeys(g.c.val, 0)
      probes == [i \in DOMAIN keys |-> [app |-> s.app, f |-> [f EXCEPT !.key = keys[i]]]]
  IN Calling(probes, FALSE, g, f, LAMBDA rs :
       LET hits    == IxAll(Passing(Verdicts(rs)))
           counted == [Keeping(f, rs) EXCEPT !.matched = hits]
       IN IF Len(hits) < s.low \/ (s.high # << >> /\ Len(hits) > s.high[1])
          THEN Failing(Telling(counted, rs), k, g, hits) ELSE counted)

ExecScope(s, k, g, f) ==
  LET swept == Exec(s.body, 1, k, g, [f EXCEPT !.rejects = << >>])
  IN IF Stopped(swept) \/ swept.rejects = << >> THEN swept
     ELSE Failing(swept, k, g, swept.rejects)
ExecReject(s, g, f) ==
  IF g.code.list THEN [f EXCEPT !.rejects = Append(@, SegOf(s.seg, f))] ELSE Rejects(f, g)

\* In a list the push waits on the keyword's own verdict.
ExecProduce(s, k, g, f) ==
  IF g.region /\ IsCoverage(k.id) /\ (g.code.list => f.kwOk)
  THEN [f EXCEPT !.ev = @ \o Rendering(s.render, f, g.c.val)] ELSE f

ExecOne(s, k, g, f) ==
  CASE s.op = "if"        -> ExecIf(s, k, g, f)
    [] s.op = "must"      -> ExecMust(s, k, g, f)
    [] s.op = "negate"    -> ExecNegate(s, k, g, f)
    [] s.op = "anyRun"    -> ExecAnyRun(s, k, g, f)
    [] s.op = "oneRun"    -> ExecOneRun(s, k, g, f)
    [] s.op = "count"     -> ExecCount(s, k, g, f)
    [] s.op = "eachKey"   -> Iterate(g.c.val.keys, 1, s.body, k, g, f)
    [] s.op = "eachIndex" -> Iterate(IndexKeys(g.c.val, s.start), 1, s.body, k, g, f)
    [] s.op = "scope"     -> ExecScope(s, k, g, f)
    [] s.op = "reject"    -> ExecReject(s, g, f)
    [] s.op = "fail"      -> Failing(f, k, g, s.about)
    [] s.op = "describe"  -> Failing(f, k, g, About(k, g.c.val))
    [] s.op = "produce"   -> ExecProduce(s, k, g, f)
    [] s.op = "fold"      -> [f EXCEPT !.covered = Covered(f.ev, g.c.val)]
    [] s.op = "annotate"  -> [f EXCEPT !.notes = Append(@, NoteAt(k, g.c, g.path))]

\* The artifact's entry function.  An instance that is rejected has no annotations.
RunArtifact(code, v) ==
  LET root == code.plan.root
      g == [code |-> code, fn |-> <<root, FALSE>>, unit |-> root, stack |-> {}, region |-> FALSE,
            expands |-> FALSE, c |-> RootCursor(v), path |-> << >>, scope |-> << >>, depth |-> 0]
      r == IF IsStatic(code.plan, root) THEN CallUnit(g, 0)
           ELSE RunIsland(root, g.c, << >>, g, FALSE)
  IN [r EXCEPT !.notes = OnlyIf(r.ok, @)]
=============================================================================

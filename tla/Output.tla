-------------------------------- MODULE Output --------------------------------
(***************************************************************************)
(* What a caller of evaluate() is shown: the records an evaluation keeps   *)
(* and, when it is traced, those it dropped; the tree of its applications; *)
(* and the documents of six formats cut from the two.                      *)
(*                                                                         *)
(* A record is an error (ErrorAt) or an annotation (NoteAt), located at    *)
(* the application that made it: at is the place of that application in    *)
(* the tree, which is what the identity of its path node comes to.  A      *)
(* document is known by the records it shows and where; locations as text  *)
(* and the fields of one format or the other are wording.                  *)
(***************************************************************************)
EXTENDS Interpretation

(***************************************************************************)
(* Selecting annotations.  allow and deny are [keywords, vocabularies],    *)
(* allow at most one; "none" is to allow no keyword and no vocabulary.     *)
(***************************************************************************)
VocabularyOf(kw) ==
  IF \E i \in DOMAIN Annotating : Annotating[i].name = kw THEN "meta-data" ELSE "unknown"
Lists(list, kw) == kw \in list.keywords \/ VocabularyOf(kw) \in list.vocabularies
Selects(selection, kw) ==
  /\ \A i \in DOMAIN selection.allow : Lists(selection.allow[i], kw)
  /\ ~Lists(selection.deny, kw)

(***************************************************************************)
(* The evaluation: that of Interpretation with the engine's bookkeeping.   *)
(* A context x holds what is the run's (errors, dropped, made: every       *)
(* annotation), the open frame's (deps, notes) and the trace node's.  Only *)
(* a traced run keeps what is dropped.                                     *)
(***************************************************************************)
TraceNode(n, c, path, at) ==
  [on |-> n, loc |-> c.loc, path |-> path, at |-> at, ok |-> TRUE,
   keywords |-> << >>, children |-> << >>]
EmptyRun == [errors |-> << >>, dropped |-> << >>, made |-> << >>]
Context(run, node) == [run |-> run, deps |-> << >>, notes |-> << >>, node |-> node]
Located(record, x) == record @@ [at |-> x.node.at]
Unlocated(record) == [f \in DOMAIN record \ {"at"} |-> record[f]]

\* (mutant) What is dropped is lost.
DropForGood(run, mark, env) == [run EXCEPT !.errors = SubSeq(@, 1, mark)]
DropErrorsFrom(run, mark, env) ==
  [run EXCEPT !.errors  = SubSeq(@, 1, mark),
              !.dropped = IF env.tracing THEN @ \o SubSeq(run.errors, mark + 1, Len(run.errors))
                          ELSE @]

Annotate(x, k, c, path, env) ==
  LET note == Located(NoteAt(k, c, path), x)
  IN IF ~Annotates(k) \/ ~Selects(env.selection, k.kw) THEN x
     ELSE [x EXCEPT !.notes = Append(@, note),
                    !.run.made = IF env.tracing THEN Append(@, note) ELSE @]

\* Identifiers and reserved locations appear in no output.
IsStructural(k) ==
  k.id \in {"$id", "$anchor", "$dynamicAnchor", "$recursiveAnchor", "$defs", "definitions"}
TraceKeyword(x, k, ok) ==
  IF IsStructural(k) THEN x ELSE [x EXCEPT !.node.keywords = Append(@, [kw |-> k.kw, ok |-> ok])]

\* A keyword that has applied its steps, from x to y: what it annotates, produces and
\* reports; the errors dropped if it accepts; its verdict.
Conclude(x, y, k, c, path, env, r) ==
  LET told == Annotate([y EXCEPT
                !.run.errors = @ \o [j \in DOMAIN r.reports |->
                                 Located(ErrorAt(k.kw, k.on, c, path, r.reports[j]), y)],
                !.deps = @ \o [j \in DOMAIN r.data |-> RecordAt(k.id, c, path, r.data[j])]],
                k, c, path, env)
      decided == IF r.ok THEN [told EXCEPT !.run = DropErrorsFrom(@, Len(x.run.errors), env)]
                 ELSE told
  IN TraceKeyword([decided EXCEPT !.node.ok = @ /\ r.ok], k, r.ok)

\* The finally block: a schema that accepts hands its frame on.
Rejoin(x, made) ==
  [x EXCEPT !.run = made.run,
            !.deps = IF made.node.ok THEN @ \o made.deps ELSE @,
            !.notes = IF made.node.ok THEN @ \o made.notes ELSE @,
            !.node.children = Append(@, made.node)]

RECURSIVE TraceSchema(_, _, _, _, _, _), TraceSteps(_, _, _, _, _), TraceKeywords(_, _, _, _, _, _)

\* The steps of k, the first of them first; the answers are the verdicts of the
\* children they add.
TraceSteps(steps, k, path, env, x) ==
  LET made(step) == TraceSchema(Target(step, k, env.scope), step.at, path \o step.segs,
                                Append(x.node.at, Len(x.node.children) + 1), env, x.run)
  IN IF steps = << >> THEN x
     ELSE TraceSteps(Tail(steps), k, path, env, Rejoin(x, made(Head(steps))))

TraceKeywords(table, i, c, path, env, x) ==
  LET k         == table[i]
      seen      == Sees(k, c, path, x.deps)
      before    == Len(x.node.children)
      answers(y) == [j \in 1..(Len(y.node.children) - before) |-> y.node.children[before + j].ok]
      after(y)  == Conclude(x, y, k, c, path, env, Evaluate(k, c, seen, answers(y)))
  IN IF i > Len(table) THEN x
     ELSE TraceKeywords(table, i + 1, c, path, env,
            after(TraceSteps(Evaluate(k, c, seen, << >>).steps, k, path, env, x)))

\* Of an evaluation that does not throw.
TraceSchema(n, c, path, at, env, run) ==
  LET x == Context(run, TraceNode(n, c, path, at))
  IN CASE Node[n].kind = "true"  -> x
       [] Node[n].kind = "false" ->
            [x EXCEPT !.run.errors = Append(@, Located(ErrorAt("", n, c, path, << >>), x)),
                      !.node.ok = FALSE]
       [] OTHER -> TraceKeywords(NodeTable(n), 1, c, path, Enter(n, env), x)

RunEvaluation(n, c, env, selection, tracing) ==
  TraceSchema(n, c, << >>, << >>, env @@ [selection |-> selection, tracing |-> tracing], EmptyRun)
-----------------------------------------------------------------------------
(***************************************************************************)
(* The documents.  A renderer takes the flat surface and the tree:         *)
(* [errors, droppedErrors, annotations, droppedAnnotations, root].         *)
(***************************************************************************)
At(records, node) == SelectSeq(records, LAMBDA r : r.at = node.at)
Under(kw, records) == SelectSeq(records, LAMBDA r : r.kw = kw)
KeywordsIn(records) == {records[i].kw : i \in DOMAIN records}

\* A field for each keyword: the messages of errors are joined, of two
\* annotations by one keyword the last stays.
ErrorsByKeyword(errors) == [kw \in KeywordsIn(errors) |-> Under(kw, errors)]
AnnotationsByKeyword(annotations) ==
  [kw \in KeywordsIn(annotations) |->
     LET own == Under(kw, annotations) IN <<own[Len(own)]>>]

OutputUnit(input, mark, node, details) ==
  [ok |-> node.ok, path |-> node.path, loc |-> node.loc, details |-> details,
   errors |-> ErrorsByKeyword(At(input.errors, node)),
   annotations |-> AnnotationsByKeyword(At(input.annotations, node)),
   droppedErrors |-> ErrorsByKeyword(IF mark THEN At(input.droppedErrors, node) ELSE << >>),
   droppedAnnotations |->
     AnnotationsByKeyword(IF mark THEN At(input.droppedAnnotations, node) ELSE << >>)]
SaysSomething(unit) == DOMAIN unit.errors # {} \/ DOMAIN unit.annotations # {}

\* Without marks a unit that shows nothing is left out.
RECURSIVE Units(_, _, _)
Units(input, mark, node) ==
  LET below == FlattenSeq([i \in DOMAIN node.children |-> Units(input, mark, node.children[i])])
      unit  == OutputUnit(input, mark, node, below)
  IN IF mark \/ SaysSomething(unit) \/ below # << >> THEN <<unit>> ELSE << >>
RenderHierarchical(input, mark) ==
  LET units == Units(input, mark, input.root)
  IN IF units = << >> THEN OutputUnit(input, mark, input.root, << >>) ELSE units[1]

RECURSIVE Collect(_, _)
Collect(unit, mark) ==
  OnlyIf(mark \/ SaysSomething(unit), <<[unit EXCEPT !.details = << >>]>>)
  \o FlattenSeq([i \in DOMAIN unit.details |-> Collect(unit.details[i], mark)])
RenderList(input, mark) ==
  [ok |-> input.root.ok, details |-> Collect(RenderHierarchical(input, mark), mark)]

\* The tree of draft-03: a node for an application, under it one for each keyword,
\* under that the applications the keyword made.
DetailedUnit(ok, path, node, errors, annotations, nested) ==
  [ok |-> ok, path |-> path, loc |-> node.loc, errors |-> errors,
   annotation |-> OnlyIf(annotations # << >>, <<annotations[1]>>), nested |-> nested]
Applying(child, node) == child.path[Len(node.path) + 1]

RECURSIVE BuildTree(_, _, _)
BuildTree(input, verbose, node) ==
  LET errors      == At(input.errors, node)
                     \o (IF verbose THEN At(input.droppedErrors, node) ELSE << >>)
      annotations == At(input.annotations, node)
                     \o (IF verbose THEN At(input.droppedAnnotations, node) ELSE << >>)
      built(children) == [i \in DOMAIN children |-> BuildTree(input, verbose, children[i])]
      ofKeyword(m) ==
        DetailedUnit(m.ok, Append(node.path, m.kw), node, Under(m.kw, errors),
                     Under(m.kw, annotations),
                     built(SelectSeq(node.children, LAMBDA ch : Applying(ch, node) = m.kw)))
      stray(child) == \A i \in DOMAIN node.keywords : node.keywords[i].kw # Applying(child, node)
  IN DetailedUnit(node.ok, node.path, node, Under("", errors), << >>,
                  [i \in DOMAIN node.keywords |-> ofKeyword(node.keywords[i])]
                  \o built(SelectSeq(node.children, stray)))

\* A node with nothing of its own is removed, or replaced by its only child.
RECURSIVE Condense(_, _)
Condense(unit, isRoot) ==
  LET nested == FlattenSeq([i \in DOMAIN unit.nested |-> Condense(unit.nested[i], FALSE)])
      own    == unit.errors # << >> \/ unit.annotation # << >>
  IN IF ~own /\ ~isRoot /\ Len(nested) <= 1 THEN nested
     ELSE <<[unit EXCEPT !.nested = nested]>>
RenderDetailed(input) == Condense(BuildTree(input, FALSE, input.root), TRUE)[1]
RenderVerbose(input)  == BuildTree(input, TRUE, input.root)

\* The public trace: errors by their index on the result.
RECURSIVE RenderTrace(_, _)
RenderTrace(input, node) ==
  [ok |-> node.ok, loc |-> node.loc,
   errorIndexes |-> SelectIndexes(input.errors, LAMBDA e : e.at = node.at),
   children |-> [i \in DOMAIN node.children |-> RenderTrace(input, node.children[i])]]

RenderBasic(input) ==
  [ok |-> input.root.ok,
   records |-> IF input.root.ok THEN input.annotations ELSE input.errors]
-----------------------------------------------------------------------------
(***************************************************************************)
(* evaluate(): options are [output, verbose, trace, selection], verbose    *)
(* "unset", "on" or "off".                                                 *)
(***************************************************************************)
SelectsNothing(selection) ==
  selection.allow # << >> /\ selection.allow[1] = [keywords |-> {}, vocabularies |-> {}]

IsRefused(options) ==
  \/ /\ options.output = "flag"
     /\ options.verbose = "on" \/ options.trace \/ ~SelectsNothing(options.selection)
  \/ options.output \in {"basic", "detailed"} /\ options.verbose = "on"
  \/ options.output = "verbose" /\ options.verbose = "off"
IsVerbose(options) == options.output = "verbose" \/ options.verbose = "on"
IsTraced(options) == options.output # "flag" /\ (options.output # "basic" \/ options.trace)

\* The flat surface: what the root frame kept, if the run accepts; what is not in
\* it was dropped.
RenderInput(options, x) ==
  LET selected(notes) == SelectSeq(notes, LAMBDA a : Selects(options.selection, a.kw))
      relevant == IF x.node.ok THEN x.notes ELSE << >>
      others   == SelectSeq(x.run.made, LAMBDA a : a \notin ToSet(relevant))
  IN [errors |-> x.run.errors, annotations |-> selected(relevant), root |-> x.node,
      droppedErrors |-> IF IsVerbose(options) THEN x.run.dropped ELSE << >>,
      droppedAnnotations |-> IF IsVerbose(options) THEN selected(others) ELSE << >>]

Document(options, input) ==
  CASE options.output = "basic"        -> RenderBasic(input)
    [] options.output = "list"         -> RenderList(input, IsVerbose(options))
    [] options.output = "hierarchical" -> RenderHierarchical(input, IsVerbose(options))
    [] options.output = "detailed"     -> RenderDetailed(input)
    [] options.output = "verbose"      -> RenderVerbose(input)
-----------------------------------------------------------------------------
(***************************************************************************)
(* Reading a document: the records it shows, and those it marks as         *)
(* irrelevant.                                                             *)
(***************************************************************************)
InFields(fields) == UNION {ToSet(fields[kw]) : kw \in DOMAIN fields}
UnitShows(unit) == InFields(unit.errors) \union InFields(unit.annotations)
UnitMarks(unit) == InFields(unit.droppedErrors) \union InFields(unit.droppedAnnotations)

RECURSIVE AllUnits(_)
\* The unit and those under its details.
AllUnits(unit) ==
  {unit} \union UNION {AllUnits(unit.details[i]) : i \in DOMAIN unit.details}

RECURSIVE InTree(_)
InTree(unit) ==
  ToSet(unit.errors) \union ToSet(unit.annotation)
  \union UNION {InTree(unit.nested[i]) : i \in DOMAIN unit.nested}

RECURSIVE Sharing(_, _)
\* The records every node on whose path has verdict b.
Sharing(unit, b) ==
  IF unit.ok # b THEN {}
  ELSE ToSet(unit.errors) \union ToSet(unit.annotation)
       \union UNION {Sharing(unit.nested[i], b) : i \in DOMAIN unit.nested}

RECURSIVE InTrace(_)
InTrace(unit) ==
  ToSet(unit.errorIndexes) \union UNION {InTrace(unit.children[i]) : i \in DOMAIN unit.children}

\* A document under options: [shows, marks].
Showing(options, doc) ==
  LET units == IF options.output = "list" THEN ToSet(doc.details) ELSE AllUnits(doc)
      only(shows) == [shows |-> shows, marks |-> {}]
  IN CASE options.output = "basic" -> only(ToSet(doc.records))
       [] options.output \in {"detailed", "verbose"} -> only(InTree(doc))
       [] OTHER -> [shows |-> UNION {UnitShows(u) : u \in units},
                    marks |-> UNION {UnitMarks(u) : u \in units}]

\* Every rejecting node is explained by an error of its own or below it.
RECURSIVE Explained(_)
Explained(unit) ==
  /\ unit.ok \/ unit.errors # << >> \/ \E i \in DOMAIN unit.nested : ~unit.nested[i].ok
  /\ \A i \in DOMAIN unit.nested : Explained(unit.nested[i])

\* The formats of one evaluation agree.  The verbose tree of draft-03, which shows
\* all there is, explains every rejection, and the records relevant in it, those
\* every node on whose path shares the root's verdict (buildDraft03Tree's
\* comment), are exactly what every other document shows; the marks of the
\* verbose list and hierarchical documents are exactly the rest; and the trace
\* indexes every relevant error.
FormatsAgree(traced, untraced, formats, selection) ==
  LET with(o) == [o EXCEPT !.selection = selection]
      of(o)   == RenderInput(with(o), IF IsTraced(o) THEN traced ELSE untraced)
      verbose == CHOOSE o \in formats : o.output = "verbose"
      tree    == RenderVerbose(of(verbose))
      all     == InTree(tree)
      relevant == Sharing(tree, tree.ok)
      agrees(o, input, shown) ==
        /\ o.output # "verbose" => shown.shows = relevant
        /\ o.output \in {"list", "hierarchical"} =>
             shown.marks = IF IsVerbose(o) THEN all \ relevant ELSE {}
        /\ o.trace => InTrace(RenderTrace(input, input.root)) = DOMAIN input.errors
        /\ ToSet(input.errors) \union ToSet(input.annotations) \subseteq all
  IN /\ Explained(tree)
     /\ \A o \in formats : IsRefused(with(o)) \/ agrees(o, of(o), Showing(o, Document(o, of(o))))
=============================================================================

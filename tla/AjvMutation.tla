------------------------------ MODULE AjvMutation ------------------------------
(***************************************************************************)
(* The mutation fixpoint of a validate call: evaluate the instance, let    *)
(* defaults, generated defaults, transforms, removals and coercions        *)
(* rewrite it, and again, until a pass changes nothing or MaxPasses are    *)
(* spent.  Each rewriting is an action; it works through what the          *)
(* evaluation reported while its own writes change the instance under it.  *)
(***************************************************************************)
EXTENDS Interpretation

CONSTANTS
  Schemas, Inputs, InputOf(_),
  OptionsOffered,   \* what the validator is compiled with: coerce ("off", "on" or "array"),
                    \* defaults ("off", "on", "empty"), remove ("off", "on", "all",
                    \* "failing"), and whether transform and dynamicDefaults are active
  Filed,            \* the resources that are in the ledger under their URI
  LastSegment(_),   \* the last segment of a position's canonical location
  Transformed,      \* Transformed[op][s]: what a transform makes of a string
  NumberOf,         \* the numbers that strings stand for, in halves
  MaxPasses

VARIABLES
  schema, options,  \* what the validator was compiled with
  instance,         \* the value the holder has
  report,           \* what the evaluation at the start of the pass reported
  stage,            \* the rewriting that is next, or "done", "threw"
  passes, changed,
  sequence,         \* the counter of the seq generator
  past, cameBack    \* history: the instances so far, and whether one recurred
vars == <<schema, options, instance, report, stage, passes, changed, sequence, past, cameBack>>

(***************************************************************************)
(* Reading and writing by location.                                        *)
(***************************************************************************)
Undefined == Plain("undefined")
Boolean(b) == [Plain("boolean") EXCEPT !.n = IF b THEN 1 ELSE 0]

IndexAt(v, seg) == SelectInSeq([i \in DOMAIN v.kids |-> i], LAMBDA i : Ix(i - 1) = seg)
PlaceOf(v, seg) ==
  CASE IsObject(v) -> SelectInSeq(v.keys, LAMBDA x : x = seg)
    [] IsArray(v)  -> IndexAt(v, seg)
    [] OTHER       -> 0
MemberAt(v, seg) == IF PlaceOf(v, seg) = 0 THEN Undefined ELSE v.kids[PlaceOf(v, seg)]

With(v, seg, x) ==
  IF PlaceOf(v, seg) # 0 THEN [v EXCEPT !.kids[PlaceOf(v, seg)] = x]
  ELSE Obj(Append(v.keys, seg), Append(v.kids, x))
Without(v, keys) ==
  LET kept == SelectIndexes(v.keys, LAMBDA x : x \notin keys)
  IN Obj([i \in DOMAIN kept |-> v.keys[kept[i]]], [i \in DOMAIN kept |-> v.kids[kept[i]]])

RECURSIVE GetAt(_, _), SetAt(_, _, _)
GetAt(v, loc) == IF loc = << >> THEN v ELSE GetAt(MemberAt(v, Head(loc)), Tail(loc))
SetAt(v, loc, x) ==
  IF loc = << >> THEN x
  ELSE With(v, Head(loc), SetAt(MemberAt(v, Head(loc)), Tail(loc), x))

(***************************************************************************)
(* The verbose hierarchical document: one unit for every application, and  *)
(* whether it lies in a branch of anyOf or oneOf, or under a failing one   *)
(* beside a branch that passed.                                            *)
(***************************************************************************)
Unit(n, c, path, ok, branch, muted) ==
  [on |-> n, loc |-> c.loc, path |-> path, ok |-> ok, inCombiner |-> branch, muted |-> muted]
IsCombiner(k) == k.id \in {"anyOf", "oneOf"}

RECURSIVE UnitsOf(_, _, _, _, _, _)
UnitsOf(n, c, path, env, branch, muted) ==
  LET inside == [Enter(n, env) EXCEPT !.open = @ \union {<<n, c.loc>>}]
      accepts(step) == ApplySchema(step.to, step.at, path \o step.segs, inside).ok
      under(combines, steps, oks) ==
        FlattenSeq([j \in DOMAIN steps |->
          UnitsOf(steps[j].to, steps[j].at, path \o steps[j].segs, inside, branch \/ combines,
                  muted \/ (combines /\ ~oks[j] /\ TRUE \in ToSet(oks)))])
      applied(k, steps) == [j \in DOMAIN steps |->
                             [steps[j] EXCEPT !.to = Target(steps[j], k, inside.scope)]]
      judged(k, steps) == under(IsCombiner(k), steps, [j \in DOMAIN steps |-> accepts(steps[j])])
      below(k, deps) == judged(k, applied(k, Evaluate(k, c, Sees(k, c, path, deps), << >>).steps))
      before(table, i) == ApplyKeywords(SubSeq(table, 1, i - 1), 1, c, path, inside,
                                        Finds(TRUE, << >>, << >>, << >>)).deps
      each(table) == FlattenSeq([i \in DOMAIN table |-> below(table[i], before(table, i))])
  IN <<Unit(n, c, path, ApplySchema(n, c, path, env).ok, branch, muted)>>
     \o (IF Node[n].kind # "object" THEN << >> ELSE each(NodeTable(n)))

Evaluated(v) == ApplySchema(schema, RootCursor(v), << >>, Fragment(<< >>, 0, 100))
Units(v) == UnitsOf(schema, RootCursor(v), << >>, Fragment(<< >>, 0, 100), FALSE, FALSE)
NonCombiner(units) == SelectSeq(units, LAMBDA u : ~u.inCombiner)
Unmuted(units) == SelectSeq(units, LAMBDA u : ~u.muted)

\* resolveSchema finds the compiled document and what the ledger files under
\* the base URI; only schema objects are of interest.
ResolvedNode(n) == Node[n].kind = "object" /\ (Base(n) = Base(schema) \/ Base(n) \in Filed)

\* A rewriting goes through its units in order, each seeing the last's writes,
\* and says whether it wrote, be it what was there already.
Through(seq, Rewrite(_, _), s) == FoldLeft(Rewrite, s, seq)
Start(v) == [v |-> v, changed |-> FALSE, next |-> sequence, done |-> {}]
Write(s, v) == [s EXCEPT !.v = v, !.changed = TRUE]
WriteIf(p, s, v) == IF p THEN Write(s, v) ELSE s

(***************************************************************************)
(* Defaults.                                                               *)
(***************************************************************************)
IsBlank(v) == v = Null \/ v = Str("")
Fillable(v) == v = Undefined \/ (options.defaults = "empty" /\ IsBlank(v))
HasDefault(n) == Node[n].kind = "object" /\ Has(n, "default")
DefaultOf(n) == Sibling(n, "default").values[1]

FillProperties(s, k) ==
  Through([i \in DOMAIN k.keys |-> i],
          LAMBDA w, i : WriteIf(HasDefault(k.subs[i]) /\ Fillable(MemberAt(w.v, k.keys[i])),
                                w, With(w.v, k.keys[i], DefaultOf(k.subs[i]))), s)

\* Tuple defaults extend the array in position order; a gap stops the fill.
FillTuple(s, subs) ==
  LET given == Len(s.v.kids)
      fills(v, i) == IF i <= given THEN options.defaults = "empty" /\ IsBlank(v.kids[i])
                     ELSE i = Len(v.kids) + 1
      filled(v, i) == Arr([j \in 1..(IF i <= given THEN Len(v.kids) ELSE i) |->
                            IF j = i THEN DefaultOf(subs[i]) ELSE v.kids[j]])
  IN Through([i \in DOMAIN subs |-> i],
             LAMBDA w, i : WriteIf(HasDefault(subs[i]) /\ fills(w.v, i), w, filled(w.v, i)), s)

TupleSubs(n) ==
  IF IsTuple(n, "items") THEN Sibling(n, "items").subs
  ELSE IF Has(n, "prefixItems") THEN Sibling(n, "prefixItems").subs ELSE << >>

FillAt(s, u) ==
  LET at == GetAt(s.v, u.loc)
      filled == CASE IsObject(at) /\ Has(u.on, "properties") ->
                       FillProperties(Start(at), Sibling(u.on, "properties"))
                  [] IsArray(at) -> FillTuple(Start(at), TupleSubs(u.on))
                  [] OTHER -> Start(at)
  IN IF ResolvedNode(u.on) THEN WriteIf(filled.changed, s, SetAt(s.v, u.loc, filled.v)) ELSE s

DefaultsIn(v, units) == Through(NonCombiner(units), FillAt, Start(v))

\* Generated ones fill what the plain ones left; the generator (seq; compilation
\* refuses names it does not know) runs once for each.
GenerateAt(s, u) ==
  LET at == GetAt(s.v, u.loc)
      names == SelectSeq(Sibling(u.on, "dynamicDefaults").keys,
                         LAMBDA name : Fillable(MemberAt(at, name)))
  IN IF ~ResolvedNode(u.on) \/ ~Has(u.on, "dynamicDefaults") \/ ~IsObject(at) \/ names = << >>
     THEN s
     ELSE [Write(s, SetAt(s.v, u.loc, Through([i \in DOMAIN names |-> i],
                      LAMBDA w, i : With(w, names[i], Num(2 * (s.next + i - 1))), at)))
             EXCEPT !.next = @ + Len(names)]

GeneratedIn(v, units) == Through(NonCombiner(units), GenerateAt, Start(v))

(***************************************************************************)
(* Transforms: never at the root, and never in a combiner's branch.        *)
(***************************************************************************)
ToEnumCase(s, n) ==
  LET fold(x) == Transformed["toLowerCase"][x]
      members == IF Has(n, "enum") THEN Sibling(n, "enum").values ELSE << >>
      i == SelectInSeq(members, LAMBDA m : m.t = "string" /\ fold(m.s) = fold(s))
  IN IF i = 0 THEN s ELSE members[i].s
Operated(n, string) ==
  Through(Sibling(n, "transform").keys,
          LAMBDA s, op : IF op = "toEnumCase" THEN ToEnumCase(s, n) ELSE Transformed[op][s], string)

\* Faulty: a transform counts as a change whether or not it made one.
TransformAlways(s, u) ==
  LET at == GetAt(s.v, u.loc)
  IN IF u.loc # << >> /\ ResolvedNode(u.on) /\ Has(u.on, "transform") /\ at.t = "string"
     THEN Write(s, SetAt(s.v, u.loc, Str(Operated(u.on, at.s)))) ELSE s

TransformAt(s, u) ==
  LET at == GetAt(s.v, u.loc)
      applies == /\ u.loc # << >>
                 /\ ResolvedNode(u.on) /\ Has(u.on, "transform")
                 /\ at.t = "string"
      next == Str(Operated(u.on, at.s))
  IN IF applies THEN WriteIf(next # at, s, SetAt(s.v, u.loc, next)) ELSE s

TransformsIn(v, units) == Through(NonCombiner(units), TransformAt, Start(v))

(***************************************************************************)
(* Removals.                                                               *)
(***************************************************************************)
HasPropertyKeywords(n) ==
  Has(n, "properties") \/ Has(n, "patternProperties") \/ Has(n, "additionalProperties")
KeepDeclared(s, u) ==
  LET at == GetAt(s.v, u.loc)
      extras == Keys(at) \ NamedBeside(u.on)
  IN IF IsObject(at) THEN WriteIf(extras # {}, s, SetAt(s.v, u.loc, Without(at, extras))) ELSE s

KeepSet(s, u) ==
  IF ResolvedNode(u.on) /\ HasPropertyKeywords(u.on) THEN KeepDeclared(s, u) ELSE s

\* An application of an additionalProperties subschema is known by the last
\* segment of its location; only an object's member can be deleted.
IsAdditional(u) == LastSegment(u.on) = "additionalProperties"
Deleted(v, loc) ==
  LET parent == SubSeq(loc, 1, Len(loc) - 1)
  IN IF loc = << >> \/ ~IsObject(GetAt(v, parent)) THEN v
     ELSE SetAt(v, parent, Without(GetAt(v, parent), {loc[Len(loc)]}))

\* The errors of additionalProperties that the verdict rests on.
Summarized(u, errors) ==
  \E i \in DOMAIN errors : /\ errors[i].kw = "additionalProperties"
                           /\ errors[i].path = u.path /\ errors[i].loc = u.loc
Forbids(n) == Has(n, "additionalProperties") /\ IsFalse(Sibling(n, "additionalProperties").subs[1])

RemoveFailing(s, u, errors) ==
  CASE u.ok -> s
    [] ~u.ok /\ IsAdditional(u) ->
         WriteIf(options.remove = "failing" /\ GetAt(s.v, u.loc) # Undefined,
                 s, Deleted(s.v, u.loc))
    [] OTHER -> IF Summarized(u, errors) /\ ResolvedNode(u.on) /\ Forbids(u.on)
                THEN KeepDeclared(s, u) ELSE s

RemovalsIn(v, units, errors) ==
  Through(Unmuted(units),
          LAMBDA s, u : IF options.remove = "all" THEN KeepSet(s, u) ELSE RemoveFailing(s, u, errors),
          Start(v))

(***************************************************************************)
(* Coercions, from the type errors of an evaluation of their own.          *)
(***************************************************************************)
Just(v) == <<v>>
CoerceTo(t, v) ==
  CASE t \in {"number", "integer"} ->
         LET n == CASE v.t = "string" /\ v.s \in DOMAIN NumberOf -> <<NumberOf[v.s]>>
                    [] v.t = "boolean" -> <<2 * v.n>>
                    [] v.t = "null"    -> <<0>>
                    [] OTHER           -> << >>
         IN IF n = << >> \/ (t = "integer" /\ n[1] % 2 # 0) THEN << >> ELSE Just(Num(n[1]))
    [] t = "string" ->
         CASE v.t = "number"  -> Just(Str(CHOOSE s \in DOMAIN NumberOf : NumberOf[s] = v.n))
           [] v.t = "boolean" -> Just(Str(IF v.n = 1 THEN "true" ELSE "false"))
           [] v.t = "null"    -> Just(Str(""))
           [] OTHER           -> << >>
    [] t = "boolean" ->
         CASE v = Str("true") \/ v = Num(2)  -> Just(Boolean(TRUE))
           [] v = Str("false") \/ v = Num(0) -> Just(Boolean(FALSE))
           [] OTHER                          -> << >>
    [] t = "null" -> IF v \in {Str(""), Num(0), Boolean(FALSE)} THEN Just(Null) ELSE << >>
    [] t = "array" -> IF options.coerce # "array" \/ IsArray(v) THEN << >> ELSE Just(Arr(<<v>>))
    [] OTHER -> << >>

\* The first type that takes the value; an array of one element counts as the
\* element, which need not change.
First(types, Attempt(_)) ==
  LET hits == SelectSeq(types, LAMBDA t : Attempt(t) # << >>)
  IN IF hits = << >> THEN << >> ELSE Attempt(hits[1])
Coerced(types, v) ==
  IF options.coerce = "array" /\ IsArray(v) /\ Len(v.kids) = 1 /\ "array" \notin ToSet(types)
  THEN First(types, LAMBDA t : IF TypeIs(v.kids[1], t) THEN Just(v.kids[1])
                               ELSE CoerceTo(t, v.kids[1]))
  ELSE First(types, LAMBDA t : CoerceTo(t, v))

\* One coercion for a location; each reads what the ones before it left.
CoerceAt(s, e) ==
  LET at == GetAt(s.v, e.loc)
      x  == IF e.loc \in s.done \/ at = Undefined THEN << >>
            ELSE Coerced(Sibling(e.on, "type").keys, at)
  IN IF x = << >> THEN s
     ELSE [Write(s, SetAt(s.v, e.loc, x[1])) EXCEPT !.done = @ \union {e.loc}]
CoercionsIn(v, errors) ==
  Through(SelectSeq(errors, LAMBDA e : e.kw = "type"), CoerceAt, Start(v))

(***************************************************************************)
(* The passes.  Every rewriting of a pass but the coercions works through  *)
(* what the evaluation at its start reported; changed says whether one of  *)
(* them wrote.                                                             *)
(***************************************************************************)
NoReport == [units |-> << >>, errors |-> << >>]
Init ==
  /\ schema \in Schemas
  /\ options \in OptionsOffered
  /\ \E i \in Inputs : instance = InputOf(i)
  /\ report = NoReport /\ stage = "evaluate" /\ passes = 0 /\ changed = FALSE
  /\ sequence = 0 /\ past = {} /\ cameBack = FALSE

Reads == options.defaults # "off" \/ options.remove # "off" \/ options.transform
Generates == options.dynamicDefaults /\ options.defaults # "off"
Coerces == options.coerce # "off"

Report ==
  /\ stage = "evaluate"
  /\ Reads => Evaluated(instance).thrown = ""
  /\ report' = IF Reads THEN [units |-> Units(instance), errors |-> Evaluated(instance).errors]
               ELSE NoReport
  /\ stage' = "defaults"
  /\ UNCHANGED <<schema, options, instance, passes, changed, sequence, past, cameBack>>

\* Faulty: a rewriting forgets that the one before it wrote.
RewritesAlone(result, next) ==
  /\ instance' = result.v
  /\ changed' = result.changed
  /\ past' = past \union {instance}
  /\ cameBack' = (cameBack \/ (result.v # instance /\ result.v \in past))
  /\ stage' = next
  /\ sequence' = result.next
  /\ UNCHANGED <<schema, options, report, passes>>

\* A rewriting leaves its result and hands over to the next.
Rewrites(result, next) ==
  /\ instance' = result.v
  /\ changed' = (changed \/ result.changed)
  /\ past' = past \union {instance}
  /\ cameBack' = (cameBack \/ (result.v # instance /\ result.v \in past))
  /\ stage' = next
  /\ sequence' = result.next
  /\ UNCHANGED <<schema, options, report, passes>>
Asked(asked, result) == IF asked THEN result ELSE Start(instance)

ApplyDefaults ==
  /\ stage = "defaults"
  /\ Rewrites(Asked(options.defaults # "off", DefaultsIn(instance, report.units)), "dynamicDefaults")

ApplyDynamicDefaults ==
  /\ stage = "dynamicDefaults"
  /\ Rewrites(Asked(Generates, GeneratedIn(instance, report.units)), "transform")

ApplyTransform ==
  /\ stage = "transform"
  /\ Rewrites(Asked(options.transform, TransformsIn(instance, report.units)), "remove")

ApplyRemoval ==
  /\ stage = "remove"
  /\ Rewrites(Asked(options.remove # "off", RemovalsIn(instance, report.units, report.errors)),
              "coerce")

\* The coercions go by the type errors the rewritten instance has.
ApplyCoercions ==
  /\ stage = "coerce"
  /\ Coerces => Evaluated(instance).thrown = ""
  /\ Rewrites(Asked(Coerces, CoercionsIn(instance, Evaluated(instance).errors)), "end")

EvaluationThrows ==
  /\ \/ stage = "evaluate" /\ Reads
     \/ stage = "coerce" /\ Coerces
  /\ Evaluated(instance).thrown # ""
  /\ stage' = "failed"
  /\ UNCHANGED <<schema, options, instance, report, passes, changed, sequence, past, cameBack>>

EndPass ==
  /\ stage = "end"
  /\ passes' = passes + 1
  /\ stage' = IF ~changed THEN "done" ELSE IF passes' = MaxPasses THEN "threw" ELSE "evaluate"
  /\ report' = NoReport
  /\ changed' = FALSE
  /\ UNCHANGED <<schema, options, instance, sequence, past, cameBack>>

Next ==
  \/ Report
  \/ ApplyDefaults
  \/ ApplyDynamicDefaults
  \/ ApplyTransform
  \/ ApplyRemoval
  \/ ApplyCoercions
  \/ EvaluationThrows
  \/ EndPass

Spec == Init /\ [][Next]_vars
=============================================================================

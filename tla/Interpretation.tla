---------------------------- MODULE Interpretation ----------------------------
(***************************************************************************)
(* What an evaluation comes to, as a function of the schema, the instance  *)
(* and the path that led there: the reference the evaluator's machine      *)
(* (Evaluation) and the compiled code (CompiledCode) are compared with.    *)
(* The rules of the channel are stated here without marks or truncation:   *)
(* a keyword that accepts leaves no error, and a schema that rejects       *)
(* leaves no record.                                                       *)
(*                                                                         *)
(* env is the path: the resources entered (scope), the applications still  *)
(* open (open) and their number above the fragment's own (depth), with the *)
(* limit on it (max).                                                      *)
(***************************************************************************)
EXTENDS Assertions

Finds(ok, errors, deps, notes) ==
  [thrown |-> "", ok |-> ok, errors |-> errors, deps |-> deps, notes |-> notes]
Throws(name) == [Finds(FALSE, << >>, << >>, << >>) EXCEPT !.thrown = name]

ErrorAt(kw, n, c, path, about) ==
  [kw |-> kw, on |-> n, loc |-> c.loc, path |-> path, about |-> about]
RecordAt(id, c, path, data) == [id |-> id, loc |-> c.loc, path |-> path, data |-> data]
NoteAt(k, c, path) == [kw |-> k.kw, on |-> k.on, loc |-> c.loc, path |-> path]

\* The records a keyword sees: those of its own cursor by the behaviors it
\* reads, and of its own application only when it asks for adjacent ones.
Sees(k, c, path, deps) ==
  SelectSeq(deps, LAMBDA d : /\ d.loc = c.loc
                             /\ d.id \in k.reads
                             /\ k.adjacent => d.path = path)

OnlyFrom(results, field(_)) ==
  FlattenSeq([i \in DOMAIN results |-> field(results[i])])

Enter(n, env) ==
  [env EXCEPT !.depth = @ + 1,
              !.scope = IF @ # << >> /\ @[Len(@)] = Base(n) THEN @ ELSE Append(@, Base(n))]

Target(step, k, scope) == IF step.how = "refer" THEN Resolve(k, scope) ELSE step.to

RECURSIVE ApplySchema(_, _, _, _), ApplySteps(_, _, _, _, _), ApplyKeywords(_, _, _, _, _, _)

\* The verdicts and findings of the steps, up to the first that throws.
ApplySteps(steps, i, k, path, env) ==
  LET upTo(r) == IF r.thrown # "" THEN <<r>> ELSE <<r>> \o ApplySteps(steps, i + 1, k, path, env)
  IN IF i > Len(steps) THEN << >>
     ELSE upTo(ApplySchema(Target(steps[i], k, env.scope), steps[i].at,
                           path \o steps[i].segs, env))

\* sofar and what keyword k makes, with outcome r, of the results of its steps.
Joining(sofar, k, c, path, results, r) ==
  LET errors == OnlyFrom(results, LAMBDA x : x.errors)
                \o [j \in DOMAIN r.reports |-> ErrorAt(k.kw, k.on, c, path, r.reports[j])]
      deps   == OnlyFrom(results, LAMBDA x : x.deps)
                \o [j \in DOMAIN r.data |-> RecordAt(k.id, c, path, r.data[j])]
      notes  == OnlyFrom(results, LAMBDA x : x.notes)
                \o OnlyIf(Annotates(k), <<NoteAt(k, c, path)>>)
  IN Finds(sofar.ok /\ r.ok, sofar.errors \o OnlyIf(~r.ok, errors),
           sofar.deps \o deps, sofar.notes \o notes)

ApplyKeywords(table, i, c, path, env, sofar) ==
  LET k    == table[i]
      seen == Sees(k, c, path, sofar.deps)
      after(results) ==
        IF results # << >> /\ results[Len(results)].thrown # ""
        THEN Throws(results[Len(results)].thrown)
        ELSE ApplyKeywords(table, i + 1, c, path, env,
               Joining(sofar, k, c, path, results,
                       Evaluate(k, c, seen, [j \in DOMAIN results |-> results[j].ok])))
  IN IF i > Len(table) THEN sofar
     ELSE IF k.id = "unknown" /\ ~AllowsUnknown(DialectOf(k.on)) THEN Throws("UnknownKeyword")
     ELSE after(ApplySteps(Evaluate(k, c, seen, << >>).steps, 1, k, path, env))

ApplySchema(n, c, path, env) ==
  LET kept(r) == IF r.ok THEN r ELSE [r EXCEPT !.deps = << >>, !.notes = << >>]
  IN IF Node[n].kind = "missing" THEN Throws("Unresolvable")
     ELSE IF env.depth >= env.max THEN Throws("MaxDepth")
     ELSE IF Node[n].kind = "true" THEN Finds(TRUE, << >>, << >>, << >>)
     ELSE IF IsFalse(n) THEN Finds(FALSE, <<ErrorAt("", n, c, path, << >>)>>, << >>, << >>)
     ELSE IF Node[n].kind = "junk" THEN Throws("InvalidSchema")
     ELSE IF <<n, c.loc>> \in env.open THEN Throws("InfiniteLoop")
     ELSE kept(ApplyKeywords(NodeTable(n), 1, c, path,
                             [Enter(n, env) EXCEPT !.open = @ \union {<<n, c.loc>>}],
                             Finds(TRUE, << >>, << >>, << >>)))

Fragment(scope, depth, max) == [scope |-> scope, open |-> {}, depth |-> depth, max |-> max]
Interpret(n, v, max) == ApplySchema(n, RootCursor(v), << >>, Fragment(<< >>, 0, max))
=============================================================================

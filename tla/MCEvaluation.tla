----------------------------- MODULE MCEvaluation -----------------------------
(***************************************************************************)
(* The evaluator over the keywords of Keywords and Assertions, and over    *)
(* those of a host: two that call the runner again while they evaluate,    *)
(* one that accepts what it reported, one that reads and one that produces *)
(* what no schema declares, one that applies to the parent location and    *)
(* one that descends for ever.                                             *)
(***************************************************************************)
EXTENDS Evaluation, MCDocuments, Output

HostEntries ==
  <<Entry("x-call", "x-call"), Entry("x-call-loop", "x-call-loop"), Entry("x-lies", "x-lies"),
    Entry("x-mute", "x-mute"), [Entry("x-reads", "x-reads") EXCEPT !.reads = {"nobody"}],
    Entry("x-up", "x-up"), Entry("x-down", "x-down")>>
HostPool ==
  <<On("x-call"), On("x-call-loop"), On("x-lies"), On("x-mute"), On("x-reads"),
    On("x-down"), Map("properties", <<"a">>, <<"h:up">>),
    Sub("anyOf", <<"h:f", "h:again">>), Sub("unevaluatedProperties", <<"h:f">>), Ref("pa")>>

\* TLC computes Positions and Resources once, and would compute a definition it
\* is given for a constant at every use of the constant.
Positions ==
  InFamilies({<<"r", "">>, <<"s", "9:">>, <<"d", "7:">>})
  @@ RootsOfAll({<<"r", "r", Pool2020>>, <<"s", "s", Pool2019>>, <<"d", "d", Pool07>>,
                 <<"h", "h", HostPool>>})
  @@ ("strict" :> Schema("e", <<On("x-unknown")>>))
  @@ ("h:f" :> Bare("h", "false"))
  @@ ("h:up" :> Schema("h", <<Sub("x-up", <<"h:top">>)>>))
  @@ ("h:top" :> Schema("h", <<Map("properties", <<"a">>, <<"h:up">>)>>))
  @@ ("h:again" :> Schema("h", <<On("x-call"), Map("properties", <<"a">>, <<"h:f">>)>>))
  @@ Rebinding

Resources ==
  Written("r", "2020", "pa") @@ Written("s", "2019", "9:pa") @@ Written("d", "07", "7:pa")
  @@ Written("h", "host", "h:again") @@ Written("e", "strict", "strict")
  @@ RebindingResources

\* What a constant is given is written with LET: TLC's coverage statistics expand
\* every other operator once for each of its uses.
MCNode == LET positions == Positions IN positions
MCResource == LET resources == Resources IN resources
MCKind(n) == Node[n].kind
MCTables == [n \in {n \in DOMAIN Positions : Positions[n].kind = "object"} |-> BuildNodeTable(n)]
MCTableOf(n) == LET tables == MCTables IN tables[n]
MCUnknown(k) == k.id = "unknown"
MCAllows(n) == AllowsUnknown(DialectOf(n))

\* The unevaluated keywords look at the channel only once the instance has the
\* type they are about.
MCReads(k, c) ==
  IF k.kw = "unevaluatedProperties" /\ ~IsObject(c.val) THEN {}
  ELSE IF k.kw = "unevaluatedItems" /\ ~IsArray(c.val) THEN {}
  ELSE k.reads

Callback(to, c) == <<[how |-> "call", to |-> to, at |-> RootCursor(c.val), segs |-> << >>]>>
MCSteps(k, c, seen) ==
  LET standard == Evaluate(k, c, seen, << >>).steps
  IN
  CASE k.id = "x-call"      -> Callback("pa", c)
    [] k.id = "x-call-loop" -> Callback("loop", c)
    [] k.id = "x-up"        -> [i \in DOMAIN c.up |-> Apply(k.subs[1], c.up[i], <<k.kw>>)]
    [] k.id = "x-down"      -> <<Apply(k.on, ChildCursor(c, "w", c.val), <<k.kw>>)>>
    [] OTHER                -> standard
MCTarget(step, k, scope) == LET to == Target(step, k, scope) IN to
MCOutcome(k, c, seen, vs) ==
  LET standard == Evaluate(k, c, seen, vs)
  IN
  CASE k.id = "x-lies" -> [Vacuous EXCEPT !.reports = << << >> >>]
    [] k.id = "x-mute" -> [Vacuous EXCEPT !.data = <<All(TRUE)>>]
    [] k.id \in {"x-up", "x-down"} -> Silent(AllPass(vs))
    [] OTHER           -> standard

MCProduced ==
  {"if", "properties", "patternProperties", "additionalProperties", "unevaluatedProperties",
   "prefixItems", "items", "contains", "unevaluatedItems", "2019:items",
   "2019:additionalItems", "2019:unevaluatedItems", "2019:unevaluatedProperties"}
MCConsumed == MCProduced

CallTo(n, v) == [to |-> n, at |-> RootCursor(Instances[v]), scope |-> << >>, depth |-> 0]
Roots ==
  RootNames("r", Pool2020) \union RootNames("s", Pool2019) \union RootNames("d", Pool07)
  \union RootNames("h", HostPool)
Others == {"strict", "dyn", "generic", "tree", "strictTree", "f", "t", "loop", "list"}

\* One call to each root; and two in a row, the second on the state of the
\* first, where it was not given up.
First == {"strict", "dyn", "f", "loop", "list", "hook", "h:again"}
Again ==
  {CallTo(n, "deep") : n \in {"strictTree", "list", "x", "h:again"}}
  \union {[CallTo("generic", "a") EXCEPT !.scope = <<"p">>, !.depth = 2]}
MCScripts ==
  {<<CallTo(n, v)>> : n \in Roots \union Others, v \in {"ba", "mixed"}}
  \union {<<CallTo(n, "deep")>> : n \in Others}
  \union {<<CallTo(n, "a"), again>> : n \in First, again \in Again}
-----------------------------------------------------------------------------
(***************************************************************************)
(* Properties.                                                             *)
(***************************************************************************)
\* What the reference makes of the call that ended last.
Reference(call) ==
  ApplySchema(call.to, call.at, << >>, Fragment(call.scope, call.depth, MaxDepth))

\* The reference knows nothing of the host's keywords, but a call that succeeds
\* makes no difference.
UsesHost(call) ==
  Node[call.to].kind = "object" /\
  \E i \in DOMAIN NodeTable(call.to) :
    LET k == NodeTable(call.to)[i]
    IN k.id \in {HostKeywords[j].id : j \in DOMAIN HostKeywords} \ {"x-call"}
       \/ "h:up" \in ToSet(k.subs)

\* A call comes to what the schema and the instance say, whatever state it was
\* given, what ran before it and what ran inside it: the verdict, the thrown
\* error, every error record in order, and the records left in the root frame,
\* or with elision those somebody consumes (createFragmentRunner, EvalState).
CallsAgree ==
  LET agrees(made, r) ==
        /\ made.thrown = r.thrown
        /\ r.thrown = "" =>
             /\ made.ok = r.ok
             /\ made.errors = r.errors
             /\ made.root.deps = IF eliding THEN SelectSeq(r.deps, LAMBDA d : d.id \in Consumed)
                                 ELSE r.deps
             /\ made.root.notes = IF eliding THEN << >> ELSE r.notes
  IN \A i \in DOMAIN last :
       UsesHost(last[i].call) \/ agrees(last[i], Reference(last[i].call))

\* The ways to call evaluate(): with every annotation, or those of a vocabulary.
NoLists == [keywords |-> {}, vocabularies |-> {}]
Everything == [allow |-> << >>, deny |-> NoLists]
Selections ==
  {Everything, [Everything EXCEPT !.allow = <<[NoLists EXCEPT !.vocabularies = {"meta-data"}]>>]}
Options(output, verbose, trace) ==
  [output |-> output, verbose |-> verbose, trace |-> trace, selection |-> Everything]
Formats ==
  {Options("basic", "unset", FALSE), Options("basic", "unset", TRUE),
   Options("list", "unset", TRUE), Options("list", "on", FALSE),
   Options("hierarchical", "unset", FALSE), Options("hierarchical", "on", TRUE),
   Options("detailed", "off", FALSE), Options("verbose", "unset", TRUE)}

\* The formats of one call agree on what is relevant (FormatsAgree), under every
\* selection of annotations; and what they show is what the evaluator recorded.
OutputsAgree ==
  LET run(call, selection, tracing) ==
        RunEvaluation(call.to, call.at, Fragment(call.scope, call.depth, MaxDepth),
                      selection, tracing)
      recorded(made, x) ==
        /\ made.ok = x.node.ok
        /\ made.errors = [i \in DOMAIN x.run.errors |-> Unlocated(x.run.errors[i])]
        /\ made.root.notes = IF x.node.ok THEN [i \in DOMAIN x.notes |-> Unlocated(x.notes[i])]
                             ELSE << >>
      agrees(made, call, selection, traced) ==
        /\ selection = Everything => recorded(made, traced)
        /\ FormatsAgree(traced, run(call, selection, FALSE), Formats, selection)
  IN \A i \in DOMAIN last, selection \in Selections :
       eliding \/ last[i].thrown # "" \/ UsesHost(last[i].call)
       \/ agrees(last[i], last[i].call, selection, run(last[i].call, selection, TRUE))
=============================================================================

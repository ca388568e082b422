----------------------------- MODULE MCAjvMutation -----------------------------
(***************************************************************************)
(* The mutation fixpoint over every combination of one or two members of a *)
(* pool that asks for defaults, removals, coercions and transforms in the  *)
(* places where they get in each other's way: a default whose value has    *)
(* defaults of its own, a type two branches disagree about, a generator    *)
(* for a property that is not declared, a branch nobody has to pass.       *)
(***************************************************************************)
EXTENDS AjvMutation, MCDocuments

Default(v) == Alt("default", <<v>>)
Type(t) == Lst("type", <<t>>)
Pool ==
  <<Map("properties", <<"a", "b">>, <<"one", "nest">>),
    Map("properties", <<"a">>, <<"int">>), Map("properties", <<"a">>, <<"str">>),
    Map("properties", <<"b">>, <<"list">>), Map("properties", <<"b">>, <<"clean">>),
    Map("properties", <<"a", "c">>, <<"t", "t">>),
    Sub("additionalProperties", <<"f">>), Sub("additionalProperties", <<"extra">>),
    Map("patternProperties", <<"^a">>, <<"either">>),
    Sub("allOf", <<"fills", "counts">>), Sub("allOf", <<"int">>), Sub("allOf", <<"str">>),
    Sub("anyOf", <<"closed", "fills">>), Sub("anyOf", <<"closed", "f">>),
    Sub("not", <<"closed">>), Sub("if", <<"counts">>), Sub("then", <<"fills">>),
    Sub("prefixItems", <<"one", "t", "one">>), Sub("prefixItems", <<"nest", "one">>),
    Sub("items", <<"either">>), Type("array"),
    Map("dynamicDefaults", <<"a", "c">>, << >>), Ref("far"), Ref("lost"), Ref("loop")>>

Blank == Schema("r", <<Map("properties", <<"a">>, <<"blank">>)>>)
Positions ==
  Leaves("r", "") @@ RootsOf("r", "r", Pool)
  @@ ("int"    :> Schema("r", <<Type("integer")>>))
  @@ ("str"    :> Schema("r", <<Type("string")>>))
  @@ ("either" :> Schema("r", <<Lst("type", <<"boolean", "null", "number">>)>>))
  @@ ("one"    :> Schema("r", <<Type("number"), Default(Num(2))>>))
  @@ ("nest"   :> Schema("r", <<Default(Obj(<< >>, << >>)), Map("properties", <<"a">>, <<"word">>)>>))
  @@ ("word"   :> Schema("r", <<Default(Str(" A")), Lst("transform", <<"trim", "toEnumCase">>),
                                Alt("enum", <<Str("a")>>)>>))
  @@ ("list"   :> Schema("r", <<Type("array"), Sub("items", <<"str">>)>>))
  @@ ("clean"  :> Schema("r", <<Lst("transform", <<"trim", "toLowerCase">>)>>))
  @@ ("extra"  :> Schema("r", <<Type("number")>>))
  @@ ("fills"  :> Schema("r", <<Map("properties", <<"c">>, <<"one">>)>>))
  @@ ("counts" :> Schema("r", <<Map("dynamicDefaults", <<"c">>, << >>), Lst("required", <<"a">>)>>))
  @@ ("closed" :> Schema("r", <<Map("properties", <<"a">>, <<"one">>),
                                Sub("additionalProperties", <<"f">>)>>))
  @@ ("far"    :> Schema("n", <<Map("properties", <<"b">>, <<"one">>)>>))
  @@ ("lost"   :> Schema("m", <<Map("properties", <<"b">>, <<"one">>)>>))
  @@ ("blank"  :> Schema("r", <<Default(Str(""))>>))
  @@ ("empties" :> Blank)
Resources ==
  Written("r", "2020", "t") @@ Written("n", "2020", "far") @@ Written("m", "2020", "lost")

\* What a constant is given is written with LET: TLC's coverage statistics expand
\* every other operator once for each of its uses.
MCNode == LET positions == Positions IN positions
MCResource == LET resources == Resources IN resources
MCTables == [n \in {n \in DOMAIN Positions : Positions[n].kind = "object"} |-> BuildNodeTable(n)]
MCTableOf(n) == LET tables == MCTables IN tables[n]
NoKeywords == << >>
MCFiled == {"r", "n"}
\* The position "f" is applied as a branch only: `additionalProperties: false`
\* fails without applying its subschema.
MCLastSegment(n) == IF n = "extra" THEN "additionalProperties" ELSE "0"
MCSchemas == RootNames("r", Pool)
BlankSchemas == {"empties"}

Strings == {"", " A", "A", "a", "2", "true", "0", "1"}
MCTransformed ==
  [trim |-> [s \in Strings |-> IF s = " A" THEN "A" ELSE s],
   toLowerCase |-> [s \in Strings |-> CASE s = "A" -> "a" [] s = " A" -> " a" [] OTHER -> s]]
MCNumberOf == [s \in {ToString(i) : i \in 0..60} |-> 2 * CHOOSE i \in 0..60 : ToString(i) = s]

Offered ==
  [empty |-> Obj(<< >>, << >>), a |-> Obj(<<"a">>, <<Str("1")>>),
   blanks |-> Obj(<<"a", "b">>, <<Null, Str("")>>),
   words |-> Obj(<<"b", "ab", "c">>, <<Str(" A"), Str("true"), Arr(<<Num(2)>>)>>),
   none |-> Arr(<< >>), short |-> Arr(<<Null, Str("2")>>), single |-> Arr(<<Str("0")>>),
   text |-> Str(" A"), zero |-> Num(0)]
MCInputs == DOMAIN Offered
MCInputOf(v) == Offered[v]

Ask(coerce, defaults, remove, keywords) ==
  [coerce |-> coerce, defaults |-> defaults, remove |-> remove,
   transform |-> keywords, dynamicDefaults |-> keywords]
MCOptions ==
  {Ask("on", "off", "off", FALSE), Ask("array", "on", "off", TRUE), Ask("off", "on", "all", TRUE),
   Ask("off", "off", "on", FALSE), Ask("on", "empty", "failing", FALSE),
   Ask("array", "empty", "all", TRUE), Ask("array", "off", "failing", TRUE)}
BlankOptions == {Ask("off", "on", "off", FALSE), Ask("off", "empty", "off", FALSE)}
-----------------------------------------------------------------------------
(***************************************************************************)
(* Properties.                                                             *)
(***************************************************************************)
\* When the passes end, nothing is left to rewrite: validating the instance
\* again changes nothing (runMutationFixpoint; the idempotence that
\* mutation-property.test.ts samples).
Settled ==
  LET nothingLeft(units, errors) ==
        /\ options.defaults # "off" => DefaultsIn(instance, units).v = instance
        /\ Generates => GeneratedIn(instance, units).v = instance
        /\ options.transform => TransformsIn(instance, units).v = instance
        /\ options.remove # "off" => RemovalsIn(instance, units, errors).v = instance
        /\ Coerces => CoercionsIn(instance, errors).v = instance
  IN stage = "done" => nothingLeft(Units(instance), Evaluated(instance).errors)

\* The passes are given up only on an oscillation: rewritings that undo each
\* other brought back an instance that was there before (MAX_PASSES and
\* MutationNonConvergenceError).
ThrowsOnlyOnOscillation == stage = "threw" => cameBack
=============================================================================

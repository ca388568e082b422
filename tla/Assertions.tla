------------------------------ MODULE Assertions ------------------------------
(***************************************************************************)
(* The keywords that look at the instance and apply nothing, and the       *)
(* choice of the behavior that evaluates an occurrence.  Fails(k, v) is    *)
(* the failure of an assertion, About(k, v) what its error names.          *)
(***************************************************************************)
EXTENDS Keywords, Integers

RECURSIVE JsonEqual(_, _)
JsonEqual(v, w) ==
  /\ v.t = w.t
  /\ CASE v.t = "object" -> /\ Keys(v) = Keys(w)
                            /\ \A x \in Keys(v) : JsonEqual(ValueAt(v, x), ValueAt(w, x))
       [] v.t = "array"  -> /\ Len(v.kids) = Len(w.kids)
                            /\ \A i \in DOMAIN v.kids : JsonEqual(v.kids[i], w.kids[i])
       [] OTHER          -> v.s = w.s /\ v.n = w.n

HasDuplicateItems(v) ==
  \E i, j \in DOMAIN v.kids : i < j /\ JsonEqual(v.kids[i], v.kids[j])

\* Numbers and numeric limits are in halves: 2 is the integer 1.
TypeIs(v, t) == IF t = "integer" THEN v.t = "number" /\ v.n % 2 = 0 ELSE v.t = t
IsMultipleOf(v, limit) == v.n % limit = 0

MissingRequired(k, v) == SelectSeq(k.keys, LAMBDA x : x \notin Keys(v))

\* limit >= 0 orders numbers; lengths and counts are compared with whole limits.
Bounded(k, v) ==
  CASE k.id = "minimum"          -> v.t = "number" => v.n >= k.limit
    [] k.id = "maximum"          -> v.t = "number" => v.n <= k.limit
    [] k.id = "exclusiveMinimum" -> v.t = "number" => v.n > k.limit
    [] k.id = "exclusiveMaximum" -> v.t = "number" => v.n < k.limit
    [] k.id = "minItems"         -> IsArray(v) => Len(v.kids) >= k.limit
    [] k.id = "maxItems"         -> IsArray(v) => Len(v.kids) <= k.limit
    [] k.id = "minProperties"    -> IsObject(v) => Len(v.keys) >= k.limit
    [] k.id = "maxProperties"    -> IsObject(v) => Len(v.keys) <= k.limit
    [] k.id = "minLength"        -> v.t = "string" => v.points >= k.limit
    [] k.id = "maxLength"        -> v.t = "string" => v.points <= k.limit

Limits == {"minimum", "maximum", "exclusiveMinimum", "exclusiveMaximum", "minItems",
           "maxItems", "minProperties", "maxProperties", "minLength", "maxLength"}
Compared == Limits \union {"type", "enum", "const", "pattern", "multipleOf", "uniqueItems",
                           "required", "dependentRequired"}

Fails(k, v) ==
  CASE k.id = "type"        -> \A i \in DOMAIN k.keys : ~TypeIs(v, k.keys[i])
    [] k.id \in {"enum", "const"} -> \A i \in DOMAIN k.values : ~JsonEqual(k.values[i], v)
    [] k.id = "pattern"     -> v.t = "string" /\ v.s \notin Matched[k.keys[1]]
    [] k.id = "multipleOf"  -> v.t = "number" /\ ~IsMultipleOf(v, k.limit)
    [] k.id = "uniqueItems" -> k.limit = 1 /\ IsArray(v) /\ HasDuplicateItems(v)
    [] k.id = "required"    -> IsObject(v) /\ MissingRequired(k, v) # << >>
    [] k.id = "dependentRequired" -> IsObject(v) /\ MissingNames(k.deps, v) # << >>
    [] OTHER                -> ~Bounded(k, v)

About(k, v) ==
  CASE k.id = "required"          -> MissingRequired(k, v)
    [] k.id \in {"dependentRequired", "07:dependencies"} -> MissingNames(k.deps, v)
    [] OTHER                      -> << >>

EvalAssertion(k, c) ==
  LET failed == Fails(k, c.val)
  IN [Silent(~failed) EXCEPT !.reports = OnlyIf(failed, <<About(k, c.val)>>)]

\* Keywords whose value is their annotation; every unknown keyword is one too.
Annotates(k) == k.id \in {"title", "default", "unknown"}

Evaluate(k, c, seen, vs) ==
  CASE k.id = "allOf" -> EvalAllOf(k, c, vs)
    [] k.id = "anyOf" -> EvalAnyOf(k, c, vs)
    [] k.id = "oneOf" -> EvalOneOf(k, c, vs)
    [] k.id = "not"   -> EvalNot(k, c, vs)
    [] k.id = "if"    -> EvalIf(k, c, vs)
    [] k.kw = "then"  -> EvalBranch(k, c, TRUE, seen, vs)
    [] k.kw = "else"  -> EvalBranch(k, c, FALSE, seen, vs)
    [] k.id \in {"$ref", "$dynamicRef", "$recursiveRef"} -> EvalReference(k, c, vs)
    [] k.id = "dependentSchemas"     -> EvalDependentSchemas(k, c, vs)
    [] k.id = "07:dependencies"      -> EvalDependencies(k, c, vs)
    [] k.id = "properties"           -> EvalProperties(k, c, vs)
    [] k.id = "patternProperties"    -> EvalPatternProperties(k, c, vs)
    [] k.id = "additionalProperties" -> EvalAdditionalProperties(k, c, vs)
    [] k.id \in {"unevaluatedProperties", "2019:unevaluatedProperties"} ->
         EvalUnevaluatedProperties(k, c, seen, vs)
    [] k.id = "propertyNames"        -> EvalPropertyNames(k, c, vs)
    [] k.id = "prefixItems"          -> EvalPrefixItems(k, c, vs)
    [] k.id = "items"                -> EvalItems(k, c, vs)
    [] k.id = "2019:items"           -> EvalItems2019(k, c, vs)
    [] k.id = "2019:additionalItems" -> EvalAdditionalItems(k, c, vs)
    [] k.id \in {"unevaluatedItems", "2019:unevaluatedItems"} ->
         EvalUnevaluatedItems(k, c, seen, vs)
    [] k.id = "contains"             -> EvalContains(k, c, vs)
    [] k.id = "07:contains"          -> EvalContainsLegacy(k, c, vs)
    [] k.id \in Compared             -> EvalAssertion(k, c)
    [] OTHER                         -> Vacuous  \* structural, or an annotation
=============================================================================

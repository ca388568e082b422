------------------------------ MODULE Documents ------------------------------
(***************************************************************************)
(* Schemas and instances as the evaluator and the compiler see them: a     *)
(* table of schema positions, each belonging to a resource, each resource  *)
(* written in a dialect; and JSON values with the locations inside them.   *)
(*                                                                         *)
(*   Node[n]      what is at schema position n: [kind, res, kws], where    *)
(*                kind is "true", "false", "object", "junk" (a value that  *)
(*                is no schema) or "missing" (a reference names it but     *)
(*                nothing is there) and kws the members in key order;      *)
(*   Resource[u]  the resource at base URI u: [dialect, root, dynamic,     *)
(*                recursive], dynamic mapping anchor names to positions;   *)
(*   Matched[p]   the strings that regular expression p matches;           *)
(*   HostKeywords the keywords a host registers with its own dialect.      *)
(*                                                                         *)
(* A member of a schema object is one record whatever its keyword; the     *)
(* fields a keyword does not use keep the value they have in Member.       *)
(***************************************************************************)
EXTENDS Naturals, Sequences, FiniteSets, SequencesExt

CONSTANTS Node, Resource, Matched, HostKeywords,
          NodeTable(_)   \* the keywords at an object position, in their order

Member ==
  [kw     |-> "",       \* the keyword
   subs   |-> << >>,    \* subschema positions
   keys   |-> << >>,    \* the names they are filed under, where there are any
   deps   |-> << >>,    \* [on, needs]: the array members of dependencies
   form   |-> "schema", \* "tuple" when the value of items is an array
   limit  |-> 0,        \* a numeric limit; of a number, in halves
   values |-> << >>,    \* the alternatives of enum and const
   ref    |-> "",       \* the position a reference names lexically
   anchor |-> ""]       \* and the plain-name fragment it does so by, if any

SelectIndexes(seq, Test(_)) ==
  SelectSeq([i \in DOMAIN seq |-> i], LAMBDA i : Test(seq[i]))

(***************************************************************************)
(* JSON values.  A string counts its UTF-16 units and its code points; a   *)
(* number is a whole number of halves, so that not every number is an      *)
(* integer.                                                                *)
(***************************************************************************)
Plain(t) == [t |-> t, s |-> "", units |-> 0, points |-> 0, n |-> 0,
             keys |-> << >>, kids |-> << >>]
Null          == Plain("null")
Num(halves)   == [Plain("number") EXCEPT !.n = halves]
Str(s)        == [Plain("string") EXCEPT !.s = s, !.units = Len(s), !.points = Len(s)]
Arr(kids)     == [Plain("array") EXCEPT !.kids = kids]
Obj(keys, kids) == [Plain("object") EXCEPT !.keys = keys, !.kids = kids]

IsObject(v) == v.t = "object"
IsArray(v)  == v.t = "array"
Keys(v)     == ToSet(v.keys)
ValueAt(v, key) == v.kids[CHOOSE i \in DOMAIN v.keys : v.keys[i] = key]

(***************************************************************************)
(* Where in the instance an application happens; up holds the cursor of    *)
(* the parent.  An index is the segment Ix(i), counted from 0 as the code  *)
(* does.  Cursors made for one location are one cursor here: of two that   *)
(* are open at once the second was made from a shallower one that is open  *)
(* between them, and nothing the engine does looks past it.                *)
(***************************************************************************)
Digits == <<"0", "1", "2", "3", "4", "5", "6", "7", "8", "9">>
Ix(i) == Digits[i + 1]

RootCursor(v) == [loc |-> << >>, val |-> v, up |-> << >>]
ChildCursor(c, seg, v) == [loc |-> Append(c.loc, seg), val |-> v, up |-> <<c>>]
Item(c, i) == ChildCursor(c, Ix(i), c.val.kids[i + 1])
Property(c, key) == ChildCursor(c, key, ValueAt(c.val, key))
PropertyName(c, key) == ChildCursor(c, key, Str(key))

(***************************************************************************)
(* Schemas.                                                                *)
(***************************************************************************)
IsFalse(n) == Node[n].kind = "false"
Base(n) == Node[n].res
DialectOf(n) == Resource[Base(n)].dialect

\* The members of n called name: one or none.
Siblings(n, name) == SelectSeq(Node[n].kws, LAMBDA m : m.kw = name)
Has(n, name) == Siblings(n, name) # << >>
Sibling(n, name) == Siblings(n, name)[1]
SiblingKeys(n, name) == FlattenSeq([i \in DOMAIN Siblings(n, name) |-> Siblings(n, name)[i].keys])
IsTuple(n, name) == \E m \in ToSet(Siblings(n, name)) : m.form = "tuple"

FalseIndexes(subs) == SelectIndexes(subs, IsFalse)

(***************************************************************************)
(* A dialect lists its keywords, every vocabulary in turn; the consumers   *)
(* (phase 1) come after all the others.  A keyword of a dialect is [name,  *)
(* id, phase, reads, adjacent]: the behavior registered for the name, the  *)
(* behaviors whose data it reads, and whether only those beside it.        *)
(***************************************************************************)
Entry(name, id) == [name |-> name, id |-> id, phase |-> 0, reads |-> {}, adjacent |-> FALSE]
Consumer(name, id, reads) == [Entry(name, id) EXCEPT !.phase = 1, !.reads = reads]
Branch(name, id) == [Entry(name, id) EXCEPT !.reads = {"if"}, !.adjacent = TRUE]
Shared(names) == [i \in DOMAIN names |-> Entry(names[i], names[i])]

NameReads == {"properties", "patternProperties", "additionalProperties"}

Core == Shared(<<"$ref", "$dynamicRef", "$defs", "$id", "$dynamicAnchor">>)
InPlace == Shared(<<"allOf", "anyOf", "oneOf", "not", "if">>)
ByName == Shared(<<"properties", "patternProperties">>)
Validation ==
  Shared(<<"type", "enum", "const", "pattern", "minLength", "maxLength", "minimum",
           "maximum", "exclusiveMinimum", "exclusiveMaximum", "minItems", "maxItems",
           "minProperties", "maxProperties", "required", "multipleOf", "uniqueItems">>)
Newer == Shared(<<"dependentRequired", "minContains", "maxContains">>)
Annotating == Shared(<<"title", "default">>)

InPhases(entries) ==
  SelectSeq(entries, LAMBDA e : e.phase = 0) \o SelectSeq(entries, LAMBDA e : e.phase = 1)

Dialect2020 ==
  Core \o InPlace \o <<Branch("then", "then"), Branch("else", "else")>>
  \o Shared(<<"dependentSchemas">>) \o ByName
  \o Shared(<<"additionalProperties", "prefixItems", "items", "contains", "propertyNames">>)
  \o <<Consumer("unevaluatedProperties", "unevaluatedProperties",
                NameReads \union {"unevaluatedProperties"}),
       Consumer("unevaluatedItems", "unevaluatedItems",
                {"prefixItems", "items", "contains", "unevaluatedItems"})>>
  \o Validation \o Newer \o Annotating

Dialect2019 ==
  Shared(<<"$ref", "$defs", "$id", "$recursiveRef", "$recursiveAnchor">>)
  \o InPlace \o <<Branch("then", "2019:then"), Branch("else", "2019:else")>>
  \o Shared(<<"dependentSchemas">>) \o ByName
  \o Shared(<<"propertyNames", "additionalProperties">>)
  \o <<Entry("items", "2019:items"), Entry("additionalItems", "2019:additionalItems"),
       Entry("contains", "contains"),
       Consumer("unevaluatedItems", "2019:unevaluatedItems",
                {"2019:items", "2019:additionalItems", "contains", "2019:unevaluatedItems"}),
       Consumer("unevaluatedProperties", "2019:unevaluatedProperties",
                NameReads \union {"2019:unevaluatedProperties"})>>
  \o Validation \o Newer \o Annotating

Dialect07 ==
  Shared(<<"$ref", "$id", "definitions">>)
  \o InPlace \o <<Branch("then", "07:then"), Branch("else", "07:else"),
                  Entry("dependencies", "07:dependencies")>>
  \o ByName \o Shared(<<"propertyNames", "additionalProperties">>)
  \o <<Entry("items", "2019:items"), Entry("additionalItems", "2019:additionalItems"),
       Entry("contains", "07:contains")>>
  \o Validation \o Annotating

\* registerDialect's ordering.  "strict" is the 2020-12 dialect without unknown
\* keywords, "host" the one with the host's own.
Ordered ==
  LET d2020 == InPhases(Dialect2020)
      d2019 == InPhases(Dialect2019)
      d07   == InPhases(Dialect07)
      host  == InPhases(Dialect2020 \o HostKeywords)
  IN [d \in {"2020", "strict", "2019", "07", "host"} |->
       CASE d = "2019" -> d2019 [] d = "07" -> d07 [] d = "host" -> host [] OTHER -> d2020]
AllowsUnknown(d) == d # "strict"
RefIgnoresSiblings(d) == d = "07"

(***************************************************************************)
(* References.  A dynamic one rebinds to the outermost resource in scope   *)
(* that declares the same dynamic anchor, if its lexical target declares   *)
(* one; a recursive one likewise by the resource's $recursiveAnchor.       *)
(***************************************************************************)
Declares(u, anchor) == anchor \in DOMAIN Resource[u].dynamic
Recursive(u) == Resource[u].recursive
RebindsDynamically(k) == k.anchor # "" /\ Declares(Base(k.ref), k.anchor)
RebindsRecursively(k) == Recursive(Base(k.ref))

Outermost(scope, Test(_)) == SelectInSeq(scope, Test)
ResolveDynamic(k, scope) ==
  LET i == Outermost(scope, LAMBDA u : Declares(u, k.anchor))
  IN IF ~RebindsDynamically(k) \/ i = 0 THEN k.ref
     ELSE Resource[scope[i]].dynamic[k.anchor]
ResolveRecursive(k, scope) ==
  LET i == Outermost(scope, Recursive)
  IN IF ~RebindsRecursively(k) \/ i = 0 THEN k.ref ELSE Resource[scope[i]].root
Resolve(k, scope) ==
  CASE Node[k.ref].kind = "missing" -> k.ref
    [] k.kw = "$dynamicRef"   -> ResolveDynamic(k, scope)
    [] k.kw = "$recursiveRef" -> ResolveRecursive(k, scope)
    [] OTHER                  -> k.ref

\* The members of n that carry entry e, with what its dialect says of it.
Occurrence(n, e) == Sibling(n, e.name) @@ [on |-> n] @@ e
Unknown(n, name) == Sibling(n, name) @@ [on |-> n] @@ Entry(name, "unknown")
TableOf(n, kws, ordered, refAlone) ==
  LET names    == {kws[i].kw : i \in DOMAIN kws}
      known    == {ordered[i].name : i \in DOMAIN ordered}
      alone    == refAlone /\ "$ref" \in names
      carried  == IF alone THEN {"$ref"} ELSE names
      entries  == SelectSeq(ordered, LAMBDA e : e.name \in carried)
      unknown  == SelectSeq(kws, LAMBDA m : m.kw \in carried \ known)
  IN [i \in DOMAIN entries |-> Occurrence(n, entries[i])]
     \o [i \in DOMAIN unknown |-> Unknown(n, unknown[i].kw)]
BuildNodeTable(n) ==
  LET of(d) == TableOf(n, Node[n].kws, Ordered[d], RefIgnoresSiblings(d)) IN of(DialectOf(n))
\* A position keeps the table that is built for it.
ASSUME TablesAreBuilt ==
  \A n \in {n \in DOMAIN Node : Node[n].kind = "object"} : NodeTable(n) = BuildNodeTable(n)
=============================================================================

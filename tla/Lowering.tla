------------------------------- MODULE Lowering -------------------------------
(***************************************************************************)
(* What a keyword tells the compiler: the facts its analyze() states and   *)
(* the statements its lower() emits.  They are written apart from          *)
(* evaluate() (Keywords) in the code too, keyword by keyword, and have to  *)
(* agree with it.                                                          *)
(*                                                                         *)
(* An application is known by its segments, the evaluation path it adds:   *)
(* the compiler matches a statement to the planned edge by the same        *)
(* keyword, sibling and path.  A keyword binds at most one loop variable   *)
(* and one list of rejected keys, so a statement need not name them.       *)
(***************************************************************************)
EXTENDS Assertions

(***************************************************************************)
(* Facts.                                                                  *)
(***************************************************************************)
InPlaceAt(segs, n) ==
  [segs |-> segs, to |-> n, inPlace |-> TRUE, conditional |-> FALSE, asserts |-> TRUE,
   inverted |-> FALSE, site |-> FALSE]
ChildAt(segs, n) == [InPlaceAt(segs, n) EXCEPT !.inPlace = FALSE]
Conditionally(app) == [app EXCEPT !.conditional = TRUE]

Alone(k) == <<k.kw>>
Placed(k, i) == <<k.kw, Ix(i - 1)>>
Filed(k, i) == <<k.kw, k.keys[i]>>
EachSub(k, App(_)) == [i \in DOMAIN k.subs |-> App(i)]

\* if declares the edges of the branches beside it, which declare none.
Outcomes(k) ==
  <<[InPlaceAt(Alone(k), k.subs[1]) EXCEPT !.asserts = FALSE]>>
  \o LET beside == SelectSeq(<<"then", "else">>, LAMBDA name : Has(k.on, name))
     IN [i \in DOMAIN beside |->
          Conditionally(InPlaceAt(<<beside[i]>>, Sibling(k.on, beside[i]).subs[1]))]

SelfSweeping ==
  {"additionalProperties", "items", "contains", "07:contains", "propertyNames",
   "unevaluatedProperties", "unevaluatedItems", "2019:unevaluatedProperties",
   "2019:unevaluatedItems"}

Applications(k) ==
  CASE k.id = "allOf" -> EachSub(k, LAMBDA i : InPlaceAt(Placed(k, i), k.subs[i]))
    [] k.id \in {"anyOf", "oneOf"} ->
         EachSub(k, LAMBDA i : Conditionally(InPlaceAt(Placed(k, i), k.subs[i])))
    [] k.id = "not" -> <<[InPlaceAt(Alone(k), k.subs[1]) EXCEPT !.inverted = TRUE]>>
    [] k.id = "if" -> Outcomes(k)
    [] k.id = "$ref" -> <<InPlaceAt(Alone(k), k.ref)>>
    [] k.id \in {"$dynamicRef", "$recursiveRef"} ->
         <<[InPlaceAt(Alone(k), k.ref) EXCEPT !.site = TRUE]>>
    [] k.id \in {"dependentSchemas", "07:dependencies"} ->
         EachSub(k, LAMBDA i : Conditionally(InPlaceAt(Filed(k, i), k.subs[i])))
    [] k.id \in {"properties", "patternProperties"} ->
         EachSub(k, LAMBDA i : ChildAt(Filed(k, i), k.subs[i]))
    [] k.id = "prefixItems" \/ (k.id = "2019:items" /\ k.form = "tuple") ->
         EachSub(k, LAMBDA i : ChildAt(Placed(k, i), k.subs[i]))
    [] k.id = "2019:additionalItems" ->
         OnlyIf(IsTuple(k.on, "items"), <<ChildAt(Alone(k), k.subs[1])>>)
    [] k.id \in SelfSweeping \/ k.id = "2019:items" -> <<ChildAt(Alone(k), k.subs[1])>>
    [] OTHER -> << >>

\* What an application that succeeds has evaluated at its own location: names
\* (patterns as the names they match) or a prefix of the items, or all of them.
\* Of an unknown half nothing can be said before the instance is there.
NoHalf     == [names |-> {}, prefix |-> 0, all |-> FALSE, known |-> TRUE, stated |-> FALSE]
Stated     == [NoHalf EXCEPT !.stated = TRUE]
AllOfThem  == [Stated EXCEPT !.all = TRUE]
Unknowable == [Stated EXCEPT !.known = FALSE]

EvaluatesNames(k) ==
  CASE k.id = "properties" -> [Stated EXCEPT !.names = ToSet(k.keys)]
    [] k.id = "patternProperties" ->
         [Stated EXCEPT !.names = UNION {Matched[p] : p \in ToSet(k.keys)}]
    [] k.id \in {"additionalProperties", "unevaluatedProperties",
                 "2019:unevaluatedProperties"} -> AllOfThem
    [] OTHER -> NoHalf
EvaluatesIndexes(k) ==
  CASE k.id = "prefixItems" \/ (k.id = "2019:items" /\ k.form = "tuple") ->
         [Stated EXCEPT !.prefix = Len(k.subs)]
    [] k.id = "2019:additionalItems" -> IF IsTuple(k.on, "items") THEN AllOfThem ELSE NoHalf
    [] k.id \in {"items", "2019:items", "unevaluatedItems", "2019:unevaluatedItems"} -> AllOfThem
    [] k.id = "contains" -> Unknowable
    [] OTHER -> NoHalf

Consumes(k) == k.reads # {}
IsCoverageConsumer(k) ==
  Consumes(k) /\ (EvaluatesNames(k).stated \/ EvaluatesIndexes(k).stated)
IsDynamic(k) == k.id \in {"$dynamicRef", "$recursiveRef"}
HasLowering(k) == \A i \in DOMAIN HostKeywords : HostKeywords[i].id # k.id

(***************************************************************************)
(* Statements.  A cursor is here, a child by a constant segment or by the  *)
(* loop's, or the loop's key itself as an instance.                        *)
(***************************************************************************)
Const(s) == [loop |-> FALSE, seg |-> s]
Loop     == [loop |-> TRUE, seg |-> ""]
Here       == [to |-> "here"]
ChildBy(s) == [to |-> "child", seg |-> s]
TheKey     == [to |-> "key"]

Applying(segs, cursor) == [segs |-> segs, cursor |-> cursor]
Must(segs, cursor)   == [op |-> "must", app |-> Applying(segs, cursor)]
Negate(segs)         == [op |-> "negate", app |-> Applying(segs, Here)]
AnyRun(apps)         == [op |-> "anyRun", apps |-> apps]
OneRun(apps)         == [op |-> "oneRun", apps |-> apps]
Either(c, then, else) == [op |-> "if", cond |-> c, then |-> then, else |-> else]
When(c, then)        == Either(c, then, << >>)
EachKey(body)        == [op |-> "eachKey", body |-> body]
EachIndex(start, body) == [op |-> "eachIndex", start |-> start, body |-> body]
Fail(about)          == [op |-> "fail", about |-> about]
FailDescribed        == [op |-> "describe"]
Annotate             == [op |-> "annotate"]
Produce(render)      == [op |-> "produce", render |-> render]
CoverageFold         == [op |-> "fold"]
CountRange(segs, low, high) ==
  [op |-> "count", app |-> Applying(segs, ChildBy(Loop)), low |-> low, high |-> high]
RejectScope(body)    == [op |-> "scope", body |-> body]
Reject(s)            == [op |-> "reject", seg |-> s]

TypeTest(t)    == [test |-> "type", type |-> t]
HasOwn(name)   == [test |-> "has", name |-> name]
LongerThan(n)  == [test |-> "longer", than |-> n]
KeyIn(names)   == [test |-> "in", names |-> names]
KeyNotIn(names) == [test |-> "notIn", names |-> names]
Uncovered      == [test |-> "uncovered"]
Violated       == [test |-> "violated"]
NeedsAbsent    == [test |-> "absent"]
Applied(segs)  == [test |-> "applies", app |-> Applying(segs, Here)]

\* The step of a sweep, and the scope that reports what it rejected.
SweepStep(k, cursor) ==
  IF IsFalse(k.subs[1]) THEN <<Reject(Loop)>> ELSE <<Must(Alone(k), cursor)>>
Scoped(k, sweep) ==
  IF \E i \in DOMAIN k.subs : IsFalse(k.subs[i]) THEN <<RejectScope(sweep)>> ELSE sweep

\* One guarded step for each subschema of an object or array of them.
Members(k, Guard(_), Segs(_), Cursor(_), Name(_)) ==
  EachSub(k, LAMBDA i : When(Guard(i),
    <<IF IsFalse(k.subs[i]) THEN Reject(Const(Name(i))) ELSE Must(Segs(i), Cursor(i))>>))

LowerAllOf(k) ==
  LET applied == SelectIndexes(k.subs, LAMBDA n : ~IsFalse(n))
      falses  == FalseIndexes(k.subs)
  IN [j \in DOMAIN applied |-> Must(Placed(k, applied[j]), Here)]
     \o OnlyIf(falses # << >>, <<Fail(IxAll(falses))>>)

\* An empty anyOf or oneOf has no application to close a run over.
Alternatives(k) == [i \in DOMAIN k.subs |-> Applying(Placed(k, i), Here)]
LowerAnyOf(k) == IF k.subs = << >> THEN <<Fail(<< >>)>> ELSE <<AnyRun(Alternatives(k))>>
LowerOneOf(k) == IF k.subs = << >> THEN <<Fail(<< >>)>> ELSE <<OneRun(Alternatives(k))>>

Branching(k, name) == OnlyIf(Has(k.on, name), <<Must(<<name>>, Here)>>)
LowerIf(k) == <<Either(Applied(Alone(k)), Branching(k, "then"), Branching(k, "else"))>>

LowerDependentSchemas(k) ==
  LET present(is) == [j \in DOMAIN is |->
        When(HasOwn(k.keys[is[j]]),
             IF IsFalse(k.subs[is[j]]) THEN <<Reject(Const(k.keys[is[j]]))>>
             ELSE <<Must(Filed(k, is[j]), Here)>>)]
      falses == FalseIndexes(k.subs)
  IN <<When(TypeTest("object"),
         present(SelectIndexes(k.subs, LAMBDA n : ~IsFalse(n)))
         \o OnlyIf(falses # << >>, <<RejectScope(present(falses))>>))>>

LowerDependencies(k) ==
  <<When(TypeTest("object"),
      Scoped(k, Members(k, LAMBDA i : HasOwn(k.keys[i]), LAMBDA i : Filed(k, i),
                        LAMBDA i : Here, LAMBDA i : k.keys[i]))
      \o OnlyIf(k.deps # << >>, <<When(NeedsAbsent, <<FailDescribed>>)>>))>>

ProduceNames == When(TypeTest("object"), <<Produce("names")>>)

LowerProperties(k) ==
  Scoped(k, Members(k, LAMBDA i : HasOwn(k.keys[i]), LAMBDA i : Filed(k, i),
                    LAMBDA i : ChildBy(Const(k.keys[i])), LAMBDA i : k.keys[i]))
  \o <<ProduceNames>>

\* A name two false patterns match is rejected by the first.
LowerPatternProperties(k) ==
  LET applied == SelectIndexes(k.subs, LAMBDA n : ~IsFalse(n))
      falses  == FalseIndexes(k.subs)
      earlier(j) == UNION {Matched[k.keys[falses[h]]] : h \in 1..(j - 1)}
      sweep(i)  == When(TypeTest("object"), <<EachKey(
                     <<When(KeyIn(Matched[k.keys[i]]), <<Must(Filed(k, i), ChildBy(Loop))>>)>>)>>)
      reject(j) == EachKey(<<When(KeyIn(Matched[k.keys[falses[j]]] \ earlier(j)),
                                  <<Reject(Loop)>>)>>)
  IN [j \in DOMAIN applied |-> sweep(applied[j])]
     \o OnlyIf(falses # << >>, <<When(TypeTest("object"),
                 <<RejectScope([j \in DOMAIN falses |-> reject(j)])>>)>>)
     \o <<ProduceNames>>

LowerAdditionalProperties(k) ==
  <<When(TypeTest("object"), Scoped(k, <<EachKey(
       <<When(KeyNotIn(NamedBeside(k.on)), SweepStep(k, ChildBy(Loop)))>>)>>)),
    ProduceNames>>

LowerPropertyNames(k) ==
  <<When(TypeTest("object"), Scoped(k, <<EachKey(SweepStep(k, TheKey))>>))>>

LowerTuple(k) ==
  Scoped(k, Members(k, LAMBDA i : LongerThan(i - 1), LAMBDA i : Placed(k, i),
                    LAMBDA i : ChildBy(Const(Ix(i - 1))), LAMBDA i : Ix(i - 1)))
  \o <<Produce("largestOrTrue")>>

LowerTail(k, start) ==
  <<When(TypeTest("array"),
      Scoped(k, <<EachIndex(start, SweepStep(k, ChildBy(Loop)))>>)),
    Produce("appliedTrue")>>

LowerItems(k) == LowerTail(k, TupleLength(k.on, "prefixItems"))
LowerItems2019(k) == IF k.form = "tuple" THEN LowerTuple(k) ELSE LowerTail(k, 0)
LowerAdditionalItems(k) ==
  IF IsTuple(k.on, "items") THEN LowerTail(k, TupleLength(k.on, "items")) ELSE << >>

LowerContains(k) ==
  LET low  == IF Has(k.on, "minContains") THEN Sibling(k.on, "minContains").limit ELSE 1
      high == IF Has(k.on, "maxContains") THEN <<Sibling(k.on, "maxContains").limit>> ELSE << >>
  IN IF IsFalse(k.subs[1])
     THEN OnlyIf(low > 0 \/ (high # << >> /\ high[1] < 0),
                 <<When(TypeTest("array"), <<Fail(<< >>)>>)>>)
     ELSE <<When(TypeTest("array"), <<CountRange(Alone(k), low, high)>>),
            Produce("matchedOrAllTrue")>>

LowerContainsLegacy(k) ==
  <<When(TypeTest("array"), IF IsFalse(k.subs[1]) THEN <<Fail(<< >>)>>
                            ELSE <<CountRange(Alone(k), 1, << >>)>>)>>

\* cov is the unit's: tracking, when the coverage is folded from the channel of
\* this evaluation, or the two halves the planner found.
LowerUnevaluatedProperties(k, cov) ==
  LET sweep(cond) == Scoped(k, <<EachKey(<<When(cond, SweepStep(k, ChildBy(Loop)))>>)>>)
  IN <<When(TypeTest("object"),
         (IF cov.tracking THEN <<CoverageFold>> \o sweep(Uncovered)
          ELSE OnlyIf(~cov.names.all, sweep(KeyNotIn(cov.names.names))))
         \o <<Produce("names")>>)>>

LowerUnevaluatedItems(k, cov) ==
  IF cov.tracking
  THEN <<When(TypeTest("array"),
           <<CoverageFold>>
           \o Scoped(k, <<EachIndex(0, <<When(Uncovered, SweepStep(k, ChildBy(Loop)))>>)>>)
           \o <<Produce("appliedTrue")>>)>>
  ELSE IF cov.indexes.all THEN << >> ELSE LowerTail(k, cov.indexes.prefix)

\* 2019-09 has behaviors of its own, which lower to the same statements.
LowerUnevaluatedProperties2019(k, cov) == LowerUnevaluatedProperties(k, cov)
LowerUnevaluatedItems2019(k, cov) == LowerUnevaluatedItems(k, cov)

LowerReference(k) == <<Must(Alone(k), Here)>>
LowerAssertion(k) == <<When(Violated, <<FailDescribed>>)>>

\* minLength and maxLength count code points only where the units leave it open.
LoweredFails(k, v) ==
  CASE k.id = "minLength" -> v.t = "string" /\ (v.units < k.limit
                               \/ (v.units < 2 * k.limit /\ v.points < k.limit))
    [] k.id = "maxLength" -> v.t = "string" /\ v.units > k.limit /\ v.points > k.limit
    [] OTHER -> Fails(k, v)

Lower(k, cov) ==
  CASE k.id = "allOf" -> LowerAllOf(k)
    [] k.id = "anyOf" -> LowerAnyOf(k)
    [] k.id = "oneOf" -> LowerOneOf(k)
    [] k.id = "not"   -> <<Negate(Alone(k))>>
    [] k.id = "if"    -> LowerIf(k)
    [] k.id \in {"$ref", "$dynamicRef", "$recursiveRef"} -> LowerReference(k)
    [] k.id = "dependentSchemas"     -> LowerDependentSchemas(k)
    [] k.id = "07:dependencies"      -> LowerDependencies(k)
    [] k.id = "properties"           -> LowerProperties(k)
    [] k.id = "patternProperties"    -> LowerPatternProperties(k)
    [] k.id = "additionalProperties" -> LowerAdditionalProperties(k)
    [] k.id = "propertyNames"        -> LowerPropertyNames(k)
    [] k.id = "prefixItems"          -> LowerTuple(k)
    [] k.id = "items"                -> LowerItems(k)
    [] k.id = "2019:items"           -> LowerItems2019(k)
    [] k.id = "2019:additionalItems" -> LowerAdditionalItems(k)
    [] k.id = "contains"             -> LowerContains(k)
    [] k.id = "07:contains"          -> LowerContainsLegacy(k)
    [] k.id = "unevaluatedProperties"      -> LowerUnevaluatedProperties(k, cov)
    [] k.id = "unevaluatedItems"           -> LowerUnevaluatedItems(k, cov)
    [] k.id = "2019:unevaluatedProperties" -> LowerUnevaluatedProperties2019(k, cov)
    [] k.id = "2019:unevaluatedItems"      -> LowerUnevaluatedItems2019(k, cov)
    [] k.id \in Compared             -> LowerAssertion(k)
    [] Annotates(k)                  -> <<Annotate>>
    [] OTHER                         -> << >>
=============================================================================

------------------------------- MODULE Keywords -------------------------------
(***************************************************************************)
(* What each keyword does to an instance: the evaluate() of its behavior.  *)
(* A keyword applies subschemas, all of them whatever the earlier ones     *)
(* answer, and then decides.  So each is an operator of the keyword's      *)
(* occurrence k, the cursor c, where it reads the channel the records it   *)
(* sees, and the verdicts vs its applications gave:                        *)
(*   steps    the applications, in order;                                  *)
(*   ok       the keyword's verdict;                                       *)
(*   reports  its own errors, each the names or indexes it is about;       *)
(*   data     what it produces for the channel, at most one record.        *)
(* With vs empty only steps means anything.                                *)
(***************************************************************************)
EXTENDS Documents

Apply(n, c, segs) == [how |-> "apply", to |-> n, at |-> c, segs |-> segs]
Refer(c, name)    == [how |-> "refer", to |-> name, at |-> c, segs |-> <<name>>]

NoData     == [names |-> {}, indexes |-> {}, count |-> 0, all |-> FALSE]
Names(s)   == [NoData EXCEPT !.names = s]
Indexes(s) == [NoData EXCEPT !.indexes = s]
Count(n)   == [NoData EXCEPT !.count = n]
All(b)     == [NoData EXCEPT !.all = b]

AllPass(vs) == \A i \in DOMAIN vs : vs[i]
Passing(vs) == SelectIndexes(vs, LAMBDA b : b)
OnlyIf(p, seq) == IF p THEN seq ELSE << >>
IxAll(is) == [j \in DOMAIN is |-> Ix(is[j] - 1)]

Silent(ok) == [steps |-> << >>, ok |-> ok, reports |-> << >>, data |-> << >>]
Vacuous == Silent(TRUE)

\* Every application must pass; the keys whose subschema is false were not
\* applied but rejected, and are named in one error.  Only an accepting keyword
\* produces.
Sweep(steps, rejected, data, vs) ==
  LET ok == AllPass(vs) /\ rejected = << >>
  IN [steps |-> steps, ok |-> ok, reports |-> OnlyIf(rejected # << >>, <<rejected>>),
      data |-> OnlyIf(ok, data)]

(***************************************************************************)
(* In-place applicators.                                                   *)
(***************************************************************************)
Branches(k, c, is) == [j \in DOMAIN is |-> Apply(k.subs[is[j]], c, <<k.kw, Ix(is[j] - 1)>>)]

EvalAllOf(k, c, vs) ==
  Sweep(Branches(k, c, SelectIndexes(k.subs, LAMBDA n : ~IsFalse(n))),
        IxAll(FalseIndexes(k.subs)), << >>, vs)

EvalAnyOf(k, c, vs) ==
  LET ok == \E i \in DOMAIN vs : vs[i]
  IN [steps |-> Branches(k, c, [i \in DOMAIN k.subs |-> i]), ok |-> ok,
      reports |-> OnlyIf(~ok, << << >> >>), data |-> << >>]

EvalOneOf(k, c, vs) ==
  LET ok == Len(Passing(vs)) = 1
  IN [steps |-> Branches(k, c, [i \in DOMAIN k.subs |-> i]), ok |-> ok,
      reports |-> OnlyIf(~ok, <<IxAll(Passing(vs))>>), data |-> << >>]

EvalNot(k, c, vs) ==
  [steps |-> <<Apply(k.subs[1], c, <<"not">>)>>, ok |-> ~AllPass(vs),
   reports |-> OnlyIf(AllPass(vs), << << >> >>), data |-> << >>]

EvalIf(k, c, vs) ==
  [Vacuous EXCEPT !.steps = <<Apply(k.subs[1], c, <<"if">>)>>, !.data = <<All(AllPass(vs))>>]

\* then and else see the record of the if beside them, and none without one.
EvalBranch(k, c, when, seen, vs) ==
  IF seen = << >> \/ seen[1].data.all # when THEN Vacuous
  ELSE [steps |-> <<Apply(k.subs[1], c, <<k.kw>>)>>, ok |-> AllPass(vs),
        reports |-> << >>, data |-> << >>]

EvalReference(k, c, vs) ==
  [steps |-> <<Refer(c, k.kw)>>, ok |-> AllPass(vs), reports |-> << >>, data |-> << >>]

Triggered(k, v) == SelectIndexes(k.keys, LAMBDA name : name \in Keys(v))
NamedBranches(k, c, is) ==
  [j \in DOMAIN is |-> Apply(k.subs[is[j]], c, <<k.kw, k.keys[is[j]]>>)]
KeysOf(k, is) == [j \in DOMAIN is |-> k.keys[is[j]]]

EvalDependentSchemas(k, c, vs) ==
  LET on == Triggered(k, c.val)
  IN IF ~IsObject(c.val) THEN Vacuous
     ELSE Sweep(NamedBranches(k, c, SelectSeq(on, LAMBDA i : ~IsFalse(k.subs[i]))),
                KeysOf(k, SelectSeq(on, LAMBDA i : IsFalse(k.subs[i]))), << >>, vs)

Absent(d, v) == SelectSeq(d.needs, LAMBDA name : name \notin Keys(v))
Missing(deps, v) == SelectSeq(deps, LAMBDA d : d.on \in Keys(v) /\ Absent(d, v) # << >>)
MissingNames(deps, v) ==
  FlattenSeq([i \in DOMAIN Missing(deps, v) |-> Absent(Missing(deps, v)[i], v)])

EvalDependencies(k, c, vs) ==
  LET schemas == EvalDependentSchemas(k, c, vs)
      missing == MissingNames(k.deps, c.val)
  IN IF ~IsObject(c.val) THEN Vacuous
     ELSE [schemas EXCEPT !.ok = @ /\ missing = << >>,
                          !.reports = @ \o OnlyIf(missing # << >>, <<missing>>)]

(***************************************************************************)
(* Applicators to the members of an object.                                *)
(***************************************************************************)
EvalProperties(k, c, vs) ==
  LET on == Triggered(k, c.val)
      applied == SelectSeq(on, LAMBDA i : ~IsFalse(k.subs[i]))
  IN IF ~IsObject(c.val) THEN Vacuous
     ELSE Sweep([j \in DOMAIN applied |->
                  Apply(k.subs[applied[j]], Property(c, k.keys[applied[j]]),
                        <<k.kw, k.keys[applied[j]]>>)],
                KeysOf(k, SelectSeq(on, LAMBDA i : IsFalse(k.subs[i]))),
                <<Names(ToSet(KeysOf(k, on)))>>, vs)

\* Pattern by pattern, and for each the instance's names in their order.
MatchedNames(p, v) == SelectSeq(v.keys, LAMBDA name : name \in Matched[p])
RemoveRepeats(seq) ==
  LET first == SelectSeq([i \in DOMAIN seq |-> i],
                         LAMBDA i : \A j \in 1..(i - 1) : seq[j] # seq[i])
  IN [i \in DOMAIN first |-> seq[first[i]]]

EvalPatternProperties(k, c, vs) ==
  LET under(i) == MatchedNames(k.keys[i], c.val)
      applied(i) == IF IsFalse(k.subs[i]) THEN << >>
                    ELSE [j \in DOMAIN under(i) |->
                           Apply(k.subs[i], Property(c, under(i)[j]), <<k.kw, k.keys[i]>>)]
      forbidden(i) == OnlyIf(IsFalse(k.subs[i]), under(i))
  IN IF ~IsObject(c.val) THEN Vacuous
     ELSE Sweep(FlattenSeq([i \in DOMAIN k.keys |-> applied(i)]),
                RemoveRepeats(FlattenSeq([i \in DOMAIN k.keys |-> forbidden(i)])),
                <<Names(UNION {ToSet(under(i)) : i \in DOMAIN k.keys})>>, vs)

\* The subschema at every name left over: false rejects the names instead.
SweepNames(k, c, left, vs) ==
  IF IsFalse(k.subs[1]) THEN Sweep(<< >>, left, <<Names({})>>, vs)
  ELSE Sweep([j \in DOMAIN left |-> Apply(k.subs[1], Property(c, left[j]), <<k.kw>>)],
             << >>, <<Names(ToSet(left))>>, vs)

NamedBeside(n) ==
  ToSet(SiblingKeys(n, "properties"))
  \union UNION {Matched[p] : p \in ToSet(SiblingKeys(n, "patternProperties"))}

EvalAdditionalProperties(k, c, vs) ==
  IF ~IsObject(c.val) THEN Vacuous
  ELSE SweepNames(k, c, SelectSeq(c.val.keys, LAMBDA x : x \notin NamedBeside(k.on)), vs)

EvalUnevaluatedProperties(k, c, seen, vs) ==
  LET evaluated == UNION {seen[i].data.names : i \in DOMAIN seen}
  IN IF ~IsObject(c.val) THEN Vacuous
     ELSE SweepNames(k, c, SelectSeq(c.val.keys, LAMBDA x : x \notin evaluated), vs)

EvalPropertyNames(k, c, vs) ==
  IF ~IsObject(c.val) THEN Vacuous
  ELSE IF IsFalse(k.subs[1]) THEN Sweep(<< >>, c.val.keys, << >>, vs)
  ELSE Sweep([i \in DOMAIN c.val.keys |->
               Apply(k.subs[1], PropertyName(c, c.val.keys[i]), <<k.kw>>)], << >>, << >>, vs)

(***************************************************************************)
(* Applicators to the items of an array; indexes count from 0.             *)
(***************************************************************************)
ItemsIn(v, is) == SelectSeq([i \in DOMAIN v.kids |-> i - 1], LAMBDA i : i \in is)
IxOf(is) == [j \in DOMAIN is |-> Ix(is[j])]
FromIndex(v, start) == ItemsIn(v, start..Len(v.kids))

\* One subschema for each leading position.
Tuple(k, c, vs) ==
  LET here == FromIndex(c.val, 0)
      on == SelectSeq(here, LAMBDA i : i < Len(k.subs))
      applied == SelectSeq(on, LAMBDA i : ~IsFalse(k.subs[i + 1]))
      data == IF on = here THEN All(TRUE) ELSE Count(Len(on))
  IN Sweep([j \in DOMAIN applied |->
             Apply(k.subs[applied[j] + 1], Item(c, applied[j]), <<k.kw, Ix(applied[j])>>)],
           IxOf(SelectSeq(on, LAMBDA i : IsFalse(k.subs[i + 1]))),
           OnlyIf(on # << >>, <<data>>), vs)

\* One subschema at every index left over.
SweepItems(k, c, left, vs) ==
  IF IsFalse(k.subs[1]) THEN Sweep(<< >>, IxOf(left), << >>, vs)
  ELSE Sweep([j \in DOMAIN left |-> Apply(k.subs[1], Item(c, left[j]), <<k.kw>>)],
             << >>, OnlyIf(left # << >>, <<All(TRUE)>>), vs)

EvalPrefixItems(k, c, vs) == IF IsArray(c.val) THEN Tuple(k, c, vs) ELSE Vacuous

TupleLength(n, name) == IF Has(n, name) THEN Len(Sibling(n, name).subs) ELSE 0

EvalItems(k, c, vs) ==
  IF ~IsArray(c.val) THEN Vacuous
  ELSE SweepItems(k, c, FromIndex(c.val, TupleLength(k.on, "prefixItems")), vs)

EvalItems2019(k, c, vs) ==
  IF ~IsArray(c.val) THEN Vacuous
  ELSE IF k.form = "tuple" THEN Tuple(k, c, vs) ELSE SweepItems(k, c, FromIndex(c.val, 0), vs)

EvalAdditionalItems(k, c, vs) ==
  IF ~IsArray(c.val) \/ ~IsTuple(k.on, "items") THEN Vacuous
  ELSE SweepItems(k, c, FromIndex(c.val, TupleLength(k.on, "items")), vs)

\* Items the records cover: all of them, a prefix, or the ones that matched.
EvaluatedItems(seen, v) ==
  IF \E i \in DOMAIN seen : seen[i].data.all THEN 0..Len(v.kids)
  ELSE UNION {seen[i].data.indexes \union {j \in 0..Len(v.kids) : j < seen[i].data.count} :
               i \in DOMAIN seen}

EvalUnevaluatedItems(k, c, seen, vs) ==
  IF ~IsArray(c.val) THEN Vacuous
  ELSE SweepItems(k, c, ItemsIn(c.val, 0..Len(c.val.kids) \ EvaluatedItems(seen, c.val)), vs)

\* contains probes every item unless nothing can match; the count decides.
Probes(k, c) ==
  IF IsFalse(k.subs[1]) THEN << >>
  ELSE [i \in DOMAIN c.val.kids |-> Apply(k.subs[1], Item(c, i - 1), <<k.kw>>)]
Matches(vs) == {i - 1 : i \in ToSet(Passing(vs))}

LimitsBeside(n, name) == {m.limit : m \in ToSet(Siblings(n, name))}
EnoughMatch(n, count) ==
  LET atLeast(mins) == \A low \in IF mins = {} THEN {1} ELSE mins : count >= low
  IN atLeast(LimitsBeside(n, "minContains")) /\ \A high \in LimitsBeside(n, "maxContains") : count <= high

EvalContains(k, c, vs) ==
  LET decided(ok, matching) ==
        [steps |-> Probes(k, c), ok |-> ok,
         reports |-> OnlyIf(~ok, <<IxAll(matching)>>),
         data |-> OnlyIf(ok /\ matching # << >>,
                         <<IF Len(matching) = Len(c.val.kids) THEN All(TRUE)
                           ELSE Indexes(Matches(vs))>>)]
  IN IF ~IsArray(c.val) THEN Vacuous
     ELSE decided(EnoughMatch(k.on, Len(Passing(vs))), Passing(vs))

EvalContainsLegacy(k, c, vs) ==
  IF ~IsArray(c.val) THEN Vacuous
  ELSE [steps |-> Probes(k, c), ok |-> Passing(vs) # << >>,
        reports |-> OnlyIf(Passing(vs) = << >>, << << >> >>), data |-> << >>]
=============================================================================

----------------------------- MODULE MCDocuments -----------------------------
(***************************************************************************)
(* Schemas and instances for the runs.  The roots are every combination    *)
(* of one or two members of a pool that has each keyword in the forms that *)
(* matter (a subschema that accepts, rejects, looks, is false or is a      *)
(* reference back), over positions that are simple enough to share.        *)
(***************************************************************************)
EXTENDS Interpretation, TLC

\* The members of schemas; Schema gives them the fields their keyword leaves alone.
On(kw)          == [kw |-> kw]
Sub(kw, subs)   == [kw |-> kw, subs |-> subs]
Tup(kw, subs)   == [kw |-> kw, subs |-> subs, form |-> "tuple"]
Map(kw, keys, subs) == [kw |-> kw, keys |-> keys, subs |-> subs]
Lst(kw, keys)   == [kw |-> kw, keys |-> keys]
Lim(kw, n)      == [kw |-> kw, limit |-> n]
Alt(kw, values) == [kw |-> kw, values |-> values]
Ref(n)          == [kw |-> "$ref", ref |-> n]
Dyn(n, anchor)  == [kw |-> "$dynamicRef", ref |-> n, anchor |-> anchor]
Rec(n)          == [kw |-> "$recursiveRef", ref |-> n, anchor |-> "#"]
Dep(kw, keys, subs, deps) == [kw |-> kw, keys |-> keys, subs |-> subs, deps |-> deps]

Schema(u, kws) ==
  [kind |-> "object", res |-> u, kws |-> [i \in DOMAIN kws |-> kws[i] @@ Member]]
Bare(u, kind)  == [kind |-> kind, res |-> u, kws |-> << >>]
Written(u, d, root) == u :> [dialect |-> d, root |-> root, dynamic |-> << >>, recursive |-> FALSE]
Declaring(u, d, root, anchor, n) ==
  u :> [dialect |-> d, root |-> root, dynamic |-> (anchor :> n), recursive |-> FALSE]
RecursiveAt(u, root, flag) ==
  u :> [dialect |-> "2019", root |-> root, dynamic |-> << >>, recursive |-> flag]

(***************************************************************************)
(* Positions the pools share.  "loop" is its own $ref; "list" descends     *)
(* into member a as long as there is one.                                  *)
(***************************************************************************)
Leaves(u, p) ==
  (p \o "t"    :> Bare(u, "true"))
  @@ (p \o "f"    :> Bare(u, "false"))
  @@ (p \o "x"    :> Bare(u, "junk"))
  @@ (p \o "gone" :> Bare(u, "missing"))
  @@ (p \o "num"  :> Schema(u, <<Lst("type", <<"number">>)>>))
  @@ (p \o "pa"   :> Schema(u, <<Map("properties", <<"a">>, <<p \o "t">>),
                                Lst("required", <<"a">>)>>))
  @@ (p \o "pb"   :> Schema(u, <<Map("properties", <<"b">>, <<p \o "num">>), On("title")>>))
  @@ (p \o "nota" :> Schema(u, <<Sub("not", <<p \o "pa">>)>>))
  @@ (p \o "cond" :> Schema(u, <<Sub("if", <<p \o "pa">>)>>))
  @@ (p \o "isa"  :> Schema(u, <<Alt("const", <<Str("a")>>)>>))
  @@ (p \o "loop" :> Schema(u, <<Sub("allOf", <<p \o "back">>)>>))
  @@ (p \o "back" :> Schema(u, <<Ref(p \o "loop")>>))
  @@ (p \o "list" :> Schema(u, <<Map("properties", <<"a">>, <<p \o "more">>)>>))
  @@ (p \o "more" :> Schema(u, <<Ref(p \o "list"), Lst("type", <<"object", "number">>)>>))

Tuples(u, p) ==
  (p \o "one" :> Schema(u, <<IF u = "r" THEN Sub("prefixItems", <<p \o "num">>)
                             ELSE Tup("items", <<p \o "num">>)>>))
  @@ (p \o "has" :> Schema(u, <<Sub("contains", <<p \o "num">>)>>))

\* Several tables of positions as one.
Together(tables) ==
  [n \in UNION {DOMAIN t : t \in tables} |-> (CHOOSE t \in tables : n \in DOMAIN t)[n]]
InFamilies(families) == Together({Leaves(f[1], f[2]) @@ Tuples(f[1], f[2]) : f \in families})

(***************************************************************************)
(* References that rebind.  From "generic" the hook means "deflt", from    *)
(* "dyn" it means "meta"; "late" gets to it on both ways, on the second    *)
(* only through "gate", which rebinds itself.                              *)
(***************************************************************************)
Rebinding ==
  ("dyn"        :> Schema("p", <<Ref("generic")>>))
  @@ ("meta"    :> Schema("p", <<Lst("required", <<"b">>)>>))
  @@ ("generic" :> Schema("q", <<Sub("allOf", <<"hook">>)>>))
  @@ ("hook"    :> Schema("q", <<Dyn("deflt", "meta")>>))
  @@ ("deflt"   :> Schema("q", <<Lst("required", <<"a">>)>>))
  @@ ("gate"    :> Schema("m", <<Dyn("goal", "next")>>))
  @@ ("goal"    :> Schema("m", <<Ref("dyn")>>))
  @@ ("late"    :> Schema("z", <<Map("properties", <<"a", "b">>, <<"hook", "gate">>)>>))
  @@ ("tree"    :> Schema("k", <<Map("properties", <<"a">>, <<"twig">>)>>))
  @@ ("twig"    :> Schema("k", <<Rec("tree")>>))
  @@ ("strictTree" :> Schema("l", <<Ref("tree"), Sub("unevaluatedProperties", <<"9:f">>)>>))
RebindingResources ==
  Declaring("p", "2020", "dyn", "meta", "meta") @@ Declaring("q", "2020", "generic", "meta", "deflt")
  @@ Declaring("m", "2020", "gate", "next", "goal") @@ Written("z", "2020", "late")
  @@ RecursiveAt("k", "tree", TRUE) @@ RecursiveAt("l", "strictTree", TRUE)

(***************************************************************************)
(* The pools.                                                              *)
(***************************************************************************)
InPlacePool(p) ==
  <<Sub("allOf", <<p \o "pa", p \o "pb">>), Sub("allOf", <<p \o "f", p \o "pa", p \o "num">>),
    Sub("anyOf", <<p \o "pa", p \o "pb", p \o "one">>), Sub("anyOf", << >>),
    Sub("oneOf", <<p \o "pa", p \o "has", p \o "f">>), Sub("not", <<p \o "nota">>),
    Sub("if", <<p \o "pa">>), Sub("then", <<p \o "pb">>), Sub("else", <<p \o "one">>),
    Ref(p \o "pa"), Ref(p \o "loop"), Ref(p \o "list"), Ref(p \o "x"), Ref(p \o "gone"),
    Ref(p \o "cond")>>

NamePool(p) ==
  <<Map("properties", <<"a", "b">>, <<p \o "t", p \o "num">>),
    Map("properties", <<"a">>, <<p \o "f">>),
    Map("patternProperties", <<"^a", "^ab">>, <<p \o "t", p \o "num">>),
    Map("patternProperties", <<"^ab", "^a">>, <<p \o "f", p \o "f">>),
    Sub("additionalProperties", <<p \o "f">>), Sub("additionalProperties", <<p \o "num">>),
    Sub("propertyNames", <<p \o "isa">>), Sub("propertyNames", <<p \o "f">>),
    Lst("required", <<"a", "b">>)>>

Pool2020 ==
  InPlacePool("") \o NamePool("")
  \o <<Map("dependentSchemas", <<"a", "b">>, <<"pb", "f">>),
       Dep("dependentRequired", << >>, << >>, <<[on |-> "a", needs |-> <<"b">>]>>),
       Sub("prefixItems", <<"num">>), Sub("prefixItems", <<"t", "f">>),
       Sub("items", <<"f">>), Sub("items", <<"num">>),
       Sub("contains", <<"num">>), Sub("contains", <<"f">>),
       Lim("minContains", 0), Lim("maxContains", 1),
       Sub("unevaluatedProperties", <<"f">>), Sub("unevaluatedProperties", <<"num">>),
       Sub("unevaluatedItems", <<"f">>), Sub("unevaluatedItems", <<"num">>),
       On("title"), On("x-unknown"), Lim("uniqueItems", 1)>>

Pool2019 ==
  <<Sub("allOf", <<"9:pa", "9:one">>), Sub("oneOf", <<"9:one", "9:has">>), Ref("9:pa"),
    Sub("if", <<"9:pa">>), Sub("else", <<"9:one">>), Map("properties", <<"b">>, <<"9:num">>),
    Tup("items", <<"9:num">>), Tup("items", <<"9:t", "9:f">>), Sub("items", <<"9:num">>),
    Sub("items", <<"9:f">>), Sub("additionalItems", <<"9:f">>),
    Sub("additionalItems", <<"9:num">>), Sub("contains", <<"9:num">>),
    Sub("unevaluatedItems", <<"9:f">>), Sub("unevaluatedItems", <<"9:num">>),
    Sub("unevaluatedProperties", <<"9:f">>)>>

Pool07 ==
  <<Ref("7:pa"), Sub("anyOf", <<"7:pa", "7:one">>), Sub("contains", <<"7:num">>),
    Sub("contains", <<"7:f">>), Lim("minContains", 0), Tup("items", <<"7:num">>),
    Sub("additionalItems", <<"7:f">>), Sub("if", <<"7:pa">>), Sub("then", <<"7:pb">>),
    Dep("dependencies", <<"a", "b">>, <<"7:pb", "7:f">>, <<[on |-> "b", needs |-> <<"a">>]>>)>>

RootName(p, i, j) == p \o ToString(i) \o "&" \o ToString(j)
Combined(pool, i, j) == IF i = j THEN <<pool[i]>> ELSE <<pool[j], pool[i]>>
Pairs(pool) == {ij \in (DOMAIN pool) \X (DOMAIN pool) :
                  ij[1] = ij[2] \/ (ij[1] < ij[2] /\ pool[ij[1]].kw # pool[ij[2]].kw)}
RootNames(p, pool) == {RootName(p, ij[1], ij[2]) : ij \in Pairs(pool)}
RootsOf(u, p, pool) ==
  [name \in RootNames(p, pool) |->
     LET ij == CHOOSE ij \in Pairs(pool) : RootName(p, ij[1], ij[2]) = name
     IN Schema(u, Combined(pool, ij[1], ij[2]))]
RootsOfAll(pools) == Together({RootsOf(x[1], x[2], x[3]) : x \in pools})

Instances ==
  [empty |-> Obj(<< >>, << >>), a |-> Obj(<<"a">>, <<Num(2)>>),
   deep |-> Obj(<<"a">>, <<Obj(<<"a">>, <<Num(2)>>)>>),
   ba |-> Obj(<<"b", "a">>, <<Str("a"), Num(2)>>),
   both |-> Obj(<<"a", "b">>, <<Obj(<<"a">>, <<Num(2)>>), Obj(<<"b">>, <<Num(2)>>)>>), ab |-> Obj(<<"ab", "b">>, <<Num(2), Num(3)>>),
   none |-> Arr(<< >>), one |-> Arr(<<Num(2)>>), mixed |-> Arr(<<Num(2), Str("a")>>),
   twice |-> Arr(<<Str("a"), Num(2), Num(2)>>), s |-> Str("a")]

MCMatched == ("^a" :> {"a", "ab"}) @@ ("^ab" :> {"ab"})
=============================================================================

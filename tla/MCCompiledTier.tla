---------------------------- MODULE MCCompiledTier ----------------------------
(***************************************************************************)
(* The compiled tier over the pools of MCDocuments, and over references    *)
(* whose target the rounds have to find.                                   *)
(***************************************************************************)
EXTENDS CompiledTier, MCDocuments

\* A keyword of a host that comes without lower().
HostEntries == <<Entry("x-host", "x-host")>>

\* 35 schemas, each a property of the one before.
Nested ==
  [name \in {"c" \o ToString(i) : i \in 0..34} |->
     LET i == CHOOSE i \in 0..34 : name = "c" \o ToString(i)
     IN Schema("r", IF i = 34 THEN <<Lst("required", <<"a">>)>>
                    ELSE <<Map("properties", <<"a">>, <<"c" \o ToString(i + 1)>>)>>)]

Positions ==
  InFamilies({<<"r", "">>, <<"s", "9:">>, <<"d", "7:">>})
  @@ RootsOfAll({<<"r", "r", Pool2020>>, <<"s", "s", Pool2019>>, <<"d", "d", Pool07>>})
  @@ Rebinding @@ Nested
  @@ ("host" :> Schema("h", <<On("x-host"), Sub("allOf", <<"pa">>)>>))
  @@ ("hosts" :> Schema("h", <<Sub("anyOf", <<"host", "hook">>), Map("properties", <<"b">>, <<"host">>),
                              Sub("unevaluatedProperties", <<"num">>)>>))
  @@ ("never" :> Schema("r", <<Sub("contains", <<"f">>), Lim("minContains", 0), Lim("maxContains", -1)>>))

Resources ==
  Written("r", "2020", "pa") @@ Written("s", "2019", "9:pa") @@ Written("d", "07", "7:pa")
  @@ Written("h", "host", "host") @@ RebindingResources

\* What a constant is given is written with LET: TLC's coverage statistics expand
\* every other operator once for each of its uses.
MCNode == LET positions == Positions IN positions
MCResource == LET resources == Resources IN resources
Tables == [n \in {n \in DOMAIN Positions : Positions[n].kind = "object"} |-> BuildNodeTable(n)]
Coverage == LET built == Tables
            IN ReadAsCoverage(UNION {ToSet(built[n]) : n \in DOMAIN built})
MCNodeTable(n) == LET tables == Tables IN tables[n]
MCIsCoverage(id) == LET ids == Coverage IN id \in ids
MCRoots == RootNames("r", Pool2020) \union RootNames("s", Pool2019) \union RootNames("d", Pool07)
           \union {"dyn", "generic", "late", "gate", "tree", "strictTree", "host", "hosts",
                       "f", "t", "never", "loop", "list"}
NestedRoots == {"c0"}
MCInstances == DOMAIN Instances
MCInstanceOf(v) == Instances[v]
=============================================================================

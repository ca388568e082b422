----------------------------- MODULE CompiledTier -----------------------------
(***************************************************************************)
(* compile() and compileList(): a root is planned in rounds until the      *)
(* decisions on its dynamic references stand, the plan is serialized, and  *)
(* the artifact then validates instances.                                  *)
(***************************************************************************)
EXTENDS CompiledCode

CONSTANTS Roots,     \* the schemas a caller compiles: positions
          Lists,     \* the outputs: a set of BOOLEAN, TRUE for a list artifact
          DepthLimits, \* the values a caller gives the option maxDepth
          InstanceNames, InstanceOf(_)

VARIABLES
  schemaUri, asList, \* what is compiled, and for which output
  stage,             \* what comes next, "ready" or "failed"
  siteStates,        \* the decisions, by site
  roundPlan,         \* the plan of the last round
  emitted,           \* the functions emitted, and what their bodies come to
  maxDepth,          \* the option the artifact is bound with; 0 until it is
  outcome            \* the last validation: << >> or <<[v, r]>>
vars == <<schemaUri, asList, stage, siteStates, roundPlan, emitted, maxDepth, outcome>>

Stages == {"round", "settle", "serialize", "ready", "failed"}
NoPlan == [root |-> schemaUri, units |-> << >>, order |-> << >>, seen |-> {}]
Code == [plan |-> roundPlan, list |-> asList, functions |-> emitted, maxDepth |-> maxDepth]

Init ==
  /\ schemaUri \in Roots
  /\ asList \in Lists
  /\ stage = "round"
  /\ siteStates = << >>
  /\ roundPlan = NoPlan
  /\ emitted = << >>
  /\ maxDepth = 0
  /\ outcome = << >>

\* A round plans from scratch under the decisions so far.
Round ==
  /\ stage = "round"
  /\ roundPlan' = PlanRound(schemaUri, asList, siteStates)
  /\ stage' = "settle"
  /\ UNCHANGED <<schemaUri, asList, siteStates, emitted, maxDepth, outcome>>

\* A decision that changed asks for another round.
Settle ==
  /\ stage = "settle"
  /\ siteStates' = SettleSites(roundPlan, siteStates)
  /\ stage' = IF siteStates' = siteStates THEN "serialize" ELSE "round"
  /\ UNCHANGED <<schemaUri, asList, roundPlan, emitted, maxDepth, outcome>>

\* The plan is serialized, and the source bound to a runtime with its options.
Serialize ==
  /\ stage = "serialize"
  /\ IF Serializable(roundPlan)
     THEN /\ stage' = "ready"
          /\ emitted' = FunctionsOf(roundPlan, asList)
          /\ maxDepth' \in DepthLimits
     ELSE /\ stage' = "failed"
          /\ UNCHANGED <<emitted, maxDepth>>
  /\ UNCHANGED <<schemaUri, asList, siteStates, roundPlan, outcome>>

Validate(v) ==
  /\ stage = "ready"
  /\ outcome' = <<[v |-> v, r |-> RunArtifact(Code, InstanceOf(v))]>>
  /\ UNCHANGED <<schemaUri, asList, stage, siteStates, roundPlan, emitted, maxDepth>>

Compile == Round \/ Settle \/ Serialize
Next == Compile \/ \E v \in InstanceNames : Validate(v)

\* compile() is synchronous: it takes its steps, the ones that move stage, until
\* it returns or throws.
Proceeds == stage \in {"round", "settle", "serialize"} /\ stage' \in Stages
Spec == Init /\ [][Next]_vars /\ WF_stage(Proceeds)

-----------------------------------------------------------------------------
(***************************************************************************)
(* Properties.                                                             *)
(***************************************************************************)
\* An answer of the artifact is a finding of the interpreter: exception, or else
\* verdict, errors and annotations in their order.
Same(made, ref) ==
  /\ made.thrown = ref.thrown
  /\ ref.thrown = "" => made.ok = ref.ok /\ made.errs = ref.errors /\ made.notes = ref.notes

\* Where the interpreter does not exceed maxDepth, a list artifact throws what it
\* throws and gives its verdict, its errors and its annotations, in their order
\* (runtime.ts: "the compiled and interpreted tiers agree by construction").
\* Where the interpreter does, the artifact may still answer, as a function that
\* calls none, and the `true` schemas folded into it, do not look at the depth:
\* it then answers what the interpreter does with two more.  A flag artifact
\* stops at the first failure and does not count expanded units: it throws only
\* where the interpreter does, and its verdict is the interpreter's, under the
\* same maxDepth or under one that leaves room for all it may expand.
TiersAgree ==
  \A i \in DOMAIN outcome :
    LET made == outcome[i].r
        ref(limit) == Interpret(schemaUri, InstanceOf(outcome[i].v), limit)
        roomy == maxDepth * (InlineLimit + 2)
    IN IF asList
       THEN /\ ref(maxDepth).thrown # "MaxDepth" => Same(made, ref(maxDepth))
            /\ made.thrown # "MaxDepth" => Same(made, ref(maxDepth + 2))
       ELSE /\ ref(maxDepth).thrown = "" => made.thrown = ""
            /\ made.thrown = "" /\ ref(roomy).thrown = "" => made.ok = ref(roomy).ok

\* A settled plan serializes, and every function an emitted function
\* calls is emitted: what expansion drops nobody calls (serializePlan, "Drop
\* dead functions").
CallsAreEmitted ==
  /\ stage # "failed"
  /\ \A fn \in DOMAIN emitted : emitted[fn].calls \subseteq DOMAIN emitted

\* A decided site keeps its target or becomes unstable, and an unstable one
\* stays so: what bounds the rounds (plan.ts, "Dynamic-reference sites").
DecisionsHold ==
  [][\A s \in DOMAIN siteStates :
       s \in DOMAIN siteStates' /\ (siteStates'[s] = siteStates[s] \/ siteStates'[s].unstable)]_siteStates

\* The rounds end.
CompileEnds == <>(stage \in {"ready", "failed"})
=============================================================================

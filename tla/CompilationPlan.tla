---------------------------- MODULE CompilationPlan ----------------------------
(***************************************************************************)
(* The compilation plan: which schema objects compile to a function (the   *)
(* static units) and which stay with the interpreter, the edges between    *)
(* them, and the settling of dynamic references over rounds.               *)
(*                                                                         *)
(* A round plans depth first from the root, given the sites decided so     *)
(* far; a site is <<unit, keyword>>.  The plan it makes is a record        *)
(* [root, units, order, seen]: the units by schema position, the order     *)
(* they were met in, and the sites the round saw.                          *)
(***************************************************************************)
EXTENDS Lowering

\* names and indexes: the coverage a consumer of the unit is licensed with.
FreshUnit ==
  [kind |-> "static", cause |-> "", edges |-> << >>, names |-> Unknowable,
   indexes |-> Unknowable, tracking |-> FALSE, inRegion |-> FALSE,
   reaches |-> FALSE, uses |-> 0]

IsBoolean(n) == Node[n].kind \in {"true", "false"}
KeywordsOf(n) == SelectSeq(NodeTable(n), LAMBDA k : k.id # "unknown")

(***************************************************************************)
(* Edges.                                                                  *)
(***************************************************************************)
Rebinds(k) == IF k.kw = "$dynamicRef" THEN RebindsDynamically(k) ELSE RebindsRecursively(k)
Resolved(n)      == [how |-> "resolved", to |-> n, site |-> << >>]
Unsettled(how)   == [how |-> how, to |-> "", site |-> << >>]

ResolveEdge(k, app, sites) ==
  LET site == <<k.on, k.kw>>
  IN CASE Node[app.to].kind = "missing"   -> Unsettled("unresolvable")
       [] ~app.site \/ ~Rebinds(k)        -> Resolved(app.to)
       [] site \notin DOMAIN sites        -> [Unsettled("pending") EXCEPT !.site = <<site>>]
       [] sites[site].unstable            -> Unsettled("unstable")
       [] OTHER -> [Resolved(sites[site].to) EXCEPT !.site = <<site>>]

Islanding(how) == IF how = "unstable" THEN "dynamic" ELSE "unlowerable"

\* Why keyword k alone makes its node an island, if it does.
KeywordCause(k, sites) ==
  LET cause(how) == IF how \in {"unstable", "unresolvable"} THEN Islanding(how)
                    ELSE IF HasLowering(k) THEN "" ELSE "unlowerable"
  IN cause(IF IsDynamic(k) THEN ResolveEdge(k, Applications(k)[1], sites).how ELSE "resolved")
SitesOf(k, sites) ==
  IF IsDynamic(k) THEN ToSet(ResolveEdge(k, Applications(k)[1], sites).site) ELSE {}

(***************************************************************************)
(* What a schema evaluates at its own location whenever it accepts, as far *)
(* as it can be told without an instance: from its own keywords and those  *)
(* it applies there unconditionally.                                       *)
(***************************************************************************)
Both(h)  == [names |-> h, indexes |-> h]
Neither  == Both(Unknowable)

Joined(halves) ==
  [names  |-> UNION {h.names : h \in halves},
   prefix |-> IF halves = {} THEN 0
              ELSE CHOOSE p \in {h.prefix : h \in halves} : \A h \in halves : p >= h.prefix,
   all    |-> \E h \in halves : h.all,
   known  |-> \A h \in halves : h.known,
   stated |-> TRUE]
JoinAll(both) ==
  [names |-> Joined({b.names : b \in both}), indexes |-> Joined({b.indexes : b \in both})]

RECURSIVE CoverageHalves(_, _, _, _)
CoverageHalves(n, visiting, excludeConsumers, sites) ==
  LET appliedHere(k) ==
        {[app |-> app, edge |-> ResolveEdge(k, app, sites)] :
           app \in {a \in ToSet(Applications(k)) : a.inPlace /\ ~a.inverted}}
      counts(k) == ~(excludeConsumers /\ Consumes(k))
      own(present) == {[names |-> EvaluatesNames(k), indexes |-> EvaluatesIndexes(k)] :
                         k \in {k \in present : counts(k)}}
      joined(halves, here) ==
        IF \E h \in here : h.app.conditional \/ ~h.app.asserts \/ h.edge.how # "resolved"
        THEN Neither
        ELSE JoinAll(halves \union
                     {CoverageHalves(h.edge.to, visiting \union {n}, FALSE, sites) : h \in here})
      of(present) == joined(own(present), UNION {appliedHere(k) : k \in present})
  IN IF n \in visiting \/ Node[n].kind = "junk" THEN Neither
     ELSE IF IsBoolean(n) THEN Both(NoHalf) ELSE of(ToSet(KeywordsOf(n)))

\* A consumer reads a coverage licensed here, or tracks it at run time.  A list
\* always tracks: a contributor that fails drops what it evaluated.
License(unit, n, list, sites) ==
  LET present  == ToSet(KeywordsOf(n))
      needs(Stating(_)) == \E k \in present : Consumes(k) /\ Stating(k)
      licensed(halves) ==
        IF \/ list
           \/ needs(LAMBDA k : EvaluatesNames(k).stated) /\ ~halves.names.known
           \/ needs(LAMBDA k : EvaluatesIndexes(k).stated) /\ ~halves.indexes.known
        THEN [unit EXCEPT !.tracking = TRUE]
        ELSE [unit EXCEPT !.names = halves.names, !.indexes = halves.indexes]
  IN IF \E k \in present : IsCoverageConsumer(k)
     THEN licensed(CoverageHalves(n, {}, TRUE, sites)) ELSE unit

(***************************************************************************)
(* The walk.  chain holds the units joined to this one by applications at  *)
(* the same location: an edge back into it is a cycle only the             *)
(* interpreter can report.                                                 *)
(***************************************************************************)
Island(unit, cause) == [unit EXCEPT !.kind = "interpreted", !.cause = cause]
AddEdge(P, n, app, to) ==
  [P EXCEPT !.units[n].edges = Append(@, [segs |-> app.segs, to |-> to, inPlace |-> app.inPlace])]

\* (mutant) An edge back to the unit's own ancestors is planned like any other.
SelfOnly(to, n, chain) == to = n
ClosesCycle(to, n, chain) == to = n \/ to \in chain

EdgesOf(present) ==
  FlattenSeq([i \in DOMAIN present |->
    LET apps == Applications(present[i])
    IN [j \in DOMAIN apps |-> [k |-> present[i], app |-> apps[j]]]])

RECURSIVE PlanUnit(_, _, _, _, _), PlanEdges(_, _, _, _, _, _, _)
PlanUnit(n, chain, P, list, sites) ==
  LET sitesIn(met) == UNION {SitesOf(met[i], sites) : i \in DOMAIN met}
      begun(unit, met) == [P EXCEPT !.units = (n :> unit) @@ @, !.order = Append(@, n),
                                    !.seen = @ \union sitesIn(met)]
      planned(present, stops) ==
        IF stops = << >>
        THEN PlanEdges(EdgesOf(present), 1, n, chain,
                       begun(License(FreshUnit, n, list, sites), present), list, sites)
        ELSE begun(Island(FreshUnit, KeywordCause(present[stops[1]], sites)),
                   SubSeq(present, 1, stops[1] - 1))
      object(present) ==
        planned(present, SelectIndexes(present, LAMBDA k : KeywordCause(k, sites) # ""))
  IN IF n \in DOMAIN P.units THEN P
     ELSE CASE IsBoolean(n)           -> begun(FreshUnit, << >>)
            [] Node[n].kind = "junk"  -> begun(Island(FreshUnit, "nonSchema"), << >>)
            [] OTHER                  -> object(KeywordsOf(n))

PlanEdges(edges, i, n, chain, P, list, sites) ==
  LET app         == edges[i].app
      rest(Q)     == PlanEdges(edges, i + 1, n, chain, Q, list, sites)
      planned(to) == PlanUnit(to, IF app.inPlace THEN chain \union {n} ELSE {}, P, list, sites)
      along(r) ==
        CASE r.how = "pending" -> rest(P)
          [] r.how \in {"unresolvable", "unstable"} ->
               [P EXCEPT !.units[n] = [Island(@, Islanding(r.how)) EXCEPT !.edges = << >>]]
          [] r.how = "resolved" /\ app.inPlace /\ ClosesCycle(r.to, n, chain) ->
               rest(AddEdge([P EXCEPT !.units[r.to] = [Island(@, "cycle") EXCEPT !.edges = << >>]],
                            n, app, r.to))
          [] OTHER -> rest(AddEdge(planned(r.to), n, app, r.to))
  IN IF i > Len(edges) THEN P ELSE along(ResolveEdge(edges[i].k, app, sites))

(***************************************************************************)
(* Coverage regions: what a tracking unit applies at its own location      *)
(* reports its coverage through the channel, and so on down.  A tracking   *)
(* unit met on the way becomes an island.                                  *)
(***************************************************************************)
RECURSIVE Spread(_, _, _, _)
Spread(units, stack, edges, i) ==
  IF i > Len(edges) THEN [units |-> units, stack |-> stack]
  ELSE LET m == edges[i].to
       IN IF ~edges[i].inPlace \/ units[m].kind # "static" \/ IsBoolean(m)
          THEN Spread(units, stack, edges, i + 1)
          ELSE IF units[m].tracking
          THEN Spread([units EXCEPT ![m] = [Island(@, "unlowerable") EXCEPT
                                              !.edges = << >>, !.tracking = FALSE]],
                      stack, edges, i + 1)
          ELSE IF units[m].inRegion THEN Spread(units, stack, edges, i + 1)
          ELSE Spread([units EXCEPT ![m].inRegion = TRUE], Append(stack, m), edges, i + 1)

RECURSIVE Regions(_, _)
Regions(units, stack) ==
  IF stack = << >> THEN units
  ELSE LET u == stack[Len(stack)]
           rest == SubSeq(stack, 1, Len(stack) - 1)
           next == Spread(units, rest, units[u].edges, 1)
       IN IF units[u].kind # "static" THEN Regions(units, rest)
          ELSE Regions(next.units, next.stack)

Targets(unit) == {unit.edges[i].to : i \in DOMAIN unit.edges}
RECURSIVE Reaching(_, _)
Reaching(units, reached) ==
  LET more == {n \in DOMAIN units : /\ units[n].kind = "static"
                                    /\ Targets(units[n]) \intersect reached # {}}
  IN IF more \subseteq reached THEN reached ELSE Reaching(units, reached \union more)

UsesOf(units, n) ==
  Cardinality({ui \in UNION {{<<u, i>> : i \in DOMAIN units[u].edges} : u \in DOMAIN units} :
                 units[ui[1]].kind = "static" /\ units[ui[1]].edges[ui[2]].to = n})

IslandsOf(units) == {n \in DOMAIN units : units[n].kind = "interpreted"}
Marked(units, reaching) ==
  [n \in DOMAIN units |->
     [units[n] EXCEPT !.reaches = n \in reaching, !.uses = UsesOf(units, n)]]

PlanRound(root, list, sites) ==
  LET spread(P) == [P EXCEPT !.units =
                      Regions(@, SelectSeq(P.order, LAMBDA n : P.units[n].tracking))]
      marked(P) == [P EXCEPT !.units = Marked(@, Reaching(@, IslandsOf(@)) \ IslandsOf(@))]
      fresh     == [root |-> root, units |-> << >>, order |-> << >>, seen |-> {}]
  IN marked(spread(PlanUnit(root, {}, fresh, list, sites)))

(***************************************************************************)
(* Settling.  Arrivals(P, Own) pairs every unit with the resources that    *)
(* can be the outermost declarer when evaluation gets there ("" for none   *)
(* yet), over all paths of static edges.                                   *)
(***************************************************************************)
RECURSIVE Arrive(_, _, _)
Arrive(P, Own(_), pairs) ==
  LET past(u, w) == {<<v, IF w = "" THEN Own(v) ELSE w>> : v \in Targets(P.units[u])}
      more == UNION {past(uw[1], uw[2]) :
                       uw \in {uw \in pairs : P.units[uw[1]].kind = "static"}}
  IN IF more \subseteq pairs THEN pairs ELSE Arrive(P, Own, pairs \union more)

Site(s) == Sibling(s[1], s[2])
SiteDeclares(s, u) ==
  IF s[2] = "$dynamicRef" THEN Declares(u, Site(s).anchor) ELSE Recursive(u)
TargetOf(s, winner) ==
  CASE winner = ""           -> Site(s).ref
    [] s[2] = "$dynamicRef"  -> Resource[winner].dynamic[Site(s).anchor]
    [] OTHER                 -> Resource[winner].root

Winners(P, s) ==
  LET own(n) == IF SiteDeclares(s, Base(n)) THEN Base(n) ELSE ""
  IN {uw[2] : uw \in {uw \in Arrive(P, own, {<<P.root, own(P.root)>>}) : uw[1] = s[1]}}

\* Two targets, or a target that changed, make a site unstable for good.
Decision(to) == [unstable |-> FALSE, to |-> to]
Unstable == [unstable |-> TRUE, to |-> ""]
\* (mutant) Only the sites of the last round are remembered, and not what was unstable.
SettleForgetting(P, sites) ==
  LET found(s) == {TargetOf(s, w) : w \in Winners(P, s)}
      open == {s \in P.seen : found(s) # {}}
      decide(s) == IF \/ Cardinality(found(s)) > 1
                      \/ s \in DOMAIN sites /\ sites[s].to \notin found(s) THEN Unstable
                   ELSE Decision(CHOOSE to \in found(s) : TRUE)
  IN [s \in open |-> decide(s)]
SettleSites(P, sites) ==
  LET found(s) == {TargetOf(s, w) : w \in Winners(P, s)}
      decided(s) == s \in DOMAIN sites
      open == {s \in P.seen : found(s) # {} /\ (decided(s) => ~sites[s].unstable)}
      decide(s) == IF \/ Cardinality(found(s)) > 1
                      \/ decided(s) /\ sites[s].to \notin found(s) THEN Unstable
                   ELSE Decision(CHOOSE to \in found(s) : TRUE)
  IN [s \in open |-> decide(s)] @@ sites
=============================================================================

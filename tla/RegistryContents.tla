-------------------------- MODULE RegistryContents --------------------------
(***************************************************************************)
(* What a schema registry holds at one moment, and what a reference means   *)
(* there: the vocabulary shared by RegistryViews, which says what a          *)
(* registry and its snapshots promise, and RegistrySnapshots, which keeps    *)
(* that promise over shared maps.                                            *)
(*                                                                         *)
(* Schema objects have identity: Nodes are JavaScript objects, and two of    *)
(* them may be equal copies of one value.  One dialect governs everything;   *)
(* re-registering it may change its identifier syntax, which decides where   *)
(* an embedded resource starts.                                              *)
(***************************************************************************)
EXTENDS Naturals, Sequences

CONSTANTS
  URIs,       \* resource URIs
  Nodes,      \* schema objects, by identity
  Documents,  \* those offered for registration
  Syntaxes,   \* identifier syntaxes the dialect may be given
  Segments,   \* steps from a schema object into one it holds
  Names,      \* plain-name anchors
  None,
  Value,      \* Value[n]: the JSON value of n, what jsonEqual compares
  Inside,     \* Inside[n][seg]: the object that step leads to, or None
  BaseId,     \* BaseId[s][n]: the resource that syntax s says n starts, or None
  RootURI,    \* RootURI[d]: the URI document d registers under
  Claims,     \* Claims[d][s][u]: what the walk of d stages for u, or None
  Queries     \* the references looked up: a resource and a fragment

Root      == << >>
RootOf(u) == [resource |-> u, fragment |-> Root]
Fragments == Seq(Segments) \union Names
Anchor    == [node : Nodes, pointer : Seq(Segments)]
Place     == [node : Nodes, base : URIs, pointer : Seq(Segments)]
Position  == [node : Nodes, base : URIs, pointer : Seq(Segments), syntax : Syntaxes,
              current : BOOLEAN]

\* A staged resource: its root object, its anchors, and the fragments a
\* dynamic reference rebinds at (Root: a 2019-09 $recursiveAnchor).
Resource ==
  [node : Nodes, anchors : [Names -> Anchor \union {None}],
   dynamic : SUBSET (Names \union {Root})]

ASSUME ContentsAssumption ==
  /\ None \notin URIs \union Nodes \union Syntaxes \union Anchor \union Resource
  /\ None \notin Place \union Position
  /\ Names \intersect Seq(Segments) = {}
  /\ Documents \subseteq Nodes
  /\ RootURI \in [Documents -> URIs]
  /\ Inside \in [Nodes -> [Segments -> Nodes \union {None}]]
  /\ BaseId \in [Syntaxes -> [Nodes -> URIs \union {None}]]
  /\ Claims \in [Documents -> [Syntaxes -> [URIs -> Resource \union {None}]]]
  /\ \A d \in Documents, s \in Syntaxes :
       Claims[d][s][RootURI[d]] # None /\ Claims[d][s][RootURI[d]].node = d
  /\ Queries \subseteq [resource : URIs, fragment : Fragments]

\* Navigation is at a node, with the location that names it, the syntax in
\* force there, and whether every resource entered on the way is the one
\* registered under its URI.
At(node, base, pointer, syntax) ==
  [node |-> node, base |-> base, pointer |-> pointer, syntax |-> syntax,
   current |-> TRUE]

\* One hop: the syntax in force decides whether the object starts a resource;
\* a registered one is governed by the dialect as it is now.
Hop(documents, now, at, seg) ==
  LET node == Inside[at.node][seg]
      id   == BaseId[at.syntax][node]
  IN IF node = None THEN None
     ELSE IF id = None
     THEN [at EXCEPT !.node = node, !.pointer = Append(@, seg)]
     ELSE [node    |-> node, base |-> id, pointer |-> Root,
           syntax  |-> IF documents[id] = None THEN at.syntax ELSE now,
           current |-> at.current /\ documents[id] = node]

\* A JSON Pointer followed from a resource root, hop by hop; None off the
\* document.
Follow(documents, now, start, pointer) ==
  LET at[k \in 0..Len(pointer)] ==
        IF k = 0 THEN start
        ELSE IF at[k - 1] = None THEN None
        ELSE Hop(documents, now, at[k - 1], pointer[k])
  IN at[Len(pointer)]

PlaceOf(at) ==
  IF at = None THEN None
  ELSE [node |-> at.node, base |-> at.base, pointer |-> at.pointer]
=============================================================================

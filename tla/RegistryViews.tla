---------------------------- MODULE RegistryViews ----------------------------
(***************************************************************************)
(* What a schema registry promises its readers (the docs of snapshot,       *)
(* resolveRef, dynamicReference and child in registry.ts): a snapshot is the *)
(* registry as it was, for good, and a lookup in the source or in any        *)
(* snapshot answers what that registry holds now, as if nothing were shared, *)
(* memoized or interned.                                                     *)
(***************************************************************************)
EXTENDS RegistryContents

CONSTANTS Source, Views

VARIABLES
  contents,  \* the registries there are, each with what it holds, as values
  answer     \* the last lookup and its answer

viewVars == <<contents, answer>>

Registries == {Source} \union Views

Content ==
  [documents : [URIs -> Nodes \union {None}],
   anchors   : [URIs -> [Names -> Place \union {None}]],
   dynamic   : [URIs -> SUBSET (Names \union {Root})],
   syntax    : Syntaxes]

\* The meaning of a reference in a registry: a place, or None for a throw.
Locate(c, q) ==
  LET root == c.documents[q.resource]
  IN IF q.fragment \in Names THEN c.anchors[q.resource][q.fragment]
     ELSE IF root = None THEN None
     ELSE PlaceOf(Follow(c.documents, c.syntax,
                         At(root, q.resource, Root, c.syntax), q.fragment))

\* Where one step leads from a place, however old the place is.
Below(c, place, seg) ==
  IF c.documents[place.base] = None THEN None
  ELSE PlaceOf(Hop(c.documents, c.syntax,
                   At(place.node, place.base, place.pointer, c.syntax), seg))

Reply(r, asked, place, rebinds) ==
  [registry |-> r, asked |-> asked, place |-> place, rebinds |-> rebinds]

NoReply == Reply(None, None, None, FALSE)

ViewInit ==
  /\ \E s \in Syntaxes :
       contents = [r \in {Source} |->
         [documents |-> [u \in URIs |-> None],
          anchors   |-> [u \in URIs |-> [n \in Names |-> None]],
          dynamic   |-> [u \in URIs |-> {}],
          syntax    |-> s]]
  /\ answer = NoReply

\* The source changes in any way; its snapshots do not.
Change ==
  /\ contents'[Source] \in Content
  /\ contents' = [contents EXCEPT ![Source] = contents'[Source]]
  /\ UNCHANGED answer

\* A snapshot of the source or of a snapshot.
Take(r, v) ==
  /\ r \in DOMAIN contents /\ v \in Views \ DOMAIN contents
  /\ contents' = [x \in DOMAIN contents \union {v} |->
                    IF x = v THEN contents[r] ELSE contents[x]]
  /\ UNCHANGED answer

\* A reference is resolved, statically or as far as a dynamic reference goes
\* without its scope: whether the scope is to be walked at all.
Ask(r, q) ==
  /\ r \in DOMAIN contents
  /\ LET place == Locate(contents[r], q)
     IN \E scoped \in BOOLEAN :
          answer' = Reply(r, q, place,
                          /\ scoped /\ place # None
                          /\ q.fragment \in contents[r].dynamic[q.resource])
  /\ UNCHANGED contents

\* A step from the place last answered, whoever answered it and when.
AskBelow(r, seg) ==
  /\ r \in DOMAIN contents /\ answer.place # None
  /\ answer' = Reply(r, None, Below(contents[r], answer.place, seg), FALSE)
  /\ UNCHANGED contents

ViewNext ==
  \/ Change
  \/ \E r \in Registries, v \in Views : Take(r, v)
  \/ \E r \in Registries, q \in Queries \union {RootOf(u) : u \in URIs} : Ask(r, q)
  \/ \E r \in Registries, seg \in Segments : AskBelow(r, seg)

ViewSpec == ViewInit /\ [][ViewNext]_viewVars
=============================================================================

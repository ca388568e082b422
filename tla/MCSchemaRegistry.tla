-------------------------- MODULE MCSchemaRegistry --------------------------
(***************************************************************************)
(* Instances of SchemaRegistry: small families of documents in which the   *)
(* interesting registrations meet.  A document is a tree of schemas given  *)
(* by Kids; every family names the documents it offers.                    *)
(***************************************************************************)
EXTENDS SchemaRegistry

MCPointers == {<< >>, <<1>>, <<2>>, <<1, 1>>}

Kids(v) ==
  CASE v = "holder1"  -> <<"z">>           \* {$defs: {s: z}}
    [] v = "holder2"  -> <<"plain", "z">>  \* the same resource elsewhere
    [] v = "nest"     -> <<"z">>           \* $id b, with z embedded
    [] v = "envelope" -> <<"nest">>        \* that document embedded whole
    [] v = "wrap"     -> <<"based">>       \* $id z, with another b embedded whole
    [] v = "holder3"  -> <<"z2">>          \* a rival that has its own dialect
    [] v = "twice"    -> <<"z", "z">>      \* one resource claimed twice
    [] v = "anchors2" -> <<"plain", "plain">>
    [] OTHER          -> << >>

MCSub ==
  [v \in Values |->
    LET at[p \in Pointers] ==
          IF p = << >> THEN v
          ELSE LET up == at[SubSeq(p, 1, Len(p) - 1)]
               IN IF up = None \/ p[Len(p)] \notin DOMAIN Kids(up) THEN None
                  ELSE Kids(up)[p[Len(p)]]
    IN at]

IdOf(v) ==
  CASE v \in {"z", "z2", "wrap"} -> "z"
    [] v \in {"based", "nest"}    -> "b"
    [] OTHER                      -> None

\* "old" stands for a dialect without $anchor or $recursiveAnchor.
Read(v, d) ==
  [id        |-> IdOf(v),
   anchors   |-> IF d = "new" /\ v = "plain" THEN {"n"} ELSE {},
   dynamic   |-> IF d = "new" /\ v \in {"nest", "z"} THEN {"n"} ELSE {},
   recursive |-> d = "new" /\ v \in {"z2", "nest"},
   steps     |-> DOMAIN Kids(v),
   refs      |-> IF v = "based" THEN {"z"} \intersect URIs ELSE {},
   produces  |-> IF v = "holder1" THEN {"props"} ELSE {},
   consumes  |-> IF v \in {"based", "plain"} THEN {"props"} ELSE {},
   covers    |-> IF v = "holder1" THEN {"props"} ELSE {},
   bad       |-> FALSE]

MCSchemaOf == [v \in Values |-> IF v = "z2" THEN "new" ELSE None]
MCReading  == [v \in Values |-> [d \in Dialects |-> Read(v, d)]]
=============================================================================

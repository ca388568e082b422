--------------------------- MODULE MCEngineLoading ---------------------------
(***************************************************************************)
(* Instances of EngineLoading: small families of schemas, the resources    *)
(* they reference, and the metaschemas they are written in.  A document is  *)
(* named by a capital, the URI it lives at by the small letter.             *)
(***************************************************************************)
EXTENDS EngineLoading

MCAt ==
  [d \in Docs |->
    CASE d = "S" -> "s" [] d = "T" -> "t" [] d = "R" -> "r" [] d = "P" -> "p"
      [] d = "M" -> "m" [] d = "V" -> "v" [] d = "A" -> "a" [] d = "B" -> "b"
      [] d = "X" -> "x" [] d = "P2" -> "p"
      [] d = "K" -> "k" [] d = "W" -> "w" [] d = "Y" -> "y"]

\* The loaders have every document but the ones passed in, and "n" nowhere.
MCServed ==
  [u \in URIs |->
    IF \E d \in Docs \ {"S", "T", "Y", "P2"} : MCAt[d] = u
    THEN CHOOSE d \in Docs \ {"S", "T", "Y", "P2"} : MCAt[d] = u ELSE None]

NoneEmbedded == [d \in Docs |-> << >>]

\* S is written in M, whose closure is P; it references R, written in the
\* self-describing V, and n, which no loader has.  T is written in A, whose
\* metaschema is written in B, and B's in A.  X's dialect has no metaschema.
\* Y is written in K, whose part W is written in K too.
MixedDialect ==
  [d \in Docs |-> CASE d = "S" -> "m" [] d = "R" -> "v" [] d = "V" -> "v"
                    [] d = "T" -> "a" [] d = "A" -> "b" [] d = "B" -> "a"
                    [] d = "X" -> "n" [] d \in {"Y", "W"} -> "k" [] OTHER -> None]
MixedRefs ==
  [d \in Docs |-> CASE d = "S" -> <<"r", "n">> [] d = "M" -> <<"p">>
                    [] d = "V" -> <<"p">> [] d = "R" -> <<"s">>
                    [] d = "K" -> <<"w">> [] OTHER -> << >>]
\* Everything that can fail.  M's closure P is invalid, unless P2 is there; no
\* loader has n; V, which describes itself, and B, which does not, require
\* unknown vocabularies; R is written in A, which does not register, and embeds
\* a resource under V; T embeds resources under M and V.
FaultyDialect ==
  [d \in Docs |-> CASE d = "S" -> "m" [] d = "V" -> "v" [] d = "R" -> "a"
                    [] d = "X" -> "b" [] OTHER -> None]
FaultyEmbedded ==
  [d \in Docs |-> CASE d = "T" -> <<"m", "v">> [] d = "A" -> <<"v">> [] OTHER -> << >>]
FaultyRefs ==
  [d \in Docs |-> CASE d = "S" -> <<"n", "r">> [] d = "M" -> <<"p">>
                    [] d = "P2" -> <<"n", "r", "x">> [] OTHER -> << >>]

\* S and T are written in M; M's own dialect is the default one.
SharedDialect == [d \in Docs |-> IF d \in {"S", "T"} THEN "m" ELSE None]
SharedRefs ==
  [d \in Docs |-> CASE d \in {"S", "T"} -> <<"r">> [] d = "R" -> <<"p">>
                    [] d = "M" -> <<"p">> [] OTHER -> << >>]

\* T references R and P, both written in M, which references V.
PartedDialect == [d \in Docs |-> IF d \in {"R", "P"} THEN "m" ELSE None]
PartedRefs ==
  [d \in Docs |-> CASE d = "T" -> <<"r", "p">> [] d = "M" -> <<"v">> [] OTHER -> << >>]
=============================================================================

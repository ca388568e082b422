----------------------------- MODULE MCAjvFacade -----------------------------
(***************************************************************************)
(* Schemas for AjvFacade: a has the $id "a" and refers to "b"; copy is an  *)
(* equal object; b1 and b2 are two schemas without an $id, to be filed     *)
(* under "b"; named has the $id "b" and is neither; anon refers to "a".    *)
(***************************************************************************)
EXTENDS AjvFacade

MCId == [o \in Objects |-> CASE o \in {"a", "copy"} -> "a" [] o = "named" -> "b" [] OTHER -> None]
MCValue == [o \in Objects |-> IF o = "copy" THEN "a" ELSE o]
MCRefs == [o \in Objects |-> CASE o \in {"a", "copy"} -> {"b"} [] o = "anon" -> {"a"} [] OTHER -> {}]
MCUses == [o \in Objects |-> CASE o = "b2" -> {"even"} [] o = "anon" -> {"errorMessage"} [] OTHER -> {}]
MCMisuses == [o \in Objects |-> IF o = "b2" THEN {"transform"} ELSE {}]
MCServed == [u \in URIs |-> IF u = "b" THEN "b1" ELSE IF u = "a" THEN "copy" ELSE None]
MCAdds == {<<"a", None>>, <<"a", "k">>, <<"b1", "b">>, <<"b2", "b">>}
MCOffered == {[strict |-> b, addUsedSchema |-> b] : b \in BOOLEAN}
MCMetaAdds == {<<"b1", "b">>}
=============================================================================

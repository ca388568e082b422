------------------------- MODULE MCRegistrySnapshots -------------------------
(***************************************************************************)
(* Three documents.  docA holds at step an object, inA, that the modern      *)
(* syntax reads as the resource uB and the legacy one does not; docB is an    *)
(* equal copy of it, registered under uB by itself.  Both carry a dynamic     *)
(* anchor.  docC has nothing to do with either.                               *)
(***************************************************************************)
EXTENDS RegistrySnapshots

CONSTANTS uA, uB, uC, docA, inA, docB, docC, modern, legacy, step, name, v1

MCURIs  == {uA, uB}
MCNodes == {docA, inA, docB, docC}

MCValue == [o \in MCNodes |->
  IF o \in {inA, docB} THEN "copy" ELSE IF o = docA THEN "outer" ELSE "other"]

MCInside == [o \in MCNodes |-> [seg \in {step} |-> IF o = docA THEN inA ELSE None]]

MCBaseId == [s \in Syntaxes |-> [o \in MCNodes |->
  IF s = modern /\ o \in {inA, docB} THEN uB ELSE None]]

MCRootURI == [d \in Documents |-> CASE d = docA -> uA [] d = docB -> uB [] d = docC -> uC]

Plain(o) == [node |-> o, anchors |-> [m \in Names |-> None], dynamic |-> {}]

Anchoring(o, pointer) ==
  [node |-> o,
   anchors |-> [m \in Names |-> [node |-> IF pointer = Root THEN o ELSE inA, pointer |-> pointer]],
   dynamic |-> Names]

MCClaims == [d \in Documents |-> [s \in Syntaxes |-> [u \in URIs |->
  CASE d = docA /\ u = uA -> IF s = modern THEN Plain(docA) ELSE Anchoring(docA, <<step>>)
    [] d = docA /\ u = uB /\ s = modern -> Anchoring(inA, Root)
    [] d = docB /\ u = uB -> Anchoring(docB, Root)
    [] d = docC /\ u = uC -> Plain(docC)
    [] OTHER -> None]]]

\* A pointer that may cross into the embedded resource, and its anchor.
MCScoped  == {[resource |-> uB, fragment |-> m] : m \in Names}
MCQueries == {[resource |-> uA, fragment |-> <<step>>]} \union MCScoped

MCRoots == {RootOf(uA), RootOf(uB)}
=============================================================================

----------------------------- MODULE TypeParts ------------------------------
(***************************************************************************)
(* The structure of a type, for the checks that look at every part of it.  *)
(***************************************************************************)
EXTENDS Types

\* The type and every type inside it.
RECURSIVE Within(_)
Within(type) ==
  {type} \cup UNION {Within(part) : part \in ToSet(Parts(type))}
=============================================================================

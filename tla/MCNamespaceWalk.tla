--------------------------- MODULE MCNamespaceWalk ---------------------------
(***************************************************************************)
(* Three namespaces and every catalog whose listings have at most two        *)
(* entries: trees, diamonds, self-listings and cycles; a creation during     *)
(* the walk adds listings that repeat an entry.                              *)
(***************************************************************************)
EXTENDS NamespaceWalk

MCListings ==
  {<<>>} \cup {<<n>> : n \in Namespace}
    \cup {<<p[1], p[2]>> : p \in {q \in Namespace \X Namespace : q[1] < q[2]}}
=============================================================================

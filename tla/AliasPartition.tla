--------------------------- MODULE AliasPartition ---------------------------
(***************************************************************************)
(* What CanonicalAliasGraph promises: the identifiers seen so far, in      *)
(* clusters that only grow together.                                       *)
(***************************************************************************)
CONSTANT Ids

VARIABLE clusters

Init == clusters = {}

\* a and b come to share a cluster; an identifier never seen starts its own.
Unite(a, b) ==
  LET touched == {c \in clusters : a \in c \/ b \in c}
  IN  clusters' = (clusters \ touched) \cup {{a, b} \cup UNION touched}

Next == \E a, b \in Ids : Unite(a, b)

Spec == Init /\ [][Next]_clusters

=============================================================================

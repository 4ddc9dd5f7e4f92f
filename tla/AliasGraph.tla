----------------------------- MODULE AliasGraph -----------------------------
(***************************************************************************)
(* CanonicalAliasGraph (graph/alias_graph.py): a disjoint-set forest with  *)
(* path compression and union by rank.                                     *)
(***************************************************************************)
EXTENDS Naturals, FiniteSets

CONSTANTS
  Ids,       \* identifiers
  Absent     \* what parent holds for an identifier not seen yet

AliasGraphAssumption == Absent \notin Ids /\ IsFiniteSet(Ids)

VARIABLES parent, rank

vars == <<parent, rank>>

Forests == [Ids -> Ids \cup {Absent}]

TypeOK == parent \in Forests /\ rank \in [Ids -> 0..Cardinality(Ids)]

Init == parent = [i \in Ids |-> Absent] /\ rank = [i \in Ids |-> 0]

-----------------------------------------------------------------------------
\* _ensure
Ensured(p, x) == IF p[x] = Absent THEN [p EXCEPT ![x] = x] ELSE p

\* What find visits from x on: x, and with an identifier its parent.
Path(p, x) ==
  {j \in Ids : \A s \in SUBSET Ids : x \in s /\ (\A i \in s : p[i] \in s) => j \in s}

\* Where it ends.
Root(p, x) == CHOOSE r \in Path(p, x) : p[r] = r

\* find: everything on the path points to the root afterwards.
Compressed(p, x) ==
  LET path == Path(p, x)
      root == Root(p, x)
  IN  [i \in Ids |-> IF i \in path THEN root ELSE p[i]]

Found(p, x) == Compressed(Ensured(p, x), x)

\* Mutant: the second item, not its root, is hung under the first one's root.
LinkItem(p, r, a, b) ==
  /\ parent' = [p EXCEPT ![b] = Root(p, a)]
  /\ rank' = IF Root(p, a) # Root(p, b) /\ r[Root(p, a)] = r[Root(p, b)]
               THEN [r EXCEPT ![Root(p, a)] = @ + 1] ELSE r

\* The lower root is hung under the higher one, b's under a's on a tie.
Link(p, r, a, b) ==
  LET x == Root(p, a)
      y == Root(p, b)
  IN  \/ /\ x = y
         /\ parent' = p /\ rank' = r
      \/ /\ x # y /\ r[x] >= r[y]
         /\ parent' = [p EXCEPT ![y] = x]
         /\ rank' = IF r[x] = r[y] THEN [r EXCEPT ![x] = @ + 1] ELSE r
      \/ /\ x # y /\ r[x] < r[y]
         /\ parent' = [p EXCEPT ![x] = y] /\ rank' = r

\* union, which add_alias and add_aliases call.
Union(a, b) == Link(Found(Found(parent, a), b), rank, a, b)

\* find, get_cluster; add_aliases of an advisory without aliases.
Find(a) == parent' = Found(parent, a) /\ UNCHANGED rank

Next == \/ \E a, b \in Ids : Union(a, b)
        \/ \E a \in Ids : Find(a)

Spec == Init /\ [][Next]_vars

-----------------------------------------------------------------------------
Present == {i \in Ids : parent[i] # Absent}

\* get_all_clusters
Clusters == {{i \in Present : Root(parent, i) = r} : r \in {Root(parent, i) : i \in Present}}

Power[n \in 0..Cardinality(Ids)] == IF n = 0 THEN 1 ELSE 2 * Power[n - 1]

\* A step up the forest raises the rank: there is no cycle, so find ends, and a
\* tree of rank r holds at least 2^r identifiers, so it ends soon.
RankRises ==
  /\ \A i \in Present : parent[i] \in Present /\ (parent[i] # i => rank[i] < rank[parent[i]])
  /\ \A c \in Clusters : \E r \in c : parent[r] = r /\ Cardinality(c) >= Power[rank[r]]

Partition == INSTANCE AliasPartition WITH clusters <- Clusters

=============================================================================

--------------------------- MODULE AdvisoryStore ---------------------------
(***************************************************************************)
(* What AdvisoryFusionEngine (dedup/fusion.py) makes of the advisory files *)
(* from one sync to the next: the files of the last run are read back, the *)
(* batch the feeds deliver is put behind them, and what shares an alias is *)
(* fused and written under the canonical id of its cluster.                *)
(*                                                                         *)
(* An identifier is its place in the order of get_canonical_id (CVE first, *)
(* then GHSA, MAL, PYSEC, GLAD, the rest), so the canonical one is the     *)
(* least.  `facts` stands for the affected packages, ranges, versions and  *)
(* references of a record, each named by the source id that stated it;     *)
(* `scored` is the source its severity comes from.                         *)
(***************************************************************************)
EXTENDS Naturals, Sequences, SequencesExt, FiniteSetsExt

CONSTANTS
  N,           \* number of identifiers
  Scored,      \* the sources that state a severity
  MaxBatch,    \* bound: records delivered in one run
  MaxRuns      \* bound: runs

AdvisoryStoreAssumption == N \in Nat \ {0} /\ Scored \subseteq 1..N /\ MaxBatch \in Nat /\ MaxRuns \in Nat

Ids      == 1..N
NoSource == 0
NoFile   == [id |-> 0, aliases |-> {}, facts |-> {}, scored |-> 0, kev |-> FALSE]
Records  == [id : Ids, aliases : SUBSET Ids, facts : SUBSET Ids, scored : 0..N, kev : BOOLEAN]

VARIABLES
  files,    \* <output_dir>/<id>.json
  index,    \* the ids index.json lists
  batch,    \* what the feeds delivered to the last run
  kevList,  \* the KEV catalogue the last run looked into
  runs

vars == <<files, index, batch, kevList, runs>>

TypeOK ==
  /\ files \in [Ids -> Records \cup {NoFile}]
  /\ index \in SUBSET Ids
  /\ batch \in Seq(Records) /\ Len(batch) <= MaxBatch
  /\ kevList \in SUBSET Ids
  /\ runs \in 0..MaxRuns

Init == /\ files = [i \in Ids |-> NoFile] /\ index = {} /\ batch = <<>>
        /\ kevList = {} /\ runs = 0

Delivery(i, aliases) ==
  [id |-> i, aliases |-> aliases, facts |-> {i}, scored |-> IF i \in Scored THEN i ELSE NoSource, kev |-> FALSE]

Deliveries == {Delivery(i, a) : i \in Ids, a \in {s \in SUBSET Ids : Cardinality(s) <= 1}}

Stored(f) == {f[i] : i \in {j \in Ids : f[j] # NoFile}}

-----------------------------------------------------------------------------
(* fuse_all                                                                *)

Mentioned(r) == {r.id} \cup r.aliases

\* The clusters of the alias graph over every record collected: the least set
\* that holds `i' and, with one identifier of a record, all of them.
ClusterOf(i, records) ==
  LET closed == {s \in SUBSET Ids : \A r \in records : Mentioned(r) \cap s # {} => Mentioned(r) \subseteq s}
  IN  {j \in Ids : \A s \in closed : i \in s => j \in s}

Clusters(records) == {ClusterOf(r.id, records) : r \in records}

\* id_to_vuln: of the records with one id the last is kept, and a stored one
\* comes before what the feeds deliver.
LastPerId(stored, delivered) ==
  LET lasts == {delivered[k] : k \in {n \in DOMAIN delivered :
                  \A m \in DOMAIN delivered : m > n => delivered[m].id # delivered[n].id}}
  IN  {s \in stored : \A d \in lasts : s.id # d.id} \cup lasts

\* Mutant: the catalogue is asked for the canonical id only.
FuseByIdOnly(cluster, group, kev) ==
  [id |-> Min(cluster), aliases |-> cluster \ {Min(cluster)}, facts |-> UNION {r.facts : r \in group},
   scored |-> NoSource, kev |-> Min(cluster) \in kev]

\* fuse_cluster and _merge_affected_packages: the severity of the record with
\* the best id that has one.  The KEV stamp of a stored record is not taken
\* over; it is set again from the catalogue, by id or by alias.
FuseCluster(cluster, group, kev) ==
  LET scores == {r \in group : r.scored # NoSource}
  IN  [id |-> Min(cluster), aliases |-> cluster \ {Min(cluster)},
       facts |-> UNION {r.facts : r \in group},
       scored |-> IF scores = {} THEN NoSource ELSE (CHOOSE r \in scores : \A q \in scores : r.id <= q.id).scored,
       kev |-> cluster \cap kev # {}]

FuseAll(stored, delivered, kev) ==
  LET kept == LastPerId(stored, delivered)
      all  == stored \cup ToSet(delivered)
  IN  {FuseCluster(c, {r \in kept : r.id \in c}, kev) : c \in Clusters(all)}

-----------------------------------------------------------------------------
\* One run.  A file that no fused record is named after is left as it is.
Run(delivered, kev) ==
  LET fused == FuseAll(Stored(files), delivered, kev)
  IN  /\ runs < MaxRuns
      /\ files' = [i \in Ids |-> IF \E r \in fused : r.id = i THEN CHOOSE r \in fused : r.id = i ELSE files[i]]
      /\ index' = {r.id : r \in fused}
      /\ batch' = delivered
      /\ kevList' = kev
      /\ runs' = runs + 1

Batches == UNION {[1..n -> Deliveries] : n \in 0..MaxBatch}

Next == \E d \in Batches, kev \in {{}} \cup {{i} : i \in Ids} : Run(d, kev)

Spec == Init /\ [][Next]_vars

-----------------------------------------------------------------------------
\* Whatever id an advisory is known by, the index lists exactly one record for
\* it: the file of its cluster's canonical id, which names every other id of
\* the cluster, also one under which an older file still lies, and is marked as
\* exploited exactly when the catalogue lists one of them.
IndexExact ==
  LET stored == Stored(files)
  IN  /\ index \subseteq {r.id : r \in stored}
      /\ \A r \in stored :
           LET c == ClusterOf(r.id, stored)
           IN  /\ c \cap index = {Min(c)}
               /\ Mentioned(files[Min(c)]) = c
               /\ files[Min(c)].kev = (c \cap kevList # {})

\* What a run reads is in what it writes, unless a feed delivered a record with
\* the very id of the file.
KeptUnlessRedelivered ==
  \A i \in Ids :
    files[i] # NoFile /\ (\A k \in DOMAIN batch' : batch'[k].id # i) =>
      files[i].facts \subseteq files'[Min(ClusterOf(i, Stored(files)' ))].facts

=============================================================================

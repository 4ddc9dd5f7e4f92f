-------------------------- MODULE MCSyncPipeline --------------------------
(* Small instances of SyncPipeline for TLC.                                *)
EXTENDS SyncPipeline

CONSTANTS g1, g2, c1, p1, p2

Cluster == [i \in Ids |-> IF i = g1 /\ c1 \in Ids THEN c1 ELSE i]
Apart   == [i \in Ids |-> i]
Names   == [i \in Ids |-> CASE i = g1 -> {p1} [] i = g2 -> {p2} \cap Packages
                               [] OTHER -> {}]
============================================================================

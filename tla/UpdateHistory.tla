--------------------------- MODULE UpdateHistory ---------------------------
(***************************************************************************)
(* build_updates_data (updates_builder.py): the update feed of a release,  *)
(* written to latest_update.json and v<release>.json, and its entry in     *)
(* updates_history.json, whose counts are differences to the entry that    *)
(* comes first.  Advisories stand for servers and versions too.            *)
(***************************************************************************)
EXTENDS Integers, Sequences, FiniteSets

CONSTANTS MaxRelease, MaxTotal      \* bounds: releases, advisories

UpdateHistoryAssumption == MaxRelease \in Nat /\ MaxTotal \in Nat

VARIABLES
  release, total,      \* the version of the package, the number of advisories
  history,             \* updates_history.json, newest build first
  bundles,             \* releases with a v<release>.json
  pc, entry,           \* a build under way, and its entry
  regular              \* history: has every build been of the newest release, over
                       \*   advisories that were only added, with a history that parsed?

vars == <<release, total, history, bundles, pc, entry, regular>>

Entries == [release : 0..MaxRelease, new : 0..MaxTotal, total : 0..MaxTotal]

NoEntry == [release |-> 0, new |-> 0, total |-> 0]

TypeOK ==
  /\ release \in 0..MaxRelease /\ total \in 0..MaxTotal
  /\ history \in Seq(Entries) /\ entry \in Entries
  /\ bundles \subseteq 0..MaxRelease
  /\ pc \in {"idle", "bundles", "history"} /\ regular \in BOOLEAN

Init ==
  /\ release = 0 /\ total = 0 /\ history = <<>> /\ bundles = {}
  /\ pc = "idle" /\ entry = NoEntry /\ regular = TRUE

Advisory ==
  /\ total < MaxTotal /\ total' = total + 1
  /\ UNCHANGED <<release, history, bundles, pc, entry, regular>>

Withdraw ==
  /\ total > 0 /\ total' = total - 1 /\ regular' = FALSE
  /\ UNCHANGED <<release, history, bundles, pc, entry>>

Release ==
  /\ release < MaxRelease /\ release' = release + 1
  /\ UNCHANGED <<total, history, bundles, pc, entry, regular>>

\* The entries of other releases, in their order: the i-th has i - 1 before it.
Others(v) ==
  LET kept == {k \in DOMAIN history : history[k].release # v}
  IN  [i \in 1..Cardinality(kept) |->
         history[CHOOSE k \in kept : Cardinality({j \in kept : j < k}) = i - 1]]

\* Mutant: the difference is not cut off at zero.
EntryBelowZero(v) ==
  LET prev == Others(v)
  IN  [release |-> v, total |-> total,
       new |-> IF prev = <<>> THEN total ELSE total - prev[1].total]

\* The counts compare with the first entry of another release; without one,
\* everything is new.
Entry(v) ==
  LET prev == Others(v)
  IN  [release |-> v, total |-> total,
       new |-> IF prev = <<>> THEN total
               ELSE IF total > prev[1].total THEN total - prev[1].total ELSE 0]

\* The catalogue is counted, the history read.
Build(v) ==
  /\ pc = "idle" /\ pc' = "bundles" /\ entry' = Entry(v)
  /\ regular' = (regular /\ v = release)
  /\ UNCHANGED <<release, total, history, bundles>>

\* latest_update.json, then v<release>.json.
WriteBundles ==
  /\ pc = "bundles" /\ pc' = "history" /\ bundles' = bundles \cup {entry.release}
  /\ UNCHANGED <<release, total, history, entry, regular>>

\* The release's entry is replaced and comes first.
WriteHistory ==
  /\ pc = "history" /\ pc' = "idle" /\ entry' = NoEntry
  /\ history' = <<entry>> \o Others(entry.release)
  /\ UNCHANGED <<release, total, bundles, regular>>

\* A build that dies in the last write leaves a history that loads as empty.
Die ==
  /\ pc # "idle" /\ pc' = "idle" /\ entry' = NoEntry
  /\ \/ UNCHANGED <<history, regular>>
     \/ pc = "history" /\ history' = <<>> /\ regular' = FALSE
  /\ UNCHANGED <<release, total, bundles>>

Next ==
  \/ Advisory \/ Withdraw \/ Release
  \/ \E v \in 1..release : Build(v)
  \/ WriteBundles \/ WriteHistory \/ Die

Spec == Init /\ [][Next]_vars

-----------------------------------------------------------------------------

\* The counts of the releases add up to the newest total, however often the
\* newest release was built again, and whatever builds died: unless advisories
\* were withdrawn, an older release was built again, or the history was lost.
CountsAddUp ==
  LET sum[n \in 0..Len(history)] == IF n = 0 THEN 0 ELSE sum[n - 1] + history[n].new
  IN  regular /\ history # <<>> => sum[Len(history)] = history[1].total

\* One entry per release, and each has its bundle, whatever was built again.
EntriesHaveBundles ==
  /\ \A i, j \in DOMAIN history : history[i].release = history[j].release => i = j
  /\ \A i \in DOMAIN history : history[i].release \in bundles

=============================================================================

------------------------ MODULE SyncPipelineProofs ------------------------
(* Proofs about SyncPipeline, for every value of its constants.            *)
EXTENDS SyncPipeline, FiniteSetTheorems, WellFoundedInduction, TLAPS

Rev(a)  == <<a, upd[a]>>
Feed    == {a \in Ghsa \cap Relevant : upd[a] > 0}
Whole(c) == files[c].st = "ok" \/ c \in cur

\* A revision is safe in memory, or on disk, or known to have been let go.
Held(a) == Rev(a) \in Fused(Canon[a]) \/ Rev(a) \in lost
Kept(a) == \/ Whole(Canon[a]) /\ Rev(a) \in files[Canon[a]].parts
           \/ Rev(a) \in lost

Loaded   == pc \notin {"idle", "preload"}
Emitting == pc \in {"emit", "write", "index", "saveOpen", "saveWrite"}

\* Files and queue name canonical ids; a file is open only while it is written,
\* and what a file left torn by a crash held has been let go.
FileInv ==
  /\ \A c \in Ids : ~Whole(c) => files[c].parts \subseteq lost
  /\ \A c \in Ids : files[c].st # "absent" => Canon[c] = c
  /\ \A c \in queue : Canon[c] = c
  /\ cur \subseteq queue
  /\ pc # "write" => cur = {}

\* No marker is ahead of the clock, so a revision still to come is above all.
ClockInv ==
  /\ stateFile.ghsa <= clock /\ marker <= clock /\ newest <= clock
  /\ \A a \in Ids : upd[a] <= clock

\* The saved checkpoint: what it covers is on disk and indexed, or let go.
DurableInv ==
  \A a \in Feed : upd[a] <= DurableMarker =>
    Kept(a) /\ (Canon[a] \in index \/ Rev(a) \in lost)

\* The run's own checkpoint: what it covers is in memory, or let go.
MarkerInv ==
  /\ pc = "preload" => marker <= DurableMarker
  /\ Loaded => \A a \in Feed : upd[a] <= marker => Held(a)

\* Nothing a file holds is forgotten between the pre-load and its rewriting.
MemoryInv ==
  Loaded => \A c \in Ids : Whole(c) =>
              files[c].parts \subseteq Fused(c) \cup lost

\* The pages read so far cover every revision from the cursor to the newest.
PagesInv ==
  pc = "ghsa" =>
    /\ marker <= newest
    /\ \A a \in Feed : marker < upd[a] /\ cursor <= upd[a] /\ upd[a] <= newest
                         => Held(a)

\* Emission: a fused record is waiting, or written whole, or rejected.
EmitInv ==
  /\ Emitting => \A c \in Ids : Fused(c) # {} =>
       \/ c \in queue
       \/ c \in emitted /\ files[c] = [st |-> "ok", parts |-> Fused(c)]
       \/ Fused(c) \subseteq lost
  /\ pc \in {"index", "saveOpen", "saveWrite"} => queue = {}
  /\ pc \in {"saveOpen", "saveWrite"} => index = emitted

IInv == /\ FileInv /\ ClockInv /\ DurableInv /\ MarkerInv
        /\ MemoryInv /\ PagesInv /\ EmitInv

-----------------------------------------------------------------------------
(* Types.                                                                  *)
LEMMA FusedType ==
  ASSUME TypeOK
  PROVE  \A c : Fused(c) \subseteq Part
BY DEF Fused, TypeOK

LEMMA RecordsType ==
  ASSUME NEW S \in SUBSET Ids, NEW rev \in [Ids -> Clock]
  PROVE  Records(S, rev) \in [S -> SUBSET Part]
BY DEF Records, Part

LEMMA CollectType ==
  ASSUME TypeOK, NEW S \in SUBSET Ids, NEW rev \in [Ids -> Clock],
         Collect(Records(S, rev))
  PROVE  collected' \in [Ids -> SUBSET Part] /\ lost' \in SUBSET Part
<1> DEFINE new == Records(S, rev)
<1>1. new \in [S -> SUBSET Part]
  BY RecordsType
<1> HIDE DEF new
<1> QED BY <1>1 DEF Collect, TypeOK, new

LEMMA CatalogUpdateType ==
  ASSUME NEW cat \in CatalogType, NEW p \in Packages,
         NEW at \in -1 .. MaxClock, NEW known \in SUBSET Ids
  PROVE  /\ [at |-> at, known |-> known] \in
              [at : -1 .. MaxClock, known : SUBSET Ids]
         /\ [cat[p] EXCEPT !.at = at] \in
              [at : -1 .. MaxClock, known : SUBSET Ids]
         /\ cat[p].known \in SUBSET Ids
BY DEF CatalogType

LEMMA MarkStaleType ==
  ASSUME TypeOK, NEW S
  PROVE  MarkStale(S) \in CatalogType
<1>1. 0 \in -1 .. MaxClock
  BY BoundAssumption
<1>2. \A p \in Packages : [catalog[p] EXCEPT !.at = 0] \in
                            [at : -1 .. MaxClock, known : SUBSET Ids]
  BY <1>1, CatalogUpdateType DEF TypeOK, CatalogType
<1> QED BY <1>2 DEF MarkStale, TypeOK, CatalogType

LEMMA BlankRecordType == [p \in Packages |-> NoRecord] \in CatalogType
BY BoundAssumption DEF NoRecord, CatalogType

LEMMA BlankType ==
  ASSUME Blank
  PROVE  /\ reset' \in BOOLEAN /\ osv' \in BOOLEAN
         /\ collected' \in [Ids -> SUBSET Part]
         /\ marker' \in Clock /\ newest' \in Clock /\ cursor' \in Page
         /\ pages' \in 0 .. MaxPages
         /\ catalog' \in CatalogType /\ tombs' \in SUBSET Packages
         /\ todo' \in SUBSET Packages /\ queue' \in SUBSET Ids
         /\ cur' \in SUBSET Ids /\ emitted' \in SUBSET Ids
<1>1. 0 \in Clock /\ MaxClock + 1 \in Page /\ 0 \in 0 .. MaxPages
  BY BoundAssumption DEF Clock, Page
<1>2. catalog' \in CatalogType
  BY BlankRecordType DEF Blank
<1> QED BY <1>1, <1>2 DEF Blank

(* Every variable keeps its type in every run of the sync process.         *)
THEOREM TypeCorrect == Spec => []TypeOK
<1>1. Init => TypeOK
  <2> SUFFICES ASSUME Init PROVE TypeOK
    OBVIOUS
  <2>1. /\ 0 \in Clock /\ 1 \in Clock /\ MaxClock + 1 \in Page
        /\ 0 \in 0 .. MaxPages
    BY BoundAssumption DEF Clock, Page
  <2>2. /\ catFile \in CatalogType /\ catalog \in CatalogType
    BY BlankRecordType DEF Init
  <2>3. files \in [Ids -> FileType]
    BY DEF Init, FileType, Absent
  <2>4. stateFile \in [torn : BOOLEAN, ghsa : Clock]
    BY <2>1 DEF Init
  <2> QED BY <2>1, <2>2, <2>3, <2>4 DEF Init, TypeOK, Steps
<1>2. TypeOK /\ [Next]_vars => TypeOK'
  <2> SUFFICES ASSUME TypeOK, [Next]_vars PROVE TypeOK'
    OBVIOUS
  <2> USE SetsAssumption, BoundAssumption
      DEF TypeOK, Steps, upstream, disk, memory, control
  <2>1. ASSUME NEW i \in Ids, Publish(i) PROVE TypeOK'
    <3>1. clock + 1 \in Clock
      BY <2>1 DEF Publish, Clock
    <3> QED BY <2>1, <3>1 DEF Publish
  <2>2. ASSUME NEW i \in Ids, Mirror(i) PROVE TypeOK'
    BY <2>2 DEF Mirror
  <2>3. ASSUME NEW r \in BOOLEAN, NEW o \in BOOLEAN, Start(r, o) PROVE TypeOK'
    <3>1. marker' \in Clock
      BY <2>3 DEF Start, Clock
    <3>2. catalog' \in CatalogType
      BY <2>3, BlankRecordType DEF Start
    <3> QED BY <2>3, <3>1, <3>2 DEF Start
  <2>4. CASE Preload
    <3>1. \A i \in Ids : files[i].parts \in SUBSET Part
      BY DEF FileType
    <3> QED BY <2>4, <3>1 DEF Preload
  <2>5. CASE IngestLocal
    <3>1. collected' \in [Ids -> SUBSET Part] /\ lost' \in SUBSET Part
      BY <2>5, CollectType DEF IngestLocal
    <3> QED BY <2>5, <3>1 DEF IngestLocal
  <2>6. ASSUME NEW S \in SUBSET Ids, IngestAdvisories(S)
        PROVE  /\ collected' \in [Ids -> SUBSET Part] /\ lost' \in SUBSET Part
               /\ catalog' \in CatalogType
    BY <2>6, CollectType, MarkStaleType DEF IngestAdvisories
  <2>7. CASE GhsaPage
    <3>1. Newest(PageSize) \in SUBSET Ids
      BY DEF Newest, Listing
    <3>2. cursor' \in Page
      BY <2>7, <3>1 DEF GhsaPage, Page, Clock
    <3>3. pages' \in 0 .. MaxPages
      BY <2>7 DEF GhsaPage, MoreToFetch
    <3> QED BY <2>6, <2>7, <3>1, <3>2, <3>3 DEF GhsaPage
  <2>8. CASE GhsaDone
    <3>1. Unread \in SUBSET Part
      BY DEF Unread, Part
    <3> QED BY <2>8, <3>1 DEF GhsaDone, AfterGhsa
  <2>9. CASE GhsaFail
    <3>1. /\ collected' \in [Ids -> SUBSET Part] /\ lost' \in SUBSET Part
          /\ catalog' \in CatalogType
      <4>1. CASE UNCHANGED <<collected, lost, catalog>>
        BY <4>1
      <4>2. ASSUME NEW bad, IngestAdvisories({a \in Listing : upd[a] > upd[bad]})
            PROVE  <3>1!:
        BY <2>6, <4>2 DEF Listing
      <4> QED BY <2>9, <4>1, <4>2 DEF GhsaFail
    <3> QED BY <2>9, <3>1 DEF GhsaFail, AfterGhsa
  <2>10. CASE OsvSelect
    <3>1. catalog' \in CatalogType
      BY <2>10, BlankRecordType DEF OsvSelect, CatalogType
    <3> QED BY <2>10, <3>1 DEF OsvSelect
  <2>11. ASSUME NEW S \in SUBSET Packages, OsvBatch(S) PROVE TypeOK'
    <3>1. UNION {Found(p) : p \in S} \in SUBSET Ids
      BY DEF Found
    <3>2. collected' \in [Ids -> SUBSET Part] /\ lost' \in SUBSET Part
      BY <2>11, <3>1, CollectType DEF OsvBatch
    <3>3. \A p \in Packages : [at |-> clock, known |-> catalog[p].known \cup Found(p)]
                                \in [at : -1 .. MaxClock, known : SUBSET Ids]
      BY DEF CatalogType, Found, Clock
    <3>4. catalog' \in CatalogType
      BY <2>11, <3>3 DEF OsvBatch, CatalogType
    <3> QED BY <2>11, <3>2, <3>4 DEF OsvBatch
  <2>12. ASSUME NEW S \in SUBSET Packages, OsvBatchFail(S) PROVE TypeOK'
    BY <2>12 DEF OsvBatchFail
  <2>13. CASE OsvBatchesDone
    BY <2>13 DEF OsvBatchesDone
  <2>14. CASE CatalogSave
    BY <2>14 DEF CatalogSave
  <2>15. CASE IngestRescan
    <3>1. PICK got \in SUBSET Ids : Collect(Records(got, upd))
      BY <2>15 DEF IngestRescan
    <3>2. collected' \in [Ids -> SUBSET Part] /\ lost' \in SUBSET Part
      BY <3>1, CollectType
    <3> QED BY <2>15, <3>2 DEF IngestRescan
  <2>16. CASE Fuse
    BY <2>16 DEF Fuse
  <2>17. ASSUME NEW c \in Ids, OpenAdvisory(c) PROVE TypeOK'
    <3>1. files' \in [Ids -> FileType]
      BY <2>17 DEF OpenAdvisory, FileType
    <3> QED BY <2>17, <3>1 DEF OpenAdvisory
  <2>18. ASSUME NEW c \in Ids, RejectAdvisory(c) PROVE TypeOK'
    BY <2>18, FusedType DEF RejectAdvisory
  <2>19. CASE WriteAdvisory
    <3>1. \A c \in Ids : [st |-> "ok", parts |-> Fused(c)] \in FileType
      BY FusedType DEF FileType
    <3> QED BY <2>19, <3>1 DEF WriteAdvisory
  <2>20. CASE EmitDone
    BY <2>20 DEF EmitDone
  <2>21. CASE WriteIndex
    BY <2>21 DEF WriteIndex
  <2>22. CASE OpenState
    BY <2>22 DEF OpenState
  <2>23. CASE WriteState
    BY <2>23, BlankType DEF WriteState
  <2>24. CASE Crash
    <3>1. \A c \in cur : files[c].parts \in SUBSET Part
      BY DEF FileType
    <3> QED BY <2>24, <3>1, BlankType DEF Crash
  <2>25. CASE UNCHANGED vars
    BY <2>25 DEF vars
  <2> QED
    BY <2>1, <2>2, <2>3, <2>4, <2>5, <2>7, <2>8, <2>9, <2>10, <2>11, <2>12,
       <2>13, <2>14, <2>15, <2>16, <2>17, <2>18, <2>19, <2>20, <2>21, <2>22,
       <2>23, <2>24, <2>25 DEF Next, Run
<1> QED BY <1>1, <1>2, PTL DEF Spec

-----------------------------------------------------------------------------
(* What a step of a feed does to the records in memory.                    *)

\* Records are added or replaced; what is replaced is noted in lost.
Growth == /\ \A c \in Ids : Fused(c) \subseteq Fused(c)' \cup lost'
          /\ lost \subseteq lost'

\* The step touches neither the files, nor the checkpoints, nor the queue.
Aside == UNCHANGED <<clock, upd, files, index, stateFile, marker, queue, cur>>

LEMMA CollectGrows ==
  ASSUME TypeOK, NEW S \in SUBSET Ids, NEW rev \in [Ids -> Clock],
         Collect(Records(S, rev))
  PROVE  Growth /\ \A i \in S : <<i, rev[i]>> \in Fused(Canon[i])'
<1>1. \A i \in S : collected'[i] = {<<i, rev[i]>>}
  BY DEF Collect, Records
<1>2. \A i \in Ids : collected[i] \subseteq collected'[i] \cup lost'
  BY DEF Collect, Records, TypeOK
<1>3. \A c \in Ids : Fused(c) \subseteq Fused(c)' \cup lost'
  BY <1>2 DEF Fused
<1>4. \A i \in S : <<i, rev[i]>> \in Fused(Canon[i])'
  BY <1>1, CanonAssumption DEF Fused
<1> QED BY <1>3, <1>4 DEF Growth, Collect

LEMMA SameRecords ==
  ASSUME UNCHANGED <<collected, lost>>
  PROVE  Growth
BY DEF Growth, Fused

LEMMA GrowthHolds ==
  ASSUME Growth, UNCHANGED upd, NEW a \in Ids, Held(a)
  PROVE  Held(a)'
BY CanonAssumption DEF Growth, Held, Rev

\* Every conjunct but PagesInv and ClockInv survives a step of a feed.
LEMMA FeedStep ==
  ASSUME TypeOK, IInv, Growth, Aside, Loaded, Loaded', ~Emitting, ~Emitting'
  PROVE  FileInv' /\ DurableInv' /\ MarkerInv' /\ MemoryInv' /\ EmitInv'
<1> USE DEF IInv, Aside, Loaded, Emitting
<1>1. FileInv'
  BY DEF FileInv, Whole, Growth
<1>2. DurableInv'
  BY CanonAssumption
  DEF DurableInv, DurableMarker, Feed, Kept, Whole, Rev, Growth
<1>3. MarkerInv'
  <2>1. \A a \in Feed' : upd'[a] <= marker' => Held(a)'
    BY SetsAssumption, GrowthHolds DEF MarkerInv, Feed
  <2> QED BY <2>1 DEF MarkerInv
<1>4. MemoryInv'
  BY DEF MemoryInv, Whole, Growth
<1>5. EmitInv'
  BY DEF EmitInv
<1> QED BY <1>1, <1>2, <1>3, <1>4, <1>5

-----------------------------------------------------------------------------
(* The GHSA pages.                                                         *)

\* A page holds, with one advisory, every listed one that is not older.
LEMMA NewestClosed ==
  ASSUME TypeOK, NEW n \in Nat, NEW last \in Newest(n), NEW a \in Listing,
         upd[last] <= upd[a]
  PROVE  a \in Newest(n)
<1> DEFINE above(x) == {b \in Listing : upd[b] > upd[x]}
<1>1. last \in Ids /\ a \in Ids /\ \A b \in Listing : b \in Ids
  BY SetsAssumption DEF Newest, Listing
<1>2. above(a) \subseteq above(last)
  BY <1>1 DEF TypeOK, Clock
<1>3. IsFiniteSet(Listing)
  BY SetsAssumption, <1>1, FS_Subset, Listing \subseteq Ids
<1>4. IsFiniteSet(above(last)) /\ IsFiniteSet(above(a))
  BY <1>3, FS_Subset, above(last) \subseteq Listing, above(a) \subseteq Listing
<1>5. Cardinality(above(a)) <= Cardinality(above(last))
  BY <1>2, <1>4, FS_Subset
<1>6. Cardinality(above(a)) \in Nat /\ Cardinality(above(last)) \in Nat
  BY <1>4, FS_CardinalityType
<1>7. Cardinality(above(last)) < n
  BY DEF Newest
<1> QED BY <1>5, <1>6, <1>7 DEF Newest

LEMMA PageStep ==
  ASSUME TypeOK, IInv, GhsaPage
  PROVE  IInv'
<1> DEFINE page == Newest(PageSize)
           new  == page \cap Relevant
<1>1. page \subseteq Listing /\ Listing \subseteq Ids
  BY SetsAssumption DEF Newest, Listing
<1>2. Collect(Records(new, upd))
  BY DEF GhsaPage, IngestAdvisories
<1>3. Growth /\ \A i \in new : <<i, upd[i]>> \in Fused(Canon[i])'
  BY <1>1, <1>2, CollectGrows DEF TypeOK
<1>4. /\ Aside /\ pc = "ghsa" /\ pc' = "ghsa"
  BY DEF GhsaPage, Aside, upstream, disk
<1>5. FileInv' /\ DurableInv' /\ MarkerInv' /\ MemoryInv' /\ EmitInv'
  BY <1>3, <1>4, FeedStep DEF Loaded, Emitting
<1>6. PICK m \in Clock : /\ m = newest \/ \E b \in page : upd[b] = m
                         /\ newest <= m /\ newest' = m
  BY DEF GhsaPage
<1>7. ClockInv'
  BY <1>1, <1>4, <1>6 DEF IInv, ClockInv, Aside, TypeOK, Clock
<1>8. PagesInv'
  <2> SUFFICES ASSUME NEW a \in Feed', marker < upd[a], cursor' <= upd[a],
                      upd[a] <= newest'
               PROVE  Held(a)'
    BY <1>4, <1>6 DEF PagesInv, IInv, Aside, TypeOK, Clock
  <2>1. a \in Feed /\ a \in Ids /\ upd[a] \in Clock /\ UNCHANGED upd
    BY <1>4, SetsAssumption DEF Feed, Aside, TypeOK
  <2>2. CASE cursor <= upd[a]
    <3>1. \A b \in page : upd[b] < cursor /\ upd[b] \in Clock
      BY <1>1 DEF Listing, TypeOK
    <3>2. upd[a] <= newest
      BY <1>6, <2>1, <2>2, <3>1 DEF TypeOK, Clock, Page
    <3>3. Held(a)
      BY <1>4, <2>1, <2>2, <3>2 DEF IInv, PagesInv
    <3> QED BY <1>3, <2>1, <3>3, GrowthHolds
  <2>3. CASE ~ (cursor <= upd[a])
    <3>1. a \in Listing
      BY <2>1, <2>3 DEF Listing, Feed, TypeOK, Clock, Page
    <3>2. a \in page
      <4>1. CASE Listing = page
        BY <3>1, <4>1
      <4>2. CASE \E last \in page : cursor' = upd[last]
        BY <3>1, <4>2, NewestClosed, BoundAssumption
      <4> QED BY <4>1, <4>2 DEF GhsaPage
    <3>3. a \in new
      BY <2>1, <3>2 DEF Feed
    <3> QED BY <1>3, <2>1, <3>3 DEF Held, Rev
  <2> QED BY <2>2, <2>3
<1> QED BY <1>5, <1>7, <1>8 DEF IInv

LEMMA DoneStep ==
  ASSUME TypeOK, IInv, GhsaDone
  PROVE  IInv'
<1> USE DEF IInv
<1>1. /\ UNCHANGED <<clock, upd, files, index, stateFile, queue, cur, collected,
                     newest>>
      /\ pc = "ghsa" /\ pc' \in {"osvSelect", "rescan"}
      /\ marker' = newest /\ lost' = lost \cup Unread
  BY DEF GhsaDone, AfterGhsa, upstream, disk
<1>2. \A a \in Feed : upd[a] <= newest => Held(a)'
  <2> SUFFICES ASSUME NEW a \in Feed, upd[a] <= newest PROVE Held(a)'
    OBVIOUS
  <2>1. a \in Ids /\ upd[a] \in Clock /\ a \in Ghsa \cap Relevant
    BY SetsAssumption DEF Feed, TypeOK
  <2>2. Held(a) => Held(a)'
    BY <1>1 DEF Held, Rev, Fused
  <2>3. CASE upd[a] <= marker
    BY <1>1, <2>2, <2>3 DEF MarkerInv, Loaded
  <2>4. CASE marker < upd[a] /\ cursor <= upd[a]
    BY <1>1, <2>2, <2>4 DEF PagesInv
  <2>5. CASE marker < upd[a] /\ upd[a] < cursor
    BY <1>1, <2>1, <2>5 DEF Unread, Held, Rev
  <2> QED BY <2>1, <2>3, <2>4, <2>5 DEF TypeOK, Clock, Page
<1>3. FileInv'
  BY <1>1 DEF FileInv, Whole
<1>4. ClockInv'
  BY <1>1 DEF ClockInv
<1>5. DurableInv'
  BY <1>1 DEF DurableInv, DurableMarker, Feed, Kept, Whole, Rev
<1>6. MarkerInv'
  BY <1>1, <1>2 DEF MarkerInv, Feed
<1>7. MemoryInv'
  BY <1>1 DEF MemoryInv, Loaded, Whole, Fused
<1>8. PagesInv' /\ EmitInv'
  BY <1>1 DEF PagesInv, EmitInv, Emitting
<1> QED BY <1>3, <1>4, <1>5, <1>6, <1>7, <1>8

-----------------------------------------------------------------------------
(* The other feeds.                                                        *)
LEMMA IngestSteps ==
  ASSUME TypeOK, IInv,
         \/ IngestLocal \/ GhsaFail \/ OsvSelect \/ IngestRescan
         \/ OsvBatchesDone \/ CatalogSave
         \/ \E S \in SUBSET Packages : OsvBatch(S) \/ OsvBatchFail(S)
  PROVE  IInv'
<1>1. Growth
  <2>1. CASE IngestLocal
    BY <2>1, CollectGrows, SetsAssumption DEF IngestLocal, TypeOK
  <2>2. ASSUME NEW S \in SUBSET Ids, IngestAdvisories(S) PROVE Growth
    BY <2>2, CollectGrows DEF IngestAdvisories, TypeOK
  <2>3. CASE GhsaFail
    <3>1. ASSUME NEW bad, IngestAdvisories({a \in Listing : upd[a] > upd[bad]})
          PROVE  Growth
      BY <2>2, <3>1, SetsAssumption DEF Listing
    <3>2. CASE UNCHANGED <<collected, lost, catalog>>
      BY <3>2, SameRecords
    <3> QED BY <2>3, <3>1, <3>2 DEF GhsaFail
  <2>4. ASSUME NEW S \in SUBSET Packages, OsvBatch(S) PROVE Growth
    <3>1. UNION {Found(p) : p \in S} \in SUBSET Ids
      BY SetsAssumption DEF Found
    <3> QED BY <2>4, <3>1, CollectGrows DEF OsvBatch, TypeOK
  <2>5. CASE IngestRescan
    <3>1. PICK got \in SUBSET Ids : Collect(Records(got, upd))
      BY <2>5, SetsAssumption DEF IngestRescan
    <3> QED BY <3>1, CollectGrows DEF TypeOK
  <2>6. CASE OsvSelect \/ OsvBatchesDone \/ CatalogSave
             \/ \E S \in SUBSET Packages : OsvBatchFail(S)
    <3>1. UNCHANGED <<collected, lost>>
      BY <2>6 DEF OsvSelect, OsvBatchesDone, CatalogSave, OsvBatchFail, memory
    <3> QED BY <3>1, SameRecords
  <2> QED BY <2>1, <2>3, <2>4, <2>5, <2>6
<1>2. /\ Aside
      /\ pc \in {"local", "ghsa", "osvSelect", "osvBatch", "osvSave", "rescan"}
      /\ pc' \in {"ghsa", "osvSelect", "osvBatch", "osvSave", "rescan", "fuse"}
      /\ newest' = newest \/ newest' = marker
      /\ pc' = "ghsa" => newest' = marker
  BY DEF Aside, IngestLocal, GhsaFail, OsvSelect, OsvBatch, OsvBatchFail,
         OsvBatchesDone, CatalogSave, IngestRescan, AfterGhsa, upstream, disk,
         memory
<1>3. FileInv' /\ DurableInv' /\ MarkerInv' /\ MemoryInv' /\ EmitInv'
  BY <1>1, <1>2, FeedStep DEF Loaded, Emitting
<1>4. ClockInv'
  BY <1>2 DEF IInv, ClockInv, Aside
<1>5. PagesInv'
  <2> SUFFICES ASSUME pc' = "ghsa", NEW a \in Feed', marker' < upd'[a],
                      upd'[a] <= newest'
               PROVE  FALSE
    BY <1>2 DEF PagesInv, Aside, TypeOK, Clock
  <2>1. a \in Ids /\ upd[a] \in Clock /\ newest' = marker /\ UNCHANGED upd
    BY <1>2, SetsAssumption DEF Feed, Aside, TypeOK
  <2> QED BY <1>2, <2>1 DEF Aside, TypeOK, Clock
<1> QED BY <1>3, <1>4, <1>5 DEF IInv

-----------------------------------------------------------------------------
(* Upstream, and the start of a run.                                       *)
LEMMA PublishStep ==
  ASSUME TypeOK, IInv, NEW i \in Ids, Publish(i)
  PROVE  IInv'
<1> USE DEF IInv
<1>1. /\ UNCHANGED <<files, index, stateFile, pc, marker, newest, cursor,
                     queue, cur, collected, emitted, lost>>
      /\ clock' = clock + 1 /\ upd' = [upd EXCEPT ![i] = clock + 1]
      /\ clock \in Nat
  BY DEF Publish, disk, memory, TypeOK, Clock
<1>2. upd'[i] = clock + 1 /\ \A a \in Ids \ {i} : upd'[a] = upd[a]
  BY <1>1 DEF TypeOK
<1>3. \A a \in Ids : upd'[a] <= clock => a # i /\ upd'[a] = upd[a]
  BY <1>1, <1>2
<1>4. \A a \in Feed' : upd'[a] <= clock =>
        /\ a \in Feed /\ a \in Ids /\ upd'[a] = upd[a]
        /\ Held(a) => Held(a)'
        /\ Kept(a) => Kept(a)'
  BY <1>1, <1>3, SetsAssumption DEF Feed, Held, Kept, Whole, Rev, Fused
<1>5. marker \in Nat /\ newest \in Nat /\ stateFile.ghsa \in Nat
      /\ \A a \in Feed' : upd'[a] \in Nat
  BY <1>1, <1>2, SetsAssumption DEF TypeOK, Clock, Feed
<1>6. FileInv'
  BY <1>1 DEF FileInv, Whole
<1>7. ClockInv'
  BY <1>1, <1>2, <1>5 DEF ClockInv, TypeOK, Clock
<1>8. DurableInv'
  <2> SUFFICES ASSUME NEW a \in Feed', upd'[a] <= DurableMarker
               PROVE  Kept(a)' /\ (Canon[a] \in index \/ Rev(a)' \in lost)
    BY <1>1 DEF DurableInv, DurableMarker
  <2>1. upd'[a] <= clock
    BY <1>1, <1>5 DEF DurableMarker, ClockInv
  <2> QED BY <1>4, <2>1 DEF DurableInv, Rev
<1>9. MarkerInv'
  <2>1. ASSUME Loaded, NEW a \in Feed', upd'[a] <= marker PROVE Held(a)'
    BY <1>1, <1>4, <1>5, <2>1 DEF MarkerInv, ClockInv
  <2> QED BY <1>1, <2>1 DEF MarkerInv, Loaded, DurableMarker
<1>10. MemoryInv' /\ EmitInv'
  BY <1>1 DEF MemoryInv, EmitInv, Loaded, Emitting, Whole, Fused
<1>11. PagesInv'
  <2>1. ASSUME pc = "ghsa", NEW a \in Feed', marker < upd'[a],
               cursor <= upd'[a], upd'[a] <= newest
        PROVE  Held(a)'
    BY <1>1, <1>4, <1>5, <2>1 DEF PagesInv, ClockInv
  <2> QED BY <1>1, <2>1 DEF PagesInv
<1> QED BY <1>6, <1>7, <1>8, <1>9, <1>10, <1>11

LEMMA StartStep ==
  ASSUME TypeOK, IInv, NEW r, NEW o, Start(r, o)
  PROVE  IInv'
<1> USE DEF IInv
<1>1. /\ UNCHANGED <<clock, upd, files, index, stateFile, newest, queue, cur,
                     collected, lost>>
      /\ pc = "idle" /\ pc' = "preload"
      /\ marker' = 0 \/ (marker' = stateFile.ghsa /\ ~stateFile.torn)
  BY DEF Start, upstream, disk
<1>2. FileInv'
  BY <1>1 DEF FileInv, Whole
<1>3. ClockInv'
  BY <1>1 DEF ClockInv, TypeOK, Clock
<1>4. DurableInv'
  BY <1>1 DEF DurableInv, DurableMarker, Feed, Kept, Whole, Rev
<1>5. MarkerInv'
  BY <1>1 DEF MarkerInv, DurableMarker, Loaded, TypeOK, Clock
<1>6. MemoryInv' /\ PagesInv' /\ EmitInv'
  BY <1>1 DEF MemoryInv, PagesInv, EmitInv, Loaded, Emitting
<1> QED BY <1>2, <1>3, <1>4, <1>5, <1>6

LEMMA PreloadStep ==
  ASSUME TypeOK, IInv, Preload
  PROVE  IInv'
<1> USE DEF IInv
<1>1. /\ UNCHANGED <<clock, upd, files, index, stateFile, newest, queue, cur,
                     marker>>
      /\ pc = "preload" /\ pc' = "local" /\ cur = {}
      /\ lost \subseteq lost'
  BY DEF Preload, upstream, disk, FileInv
<1>2. \A c \in Ids : files[c].st = "ok" => files[c].parts \subseteq Fused(c)' \cup lost'
  <2> SUFFICES ASSUME NEW c \in Ids, files[c].st = "ok"
               PROVE  files[c].parts \subseteq Fused(c)' \cup lost'
    OBVIOUS
  <2>1. CASE reset
    BY <2>1 DEF Preload
  <2>2. CASE ~reset
    <3>1. Canon[c] = c
      BY DEF FileInv
    <3>2. collected'[c] = files[c].parts
      BY <2>2 DEF Preload
    <3> QED BY <3>1, <3>2 DEF Fused
  <2> QED BY <2>1, <2>2
<1>3. \A a \in Feed : upd[a] <= marker => Held(a)'
  <2> SUFFICES ASSUME NEW a \in Feed, upd[a] <= marker PROVE Held(a)'
    OBVIOUS
  <2>1. a \in Ids /\ Canon[a] \in Ids /\ upd[a] \in Nat
    BY SetsAssumption, CanonAssumption DEF Feed, TypeOK, Clock
  <2>2. upd[a] <= DurableMarker
    BY <1>1, <2>1 DEF MarkerInv, DurableMarker, TypeOK, Clock
  <2>3. Kept(a)
    BY <2>2 DEF DurableInv
  <2> QED BY <1>1, <1>2, <2>1, <2>3 DEF Kept, Whole, Held, Rev
<1>4. FileInv'
  BY <1>1 DEF FileInv, Whole
<1>5. ClockInv'
  BY <1>1 DEF ClockInv
<1>6. DurableInv'
  BY <1>1 DEF DurableInv, DurableMarker, Feed, Kept, Whole, Rev
<1>7. MarkerInv'
  BY <1>1, <1>3 DEF MarkerInv, Feed
<1>8. MemoryInv'
  BY <1>1, <1>2 DEF MemoryInv, Whole
<1>9. PagesInv' /\ EmitInv'
  BY <1>1 DEF PagesInv, EmitInv, Emitting
<1> QED BY <1>4, <1>5, <1>6, <1>7, <1>8, <1>9

-----------------------------------------------------------------------------
(* Emission, index and checkpoint.                                         *)

\* The steps that leave memory, lost and the checkpoint file as they are.
SameMemory == UNCHANGED <<clock, upd, stateFile, marker, newest, collected>>

LEMMA SameMemoryHolds ==
  ASSUME TypeOK, IInv, SameMemory, Loaded, Loaded', lost \subseteq lost', pc' # "ghsa"
  PROVE  ClockInv' /\ MarkerInv' /\ PagesInv'
<1> USE DEF IInv, SameMemory
<1>1. \A a \in Feed' : upd'[a] <= marker' => Held(a)'
  BY DEF MarkerInv, Held, Rev, Fused, Feed
<1> QED BY <1>1 DEF ClockInv, MarkerInv, PagesInv, Loaded

LEMMA FuseStep ==
  ASSUME TypeOK, IInv, Fuse
  PROVE  IInv'
<1> USE DEF IInv
<1>1. /\ UNCHANGED <<clock, upd, stateFile, marker, newest, collected, lost,
                     files, index, cur, emitted>>
      /\ pc = "fuse" /\ pc' = "emit" /\ cur = {}
      /\ queue' = {c \in Ids : Fused(c) # {}}
  BY DEF Fuse, upstream, disk, FileInv
<1>2. \A c \in Ids : Fused(c) # {} => Canon[c] = c
  BY CanonAssumption DEF Fused
<1>3. FileInv'
  BY <1>1, <1>2 DEF FileInv, Whole
<1>4. ClockInv' /\ MarkerInv' /\ PagesInv'
  BY <1>1, SameMemoryHolds DEF SameMemory, Loaded
<1>5. DurableInv'
  BY <1>1 DEF DurableInv, DurableMarker, Feed, Kept, Whole, Rev
<1>6. MemoryInv'
  BY <1>1 DEF MemoryInv, Loaded, Whole, Fused
<1>7. EmitInv'
  BY <1>1 DEF EmitInv, Fused
<1> QED BY <1>3, <1>4, <1>5, <1>6, <1>7

LEMMA OpenStep ==
  ASSUME TypeOK, IInv, NEW o \in Ids, OpenAdvisory(o)
  PROVE  IInv'
<1> USE DEF IInv
<1>1. /\ UNCHANGED <<clock, upd, stateFile, marker, newest, collected, lost,
                     index, queue, emitted>>
      /\ pc = "emit" /\ pc' = "write" /\ cur = {} /\ cur' = {o} /\ o \in queue
      /\ files' = [files EXCEPT ![o].st = "torn"]
  BY DEF OpenAdvisory, upstream, FileInv
<1>2. /\ \A c \in Ids : files'[c].parts = files[c].parts
      /\ \A c \in Ids \ {o} : files'[c] = files[c]
      /\ files'[o].st = "torn"
  BY <1>1 DEF TypeOK, FileType
<1>3. FileInv'
  BY <1>1, <1>2 DEF FileInv, Whole
<1>4. ClockInv' /\ MarkerInv' /\ PagesInv'
  BY <1>1, SameMemoryHolds DEF SameMemory, Loaded
<1>5. \A c \in Ids : Whole(c) => Whole(c)' /\ files'[c].parts = files[c].parts
  BY <1>1, <1>2 DEF Whole
<1>6. DurableInv'
  <2>1. \A a \in Feed : Canon[a] \in Ids
    BY SetsAssumption, CanonAssumption DEF Feed
  <2> QED BY <1>1, <1>5, <2>1 DEF DurableInv, DurableMarker, Feed, Kept, Rev
<1>7. MemoryInv'
  <2>1. ASSUME NEW c \in Ids, Whole(c)'
        PROVE  files'[c].parts \subseteq Fused(c)' \cup lost'
    <3>1. CASE Whole(c)
      BY <1>1, <1>2, <3>1 DEF MemoryInv, Loaded, Fused
    <3>2. CASE ~Whole(c)
      BY <1>1, <1>2, <3>2 DEF FileInv
    <3> QED BY <3>1, <3>2
  <2> QED BY <2>1 DEF MemoryInv
<1>8. EmitInv'
  BY <1>1, <1>2 DEF EmitInv, Emitting, Fused
<1> QED BY <1>3, <1>4, <1>6, <1>7, <1>8

LEMMA WriteStep ==
  ASSUME TypeOK, IInv, WriteAdvisory
  PROVE  IInv'
<1> USE DEF IInv
<1>1. /\ UNCHANGED <<clock, upd, stateFile, marker, newest, collected, lost, index>>
      /\ pc = "write" /\ pc' = "emit" /\ cur' = {} /\ cur \subseteq queue
      /\ queue' = queue \ cur /\ emitted' = emitted \cup cur
  BY DEF WriteAdvisory, upstream, FileInv
<1>2. \A c \in Ids :
        /\ c \in cur => files'[c].st = "ok" /\ files'[c].parts = Fused(c)
                        /\ files'[c] = [st |-> "ok", parts |-> Fused(c)]
        /\ c \notin cur => files'[c] = files[c]
  BY DEF WriteAdvisory
<1>3. /\ \A c \in Ids : Whole(c) => Whole(c)'
      /\ \A c \in Ids : ~Whole(c)' => ~Whole(c) /\ files'[c] = files[c]
  BY <1>1, <1>2 DEF Whole
<1>4. FileInv'
  BY <1>1, <1>2, <1>3 DEF FileInv, TypeOK
<1>5. ClockInv' /\ MarkerInv' /\ PagesInv'
  BY <1>1, SameMemoryHolds DEF SameMemory, Loaded
<1>6. \A c \in Ids : Whole(c) => files[c].parts \subseteq files'[c].parts \cup lost
  BY <1>1, <1>2 DEF MemoryInv, Loaded
<1>7. DurableInv'
  <2>1. \A a \in Feed : Canon[a] \in Ids
    BY SetsAssumption, CanonAssumption DEF Feed
  <2> QED BY <1>1, <1>3, <1>6, <2>1 DEF DurableInv, DurableMarker, Feed, Kept, Rev
<1>8. MemoryInv'
  <2>1. \A c \in Ids : Fused(c)' = Fused(c)
    BY <1>1 DEF Fused
  <2>2. \A c \in Ids : Whole(c)' => c \in cur \/ Whole(c)
    BY <1>1, <1>2 DEF Whole
  <2> QED BY <1>1, <1>2, <2>1, <2>2 DEF MemoryInv, Loaded
<1>9. EmitInv'
  BY <1>1, <1>2 DEF EmitInv, Emitting, Fused
<1> QED BY <1>4, <1>5, <1>7, <1>8, <1>9

LEMMA RejectStep ==
  ASSUME TypeOK, IInv, NEW o \in Ids, RejectAdvisory(o)
  PROVE  IInv'
<1> USE DEF IInv
<1>1. /\ UNCHANGED <<clock, upd, files, stateFile, marker, newest, collected,
                     index, cur, emitted>>
      /\ pc = "emit" /\ pc' = "emit" /\ cur = {}
      /\ queue' = queue \ {o} /\ lost' = lost \cup Fused(o)
  BY DEF RejectAdvisory, upstream, disk, FileInv
<1>2. FileInv'
  BY <1>1 DEF FileInv, Whole
<1>3. ClockInv' /\ MarkerInv' /\ PagesInv'
  BY <1>1, SameMemoryHolds DEF SameMemory, Loaded
<1>4. DurableInv'
  BY <1>1 DEF DurableInv, DurableMarker, Feed, Kept, Whole, Rev
<1>5. MemoryInv'
  BY <1>1 DEF MemoryInv, Loaded, Whole, Fused
<1>6. EmitInv'
  BY <1>1 DEF EmitInv, Emitting, Fused
<1> QED BY <1>2, <1>3, <1>4, <1>5, <1>6

LEMMA SaveSteps ==
  ASSUME TypeOK, IInv, EmitDone \/ WriteIndex \/ OpenState
  PROVE  IInv'
<1> USE DEF IInv
<1>1. /\ UNCHANGED <<clock, upd, files, marker, newest, collected, lost, queue,
                     cur, emitted>>
      /\ Emitting /\ Emitting' /\ Loaded /\ Loaded' /\ pc # "write"
      /\ stateFile'.ghsa = stateFile.ghsa
      /\ DurableMarker' = DurableMarker \/ DurableMarker' = 0
  BY DEF EmitDone, WriteIndex, OpenState, upstream, disk, memory, Emitting,
         Loaded, TypeOK, DurableMarker
<1>2. FileInv'
  BY <1>1 DEF FileInv, Whole, Emitting
<1>3. ClockInv' /\ MarkerInv' /\ PagesInv'
  BY <1>1 DEF ClockInv, MarkerInv, PagesInv, Loaded, Emitting, Held, Rev, Fused, Feed
<1>4. \A a \in Feed : upd[a] <= DurableMarker =>
        Kept(a) /\ (Canon[a] \in index' \/ Rev(a) \in lost)
  <2>1. CASE UNCHANGED index
    BY <2>1 DEF DurableInv
  <2>2. CASE WriteIndex
    <3> SUFFICES ASSUME NEW a \in Feed, upd[a] <= DurableMarker, Rev(a) \notin lost
                 PROVE  Canon[a] \in emitted
      BY <2>2 DEF WriteIndex, DurableInv
    <3>1. Canon[a] \in Ids
      BY SetsAssumption, CanonAssumption DEF Feed
    <3>2. Whole(Canon[a]) /\ Rev(a) \in files[Canon[a]].parts
      BY DEF DurableInv, Kept
    <3>3. Rev(a) \in Fused(Canon[a])
      BY <1>1, <3>1, <3>2 DEF MemoryInv
    <3>4. queue = {} /\ Emitting
      BY <1>1, <2>2 DEF WriteIndex, EmitInv
    <3> QED BY <3>1, <3>3, <3>4 DEF EmitInv
  <2> QED BY <2>1, <2>2 DEF EmitDone, OpenState, disk
<1>5. DurableInv'
  <2>1. ASSUME NEW a \in Feed', upd[a] <= DurableMarker'
        PROVE  a \in Feed /\ upd[a] <= DurableMarker
    BY <1>1, <2>1, SetsAssumption DEF Feed, TypeOK, Clock
  <2> QED BY <1>1, <1>4, <2>1 DEF DurableInv, Kept, Whole, Rev
<1>6. MemoryInv'
  BY <1>1 DEF MemoryInv, Whole, Fused
<1>7. EmitInv'
  BY <1>1 DEF EmitInv, Emitting, Fused, EmitDone, WriteIndex, OpenState, disk
<1> QED BY <1>2, <1>3, <1>5, <1>6, <1>7

LEMMA CheckpointStep ==
  ASSUME TypeOK, IInv, WriteState
  PROVE  IInv'
<1> USE DEF IInv
<1>1. /\ UNCHANGED <<clock, upd, files, index, lost>>
      /\ pc = "saveWrite" /\ pc' = "idle" /\ cur = {} /\ cur' = {} /\ queue' = {}
      /\ stateFile' = [torn |-> FALSE, ghsa |-> marker]
      /\ marker' = 0 /\ newest' = 0
  BY DEF WriteState, Blank, upstream, FileInv
<1>2. FileInv'
  BY <1>1 DEF FileInv, Whole
<1>3. ClockInv'
  BY <1>1 DEF ClockInv, TypeOK, Clock
<1>4. \A a \in Feed : upd[a] <= marker =>
        Kept(a) /\ (Canon[a] \in index \/ Rev(a) \in lost)
  <2> SUFFICES ASSUME NEW a \in Feed, upd[a] <= marker, Rev(a) \notin lost
               PROVE  Kept(a) /\ Canon[a] \in index
    BY DEF Kept
  <2>1. Canon[a] \in Ids
    BY SetsAssumption, CanonAssumption DEF Feed
  <2>2. Rev(a) \in Fused(Canon[a])
    BY <1>1 DEF MarkerInv, Loaded, Held
  <2>3. /\ Canon[a] \in emitted
        /\ files[Canon[a]] = [st |-> "ok", parts |-> Fused(Canon[a])]
    BY <1>1, <2>1, <2>2 DEF EmitInv, Emitting
  <2> QED BY <1>1, <2>2, <2>3 DEF EmitInv, Kept, Whole
<1>5. DurableInv'
  BY <1>1, <1>4 DEF DurableInv, DurableMarker, Feed, Kept, Whole, Rev
<1>6. MarkerInv' /\ MemoryInv' /\ PagesInv' /\ EmitInv'
  BY <1>1 DEF MarkerInv, MemoryInv, PagesInv, EmitInv, Loaded, Emitting
<1> QED BY <1>2, <1>3, <1>5, <1>6

LEMMA CrashStep ==
  ASSUME TypeOK, IInv, Crash
  PROVE  IInv'
<1> USE DEF IInv
<1>1. /\ UNCHANGED <<clock, upd, files, index, stateFile>>
      /\ pc' = "idle" /\ cur' = {} /\ queue' = {}
      /\ lost' = lost \cup UNION {files[c].parts : c \in cur}
      /\ marker' = 0 /\ newest' = 0
  BY DEF Crash, Blank, upstream, disk
<1>2. \A c \in Ids : ~Whole(c)' => files[c].parts \subseteq lost'
  BY <1>1 DEF FileInv, Whole
<1>3. FileInv'
  BY <1>1, <1>2 DEF FileInv
<1>4. ClockInv'
  BY <1>1 DEF ClockInv, TypeOK, Clock
<1>5. DurableInv'
  <2>1. \A a \in Feed : Canon[a] \in Ids
    BY SetsAssumption, CanonAssumption DEF Feed
  <2>2. \A a \in Feed : Kept(a) => Kept(a)'
    BY <1>1, <1>2, <2>1 DEF Kept, Rev, Feed
  <2> QED BY <1>1, <2>2 DEF DurableInv, DurableMarker, Feed, Rev
<1>6. MarkerInv' /\ MemoryInv' /\ PagesInv' /\ EmitInv'
  BY <1>1 DEF MarkerInv, MemoryInv, PagesInv, EmitInv, Loaded, Emitting
<1> QED BY <1>3, <1>4, <1>5, <1>6

LEMMA QuietStep ==
  ASSUME TypeOK, IInv, (\E i \in Ids : Mirror(i)) \/ UNCHANGED vars
  PROVE  IInv'
<1> USE DEF IInv
<1>1. UNCHANGED <<clock, upd, files, index, stateFile, pc, collected, marker,
                  newest, cursor, queue, cur, emitted, lost>>
  BY DEF Mirror, vars, upstream, disk, memory
<1>2. FileInv' /\ ClockInv'
  BY <1>1 DEF FileInv, ClockInv, Whole
<1>3. DurableInv'
  BY <1>1 DEF DurableInv, DurableMarker, Feed, Kept, Whole, Rev
<1>4. MarkerInv' /\ PagesInv'
  BY <1>1 DEF MarkerInv, PagesInv, DurableMarker, Loaded, Feed, Held, Rev, Fused
<1>5. MemoryInv' /\ EmitInv'
  BY <1>1 DEF MemoryInv, EmitInv, Loaded, Emitting, Whole, Fused
<1> QED BY <1>2, <1>3, <1>4, <1>5

-----------------------------------------------------------------------------
LEMMA InitIInv == Init => IInv
<1> SUFFICES ASSUME Init PROVE IInv
  OBVIOUS
<1>1. FileInv /\ ClockInv
  BY SetsAssumption DEF Init, FileInv, ClockInv, Whole, Absent
<1>2. Feed = {}
  BY SetsAssumption DEF Init, Feed
<1> QED
  BY <1>1, <1>2 DEF Init, IInv, DurableInv, MarkerInv, MemoryInv, PagesInv,
                    EmitInv, Loaded, Emitting

(* The inductive invariant: what the saved checkpoint covers is on disk and *)
(* indexed, what the run's checkpoint covers is in memory, and every record *)
(* between the two is still to be written, written whole, or let go.        *)
THEOREM Inductive == Spec => []IInv
<1>1. TypeOK /\ IInv /\ [Next]_vars => IInv'
  <2> SUFFICES ASSUME TypeOK, IInv, [Next]_vars PROVE IInv'
    OBVIOUS
  <2>1. ASSUME NEW S \in SUBSET Packages, OsvBatch(S) \/ OsvBatchFail(S)
        PROVE  IInv'
    BY <2>1, IngestSteps
  <2> QED
    BY <2>1, PublishStep, QuietStep, StartStep, PreloadStep, PageStep, DoneStep,
       IngestSteps, FuseStep, OpenStep, WriteStep, RejectStep, SaveSteps,
       CheckpointStep, CrashStep DEF Next, Run
<1> QED BY <1>1, InitIInv, TypeCorrect, PTL DEF Spec

(* No interleaving of publications, feeds, faults and crashes lets the      *)
(* saved GHSA checkpoint skip a revision that is neither in its advisory    *)
(* file nor among those a run knowingly let go.                             *)
THEOREM CheckpointSafe == Spec => []CheckpointAccounted
<1>1. TypeOK /\ IInv => CheckpointAccounted
  <2> SUFFICES ASSUME TypeOK, IInv, pc = "idle", NEW a \in Checkpointed,
                      Rev(a) \notin lost
               PROVE  OnDisk(a)
    BY DEF CheckpointAccounted, Rev
  <2>1. a \in Feed /\ upd[a] <= DurableMarker
    BY SetsAssumption DEF Checkpointed, Feed, TypeOK, Clock, DurableMarker
  <2>2. Kept(a) /\ cur = {}
    BY <2>1 DEF IInv, DurableInv, FileInv
  <2> QED BY <2>2 DEF Kept, Whole, OnDisk, Rev
<1> QED BY <1>1, Inductive, TypeCorrect, PTL

(* Nor does it let the checkpoint run ahead of index.json.                  *)
THEOREM IndexSafe == Spec => []CheckpointIndexed
<1>1. TypeOK /\ IInv => CheckpointIndexed
  <2> SUFFICES ASSUME TypeOK, IInv, NEW a \in Checkpointed
               PROVE  Canon[a] \in index \/ Rev(a) \in lost
    BY DEF CheckpointIndexed, Rev
  <2>1. a \in Feed /\ upd[a] <= DurableMarker
    BY SetsAssumption DEF Checkpointed, Feed, TypeOK, Clock, DurableMarker
  <2> QED BY <2>1 DEF IInv, DurableInv
<1> QED BY <1>1, Inductive, TypeCorrect, PTL
-----------------------------------------------------------------------------
(* Audits and the checkpoint.                                              *)

\* A sync that consults the catalog and saves it in every run.
AlwaysAudits == OsvChoices \subseteq {TRUE} /\ ~SaveFaults

\* The audit that cat remembers of a's packages is not older than a.
Audited(cat, a) ==
  \A p \in Affects[a] : cat[p].at > 0 => cat[p].at >= upd[a] \/ Rev(a) \in lost
AuditedUpTo(cat, m) == \A a \in Feed : upd[a] <= m => Audited(cat, a)

\* What a checkpoint covers is audited, in the catalog saved beside it and in
\* the one the run holds; the pages read so far are marked stale in the latter.
AuditInv ==
  /\ AuditedUpTo(catFile, DurableMarker)
  /\ pc # "idle" => /\ osv
                    /\ AuditedUpTo(catalog, DurableMarker)
                    /\ AuditedUpTo(catalog, marker)
  /\ pc = "ghsa" =>
       \A a \in Feed : marker < upd[a] /\ cursor <= upd[a] /\ upd[a] <= newest
                         => Audited(catalog, a)
  /\ pc \in {"rescan", "fuse"} \/ Emitting => AuditedUpTo(catFile, marker)

LEMMA FeedType ==
  ASSUME TypeOK, IInv, NEW a \in Feed
  PROVE  /\ a \in Ids /\ a \in Ghsa \cap Relevant /\ Affects[a] \subseteq Packages
         /\ upd[a] \in Nat /\ 0 < upd[a] /\ upd[a] <= clock
         /\ Canon[a] \in Ids
BY SetsAssumption, CanonAssumption DEF Feed, TypeOK, Clock, IInv, ClockInv

\* A step after which no audit is newer than it was, but for those made now.
Calm == /\ UNCHANGED <<clock, upd, stateFile, catFile, marker, osv>>
        /\ lost \subseteq lost'
        /\ \A p \in Packages : catalog'[p].at > 0 =>
             catalog'[p].at = catalog[p].at \/ catalog'[p].at = clock

LEMMA CalmAudited ==
  ASSUME TypeOK, IInv, Calm
  PROVE  \A a \in Feed : /\ Audited(catalog, a) => Audited(catalog, a)'
                         /\ Audited(catFile, a) => Audited(catFile, a)'
<1> SUFFICES ASSUME NEW a \in Feed
             PROVE  /\ Audited(catalog, a) => Audited(catalog, a)'
                    /\ Audited(catFile, a) => Audited(catFile, a)'
  OBVIOUS
<1>1. Affects[a] \subseteq Packages /\ upd[a] <= clock
  BY FeedType
<1> QED BY <1>1 DEF Calm, Audited, Rev

LEMMA CalmStep ==
  ASSUME TypeOK, IInv, AuditInv, Calm, pc # "idle", pc' # "idle",
         pc' \in {"rescan", "fuse"} \/ Emitting' =>
           pc \in {"rescan", "fuse"} \/ Emitting,
         pc' = "ghsa" => newest' = marker
  PROVE  AuditInv'
<1>1. \A a \in Feed : /\ Audited(catalog, a) => Audited(catalog, a)'
                      /\ Audited(catFile, a) => Audited(catFile, a)'
  BY CalmAudited
<1>2. Feed' = Feed /\ DurableMarker' = DurableMarker
      /\ \A a \in Feed : upd'[a] = upd[a]
  BY DEF Calm, Feed, DurableMarker
<1>3. /\ AuditedUpTo(catFile, DurableMarker)'
      /\ AuditedUpTo(catalog, DurableMarker)'
      /\ AuditedUpTo(catalog, marker)'
  BY <1>1, <1>2 DEF AuditInv, AuditedUpTo, Calm
<1>4. pc' \in {"rescan", "fuse"} \/ Emitting' => AuditedUpTo(catFile, marker)'
  BY <1>1, <1>2 DEF AuditInv, AuditedUpTo, Calm
<1>5. ASSUME pc' = "ghsa", NEW a \in Feed', marker' < upd'[a], upd'[a] <= newest'
      PROVE  FALSE
  BY <1>5, <1>2, FeedType DEF Calm, TypeOK, Clock
<1> QED BY <1>3, <1>4, <1>5 DEF AuditInv, Calm

LEMMA CalmSteps ==
  ASSUME TypeOK, IInv, AuditInv,
         \/ Preload \/ IngestLocal \/ GhsaFail \/ OsvSelect \/ OsvBatchesDone
         \/ \E S \in SUBSET Packages : OsvBatch(S) \/ OsvBatchFail(S)
         \/ IngestRescan \/ Fuse \/ WriteAdvisory \/ EmitDone \/ WriteIndex
         \/ \E c \in Ids : OpenAdvisory(c) \/ RejectAdvisory(c)
  PROVE  AuditInv'
<1>1. CASE Preload
  BY <1>1, CalmStep DEF Preload, Calm, upstream, disk, control, Emitting
<1>2. CASE IngestLocal
  BY <1>2, CalmStep DEF IngestLocal, Collect, Calm, upstream, disk, control, Emitting
<1>3. ASSUME NEW S, NEW p \in Packages, MarkStale(S)[p].at > 0
      PROVE  MarkStale(S)[p].at = catalog[p].at
  BY <1>3 DEF MarkStale, TypeOK, CatalogType
<1>4. CASE GhsaFail
  <2>1. ASSUME NEW S, IngestAdvisories(S)
        PROVE  /\ lost \subseteq lost'
               /\ \A p \in Packages : catalog'[p].at > 0 =>
                                        catalog'[p].at = catalog[p].at
    BY <1>3, <2>1 DEF IngestAdvisories, Collect
  <2>2. /\ lost \subseteq lost'
        /\ \A p \in Packages : catalog'[p].at > 0 =>
                                 catalog'[p].at = catalog[p].at
    <3>1. CASE UNCHANGED <<collected, lost, catalog>>
      BY <3>1
    <3> QED BY <1>4, <2>1, <3>1 DEF GhsaFail
  <2>3. Calm
    BY <1>4, <2>2 DEF GhsaFail, Calm, upstream, disk, control
  <2>4. pc = "ghsa" /\ pc' = "osvSelect"
    BY <1>4 DEF GhsaFail, AfterGhsa, AuditInv
  <2> QED BY <2>3, <2>4, CalmStep DEF Emitting
<1>5. CASE OsvSelect
  <2>1. \A p \in Packages : catalog'[p] = NoRecord \/ catalog'[p] = catalog[p]
    BY <1>5 DEF OsvSelect
  <2>2. Calm
    BY <1>5, <2>1 DEF OsvSelect, Calm, NoRecord, upstream, control
  <2> QED BY <1>5, <2>2, CalmStep DEF OsvSelect, Emitting
<1>6. ASSUME NEW S \in SUBSET Packages, OsvBatch(S) \/ OsvBatchFail(S)
      PROVE  AuditInv'
  <2>1. Calm
    BY <1>6 DEF OsvBatch, OsvBatchFail, Collect, Calm, upstream, disk, control
  <2> QED BY <1>6, <2>1, CalmStep DEF OsvBatch, OsvBatchFail, Emitting
<1>7. CASE OsvBatchesDone
  BY <1>7, CalmStep DEF OsvBatchesDone, Calm, upstream, disk, memory, control, Emitting
<1>8. CASE IngestRescan
  <2>1. Calm
    BY <1>8 DEF IngestRescan, Collect, Calm, upstream, disk, control
  <2> QED BY <1>8, <2>1, CalmStep DEF IngestRescan, Emitting
<1>9. CASE Fuse
  BY <1>9, CalmStep DEF Fuse, Calm, upstream, disk, control, Emitting
<1>10. CASE WriteAdvisory \/ EmitDone \/ WriteIndex
  BY <1>10, CalmStep DEF WriteAdvisory, EmitDone, WriteIndex, Calm, upstream,
                         disk, memory, control, Emitting
<1>11. ASSUME NEW c \in Ids, OpenAdvisory(c) \/ RejectAdvisory(c)
       PROVE  AuditInv'
  BY <1>11, CalmStep DEF OpenAdvisory, RejectAdvisory, Calm, upstream, disk,
                         control, Emitting
<1> QED BY <1>1, <1>2, <1>4, <1>5, <1>6, <1>7, <1>8, <1>9, <1>10, <1>11

LEMMA PageAudit ==
  ASSUME TypeOK, IInv, AuditInv, GhsaPage
  PROVE  AuditInv'
<1> DEFINE page == Newest(PageSize)
           new  == page \cap Relevant
<1>1. /\ pc = "ghsa" /\ pc' = "ghsa" /\ catalog' = MarkStale(new)
      /\ UNCHANGED <<clock, upd, stateFile, catFile, marker, osv>>
      /\ lost \subseteq lost'
  BY DEF GhsaPage, IngestAdvisories, Collect, upstream, disk, control
<1>2. \A p \in Packages : catalog'[p].at > 0 => /\ catalog'[p].at = catalog[p].at
                                                /\ \A a \in new : p \notin Affects[a]
  BY <1>1 DEF MarkStale, TypeOK, CatalogType
<1>3. Calm
  BY <1>1, <1>2 DEF Calm
<1>4. \A a \in Feed : /\ Audited(catalog, a) => Audited(catalog, a)'
                      /\ Audited(catFile, a) => Audited(catFile, a)'
  BY <1>3, CalmAudited
<1>5. Feed' = Feed /\ DurableMarker' = DurableMarker
      /\ \A a \in Feed : upd'[a] = upd[a]
  BY <1>1 DEF Feed, DurableMarker
<1>6. PICK m \in Clock : /\ m = newest \/ \E b \in page : upd[b] = m
                         /\ newest <= m /\ newest' = m
  BY DEF GhsaPage
<1>7. ASSUME NEW a \in Feed, marker < upd[a], cursor' <= upd[a],
             upd[a] <= newest'
      PROVE  Audited(catalog, a)'
  <2>1. a \in Ids /\ upd[a] \in Clock /\ Affects[a] \subseteq Packages
        /\ a \in Ghsa \cap Relevant /\ upd[a] > 0
    BY FeedType DEF TypeOK
  <2>2. CASE cursor <= upd[a]
    <3>1. \A b \in page : upd[b] < cursor /\ upd[b] \in Clock
      BY SetsAssumption DEF Newest, Listing, TypeOK
    <3>2. upd[a] <= newest
      BY <1>6, <1>7, <2>1, <2>2, <3>1 DEF TypeOK, Clock, Page
    <3> QED BY <1>1, <1>4, <1>7, <2>2, <3>2 DEF AuditInv
  <2>3. CASE ~ (cursor <= upd[a])
    <3>1. a \in Listing
      BY <1>7, <2>1, <2>3 DEF Listing, TypeOK, Clock, Page
    <3>2. a \in page
      <4>1. CASE Listing = page
        BY <3>1, <4>1
      <4>2. CASE \E last \in page : cursor' = upd[last]
        BY <1>7, <3>1, <4>2, NewestClosed, BoundAssumption
      <4> QED BY <4>1, <4>2 DEF GhsaPage
    <3> QED BY <1>2, <2>1, <3>2 DEF Audited
  <2> QED BY <2>2, <2>3
<1> QED BY <1>1, <1>4, <1>5, <1>7 DEF AuditInv, AuditedUpTo, Emitting

LEMMA DoneAudit ==
  ASSUME TypeOK, IInv, AuditInv, GhsaDone
  PROVE  AuditInv'
<1>1. /\ pc = "ghsa" /\ pc' = "osvSelect" /\ marker' = newest
      /\ lost' = lost \cup Unread
      /\ UNCHANGED <<clock, upd, stateFile, catFile, catalog, osv>>
  BY DEF GhsaDone, AfterGhsa, upstream, disk, control, AuditInv
<1>2. \A a \in Feed : Audited(catalog, a) => Audited(catalog, a)'
  BY <1>1 DEF Audited, Rev
<1>3. \A a \in Feed : Audited(catFile, a) => Audited(catFile, a)'
  BY <1>1 DEF Audited, Rev
<1>4. \A a \in Feed : upd[a] <= newest => Audited(catalog, a)'
  <2> SUFFICES ASSUME NEW a \in Feed, upd[a] <= newest
               PROVE  Audited(catalog, a)'
    OBVIOUS
  <2>1. CASE upd[a] <= marker
    BY <1>1, <1>2, <2>1 DEF AuditInv, AuditedUpTo
  <2>2. CASE marker < upd[a] /\ cursor <= upd[a]
    BY <1>1, <1>2, <2>2 DEF AuditInv
  <2>3. CASE marker < upd[a] /\ upd[a] < cursor
    <3>1. Rev(a) \in lost'
      BY <1>1, <2>3, FeedType DEF Unread, Rev
    <3> QED BY <1>1, <3>1 DEF Audited, Rev
  <2> QED BY <2>1, <2>2, <2>3, FeedType DEF TypeOK, Clock, Page
<1>5. Feed' = Feed /\ DurableMarker' = DurableMarker
      /\ \A a \in Feed : upd'[a] = upd[a]
  BY <1>1 DEF Feed, DurableMarker
<1> QED BY <1>1, <1>2, <1>3, <1>4, <1>5 DEF AuditInv, AuditedUpTo, Emitting

LEMMA SaveAudit ==
  ASSUME AlwaysAudits, TypeOK, IInv, AuditInv,
         CatalogSave \/ OpenState \/ WriteState
  PROVE  AuditInv'
<1>1. /\ UNCHANGED <<clock, upd, lost>> /\ pc # "idle"
      /\ Feed' = Feed /\ \A a \in Feed : upd'[a] = upd[a] /\ 0 < upd[a]
  BY FeedType DEF CatalogSave, OpenState, WriteState, upstream, memory, Feed
<1>2. CASE CatalogSave
  <2>1. /\ catFile' = catalog /\ pc' = "rescan"
        /\ UNCHANGED <<stateFile, catalog, marker, osv>>
    BY <1>2 DEF CatalogSave, AlwaysAudits, memory, control
  <2> QED BY <1>1, <2>1
          DEF AuditInv, AuditedUpTo, Audited, Rev, DurableMarker, Emitting
<1>3. CASE OpenState
  <2>1. /\ pc = "saveOpen" /\ pc' = "saveWrite" /\ DurableMarker' = 0
        /\ UNCHANGED <<catFile, catalog, marker, osv>>
    BY <1>3 DEF OpenState, memory, control, DurableMarker, TypeOK
  <2>2. \A a \in Feed : ~ (upd'[a] <= 0)
    BY <1>1, FeedType
  <2> QED BY <1>1, <2>1, <2>2 DEF AuditInv, AuditedUpTo, Audited, Rev, Emitting
<1>4. CASE WriteState
  <2>1. /\ pc = "saveWrite" /\ pc' = "idle" /\ DurableMarker' = marker
        /\ UNCHANGED catFile
    BY <1>4 DEF WriteState, DurableMarker
  <2> QED BY <1>1, <2>1 DEF AuditInv, AuditedUpTo, Audited, Rev, Emitting
<1> QED BY <1>2, <1>3, <1>4

LEMMA StartAudit ==
  ASSUME AlwaysAudits, TypeOK, IInv, AuditInv,
         \/ \E r, o \in BOOLEAN : Start(r, o)
         \/ Crash \/ UNCHANGED vars \/ \E i \in Ids : Mirror(i)
  PROVE  AuditInv'
<1>1. /\ UNCHANGED <<clock, upd, stateFile, catFile>> /\ lost \subseteq lost'
      /\ Feed' = Feed /\ \A a \in Feed : upd'[a] = upd[a] /\ 0 < upd[a]
      /\ DurableMarker' = DurableMarker
  BY FeedType DEF Start, Crash, Mirror, vars, upstream, disk, Feed, DurableMarker
<1>2. AuditedUpTo(catFile, DurableMarker)'
  BY <1>1 DEF AuditInv, AuditedUpTo, Audited, Rev
<1>3. ASSUME NEW r \in BOOLEAN, NEW o \in BOOLEAN, Start(r, o) PROVE AuditInv'
  <2>1. /\ pc' = "preload" /\ osv'
        /\ catalog' = catFile \/ catalog' = [p \in Packages |-> NoRecord]
        /\ marker' = DurableMarker \/ marker' = 0
    BY <1>3 DEF Start, AlwaysAudits, DurableMarker
  <2>2. \A a \in Feed : Audited(catFile, a) => Audited(catalog, a)'
    <3>1. CASE catalog' = catFile
      BY <1>1, <3>1 DEF Audited, Rev
    <3>2. CASE catalog' = [p \in Packages |-> NoRecord]
      BY <1>1, <3>2, FeedType DEF Audited, NoRecord
    <3> QED BY <2>1, <3>1, <3>2
  <2>3. AuditedUpTo(catalog, DurableMarker)'
    BY <1>1, <2>2 DEF AuditInv, AuditedUpTo
  <2>4. AuditedUpTo(catalog, marker)'
    <3>1. \A a \in Feed : ~ (upd[a] <= 0)
      BY FeedType
    <3> QED BY <1>1, <2>1, <2>2, <3>1 DEF AuditInv, AuditedUpTo
  <2> QED BY <1>2, <2>1, <2>3, <2>4 DEF AuditInv, Emitting
<1>4. CASE Crash
  BY <1>2, <1>4 DEF Crash, AuditInv, Emitting
<1>5. CASE UNCHANGED vars \/ \E i \in Ids : Mirror(i)
  <2>1. UNCHANGED <<pc, osv, catalog, marker, cursor, newest, lost>>
    BY <1>5 DEF vars, Mirror, memory, control
  <2> QED BY <1>1, <1>2, <2>1 DEF AuditInv, AuditedUpTo, Audited, Rev, Emitting
<1> QED BY <1>3, <1>4, <1>5

LEMMA PublishAudit ==
  ASSUME TypeOK, IInv, AuditInv, NEW i \in Ids, Publish(i)
  PROVE  AuditInv'
<1>1. /\ UNCHANGED <<stateFile, catFile, catalog, pc, osv, marker, newest, cursor, lost>>
      /\ upd' = [upd EXCEPT ![i] = clock + 1] /\ clock \in Nat
  BY DEF Publish, disk, memory, control, TypeOK, Clock
<1>2. /\ marker <= clock /\ newest <= clock /\ DurableMarker <= clock
      /\ DurableMarker' = DurableMarker
      /\ marker \in Nat /\ newest \in Nat /\ DurableMarker \in Nat
  BY <1>1 DEF IInv, ClockInv, DurableMarker, TypeOK, Clock
<1>3. \A a \in Feed' : upd'[a] <= clock => a \in Feed /\ a # i /\ upd'[a] = upd[a]
  <2>1. \A a \in Feed' : a \in Ids
    BY SetsAssumption DEF Feed
  <2> QED BY <1>1, <2>1 DEF Feed, TypeOK, Clock
<1>4. \A a \in Feed' : upd'[a] \in Nat
  BY <1>1, SetsAssumption DEF Feed, TypeOK, Clock
<1>5. \A a \in Feed' : upd'[a] <= clock =>
        /\ Audited(catFile, a) => Audited(catFile, a)'
        /\ Audited(catalog, a) => Audited(catalog, a)'
  BY <1>1, <1>3 DEF Audited, Rev
<1>6. \A m \in Nat : m <= clock => \A a \in Feed' : upd'[a] <= m => upd'[a] <= clock
  BY <1>1, <1>4
<1>7. \A m \in Nat : m <= clock =>
        /\ AuditedUpTo(catFile, m) => AuditedUpTo(catFile, m)'
        /\ AuditedUpTo(catalog, m) => AuditedUpTo(catalog, m)'
  BY <1>3, <1>5, <1>6 DEF AuditedUpTo
<1>8. /\ AuditedUpTo(catFile, DurableMarker) => AuditedUpTo(catFile, DurableMarker)'
      /\ AuditedUpTo(catalog, DurableMarker) => AuditedUpTo(catalog, DurableMarker)'
      /\ AuditedUpTo(catalog, marker) => AuditedUpTo(catalog, marker)'
      /\ AuditedUpTo(catFile, marker) => AuditedUpTo(catFile, marker)'
  BY <1>1, <1>2, <1>7 DEF AuditedUpTo
<1>9. ASSUME pc = "ghsa", NEW a \in Feed', marker < upd'[a], cursor <= upd'[a],
             upd'[a] <= newest
      PROVE  Audited(catalog, a)'
  BY <1>2, <1>3, <1>5, <1>6, <1>9 DEF AuditInv
<1> QED BY <1>1, <1>8, <1>9 DEF AuditInv, Emitting

LEMMA InitAudit == Init => AuditInv
<1> SUFFICES ASSUME Init PROVE AuditInv
  OBVIOUS
<1>1. Feed = {}
  BY SetsAssumption DEF Init, Feed
<1> QED BY <1>1 DEF Init, AuditInv, AuditedUpTo, Emitting

(* When every run consults the catalog and saving it does not fail, no      *)
(* crash, reset, error or publication lets the saved checkpoint skip a      *)
(* revision whose package still counts as audited from before it.           *)
THEOREM AuditedSafe == AlwaysAudits /\ Spec => []AuditedSinceAdvisory
<1> SUFFICES ASSUME AlwaysAudits PROVE Spec => []AuditedSinceAdvisory
  OBVIOUS
<1>1. TypeOK /\ IInv /\ AuditInv /\ [Next]_vars => AuditInv'
  <2> SUFFICES ASSUME TypeOK, IInv, AuditInv, [Next]_vars PROVE AuditInv'
    OBVIOUS
  <2>1. ASSUME NEW S \in SUBSET Packages, OsvBatch(S) \/ OsvBatchFail(S)
        PROVE  AuditInv'
    BY <2>1, CalmSteps
  <2> QED
    BY <2>1, PublishAudit, StartAudit, CalmSteps, PageAudit, DoneAudit, SaveAudit
    DEF Next, Run
<1>2. TypeOK /\ IInv /\ AuditInv => AuditedSinceAdvisory
  <2> SUFFICES ASSUME TypeOK, IInv, AuditInv, NEW a \in Checkpointed
               PROVE  Audited(catFile, a)
    BY DEF AuditedSinceAdvisory, Audited, Rev
  <2>1. a \in Feed /\ upd[a] <= DurableMarker
    BY SetsAssumption DEF Checkpointed, Feed, TypeOK, Clock, DurableMarker
  <2> QED BY <2>1 DEF AuditInv, AuditedUpTo
<1> QED BY <1>1, <1>2, InitAudit, Inductive, TypeCorrect, PTL DEF Spec
-----------------------------------------------------------------------------
(* Findings and the advisory directory.                                    *)

\* Every valid fused record is waiting to be written, or in its file.
WrittenInv ==
  Emitting => \A c \in Valid : Fused(c) # {} =>
    c \in queue \/ files[c] = [st |-> "ok", parts |-> Fused(c)]

LEMMA WrittenStep ==
  ASSUME TypeOK, IInv, WrittenInv, [Next]_vars
  PROVE  WrittenInv'
<1>1. ASSUME UNCHANGED <<collected, files, queue>>, Emitting' => Emitting
      PROVE  WrittenInv'
  BY <1>1 DEF WrittenInv, Fused
<1>2. ASSUME ~Emitting' PROVE WrittenInv'
  BY <1>2 DEF WrittenInv
<1>3. CASE Fuse
  BY <1>3, SetsAssumption DEF Fuse, WrittenInv, Fused
<1>4. ASSUME NEW o \in Ids, OpenAdvisory(o) PROVE WrittenInv'
  <2>1. /\ o \in queue /\ \A c \in Ids \ {o} : files'[c] = files[c]
        /\ UNCHANGED <<collected, queue>> /\ Emitting
    BY <1>4 DEF OpenAdvisory, TypeOK, Emitting
  <2> QED BY <2>1, SetsAssumption DEF WrittenInv, Fused
<1>5. CASE WriteAdvisory
  <2>1. /\ \A c \in Ids : files'[c] = IF c \in cur
                            THEN [st |-> "ok", parts |-> Fused(c)] ELSE files[c]
        /\ UNCHANGED collected /\ queue' = queue \ cur /\ Emitting
    BY <1>5 DEF WriteAdvisory, Emitting
  <2> QED BY <2>1, SetsAssumption DEF WrittenInv, Fused
<1>6. ASSUME NEW o \in Ids, RejectAdvisory(o) PROVE WrittenInv'
  <2>1. /\ o \notin Valid /\ queue' = queue \ {o}
        /\ UNCHANGED <<collected, files>> /\ Emitting
    BY <1>6 DEF RejectAdvisory, disk, Emitting
  <2> QED BY <2>1 DEF WrittenInv, Fused
<1>7. CASE EmitDone \/ WriteIndex \/ OpenState \/ UNCHANGED vars
           \/ \E i \in Ids : Publish(i) \/ Mirror(i)
  <2>1. UNCHANGED <<collected, files, queue>> /\ (Emitting' => Emitting)
    BY <1>7 DEF EmitDone, WriteIndex, OpenState, Publish, Mirror, vars, disk,
                memory, Emitting
  <2> QED BY <1>1, <2>1
<1>8. CASE \/ Preload \/ IngestLocal \/ GhsaPage \/ GhsaDone \/ GhsaFail
           \/ OsvSelect \/ OsvBatchesDone \/ CatalogSave \/ IngestRescan
           \/ WriteState \/ Crash
           \/ \E r, o \in BOOLEAN : Start(r, o)
  BY <1>2, <1>8 DEF Preload, IngestLocal, GhsaPage, GhsaDone, GhsaFail,
     OsvSelect, OsvBatchesDone, CatalogSave, IngestRescan, WriteState, Crash,
     Start, AfterGhsa, Emitting
<1>9. ASSUME NEW S \in SUBSET Packages, OsvBatch(S) \/ OsvBatchFail(S)
      PROVE  WrittenInv'
  BY <1>2, <1>9 DEF OsvBatch, OsvBatchFail, Emitting
<1> QED BY <1>3, <1>4, <1>5, <1>6, <1>7, <1>8, <1>9 DEF Next, Run

LEMMA InitWritten == Init => WrittenInv
BY DEF Init, WrittenInv, Emitting

\* Advisories without aliases: each is its own canonical record.
NoAliases == \A i \in Ids : Canon[i] = i

\* Advisories OSV.dev can report for a package.
Named == {a \in Relevant : Affects[a] # {}}

\* No process dies or forgets its state, and what OSV.dev reports validates.
CalmSync == /\ NoAliases /\ ~Crashes /\ ~Resets
            /\ Named \subseteq Valid

OwnParts(i, parts) == \A part \in parts : part[1] = i
InFile(a)   == files[a].st = "ok" /\ files[a].parts # {}
InMemory(a) == collected[a] # {}

\* What either catalog lists is in its file between runs, in memory during one.
KnownInv ==
  /\ \A i \in Ids : OwnParts(i, files[i].parts) /\ OwnParts(i, collected[i])
  /\ \A p \in Packages : catFile[p].known \cup catalog[p].known \subseteq Named
  /\ pc \in {"idle", "preload"} =>
       \A p \in Packages : \A a \in catFile[p].known : InFile(a)
  /\ pc = "preload" =>
       ~reset /\ \A p \in Packages : \A a \in catalog[p].known : InFile(a)
  /\ Loaded => \A p \in Packages :
                 \A a \in catFile[p].known \cup catalog[p].known : InMemory(a)

LEMMA OwnFused ==
  ASSUME NoAliases, TypeOK
  PROVE  \A c \in Ids : Fused(c) = collected[c]
BY DEF NoAliases, Fused

LEMMA CollectOwn ==
  ASSUME TypeOK, NEW S \in SUBSET Ids, NEW rev \in [Ids -> Clock],
         Collect(Records(S, rev)), \A i \in Ids : OwnParts(i, collected[i])
  PROVE  /\ \A i \in Ids : OwnParts(i, collected'[i])
         /\ \A i \in Ids : InMemory(i) => InMemory(i)'
         /\ \A i \in S : InMemory(i)'
<1>1. \A i \in Ids : collected'[i] = IF i \in S THEN {<<i, rev[i]>>}
                                               ELSE collected[i]
  BY DEF Collect, Records
<1>2. \A i \in Ids : OwnParts(i, {<<i, rev[i]>>})
  BY DEF OwnParts
<1>3. \A i \in Ids : OwnParts(i, collected'[i])
  BY <1>1, <1>2
<1> QED BY <1>1, <1>3 DEF InMemory

\* A step of a feed: the files and the saved catalog stay, nothing leaves
\* memory, and what the catalog newly lists is in memory.
Gathers ==
  /\ UNCHANGED <<files, catFile>> /\ Loaded /\ Loaded'
  /\ \A i \in Ids : OwnParts(i, collected'[i])
  /\ \A i \in Ids : InMemory(i) => InMemory(i)'
  /\ \A p \in Packages : \A a \in catalog'[p].known :
       a \in catalog[p].known \/ (a \in Named /\ InMemory(a)')

LEMMA GatherStep ==
  ASSUME KnownInv, Gathers
  PROVE  KnownInv'
<1>1. Named \subseteq Ids
  BY SetsAssumption DEF Named
<1>2. pc' \notin {"idle", "preload"}
  BY DEF Gathers, Loaded
<1>3. ASSUME NEW p \in Packages, NEW a \in catFile'[p].known \cup catalog'[p].known
      PROVE  a \in Named /\ InMemory(a)'
  BY <1>1, <1>3 DEF KnownInv, Gathers
<1> QED BY <1>2, <1>3 DEF KnownInv, Gathers

\* Marking records stale does not touch what they list.
LEMMA StaleKnown ==
  ASSUME TypeOK, NEW S, NEW p \in Packages
  PROVE  MarkStale(S)[p].known = catalog[p].known
BY DEF MarkStale, TypeOK, CatalogType

LEMMA IngestKnown ==
  ASSUME TypeOK, KnownInv, NEW S \in SUBSET Ids, IngestAdvisories(S)
  PROVE  /\ \A i \in Ids : OwnParts(i, collected'[i])
         /\ \A i \in Ids : InMemory(i) => InMemory(i)'
         /\ \A p \in Packages : catalog'[p].known = catalog[p].known
BY CollectOwn, StaleKnown DEF IngestAdvisories, KnownInv, TypeOK

LEMMA FeedKnown ==
  ASSUME TypeOK, IInv, KnownInv,
         \/ IngestLocal \/ GhsaPage \/ GhsaDone \/ GhsaFail
         \/ OsvSelect \/ OsvBatchesDone \/ IngestRescan
         \/ \E S \in SUBSET Packages : OsvBatch(S) \/ OsvBatchFail(S)
  PROVE  KnownInv'
<1> DEFINE Gathered ==
             /\ \A i \in Ids : OwnParts(i, collected'[i])
             /\ \A i \in Ids : InMemory(i) => InMemory(i)'
             /\ \A p \in Packages : \A a \in catalog'[p].known :
                  a \in catalog[p].known \/ (a \in Named /\ InMemory(a)')
<1>1. ASSUME UNCHANGED <<collected, catalog>> PROVE Gathered
  BY <1>1 DEF KnownInv, InMemory
<1>2. ASSUME NEW S \in SUBSET Ids, IngestAdvisories(S) PROVE Gathered
  BY <1>2, IngestKnown
<1>3. ASSUME NEW S \in SUBSET Ids, Collect(Records(S, upd)), UNCHANGED catalog
      PROVE  Gathered
  BY <1>3, CollectOwn DEF KnownInv, TypeOK
<1> HIDE DEF Gathered
<1>4. /\ UNCHANGED <<files, catFile>> /\ Loaded /\ Loaded'
  BY DEF IngestLocal, GhsaPage, GhsaDone, GhsaFail, OsvSelect, OsvBatchesDone,
         IngestRescan, OsvBatch, OsvBatchFail, AfterGhsa, disk, Loaded
<1>5. ASSUME IngestLocal PROVE Gathered
  BY <1>3, <1>5, SetsAssumption DEF IngestLocal
<1>6. ASSUME GhsaPage PROVE Gathered
  <2>1. Newest(PageSize) \in SUBSET Ids
    BY SetsAssumption DEF Newest, Listing
  <2> QED BY <1>2, <1>6, <2>1 DEF GhsaPage
<1>7. ASSUME GhsaFail PROVE Gathered
  <2>1. ASSUME NEW bad, IngestAdvisories({a \in Listing : upd[a] > upd[bad]})
        PROVE  Gathered
    <3>1. {a \in Listing : upd[a] > upd[bad]} \in SUBSET Ids
      BY SetsAssumption DEF Listing
    <3> QED BY <1>2, <2>1, <3>1
  <2>2. CASE UNCHANGED <<collected, lost, catalog>>
    BY <1>1, <2>2
  <2> QED BY <1>7, <2>1, <2>2 DEF GhsaFail
<1>8. ASSUME GhsaDone \/ OsvBatchesDone
           \/ \E S \in SUBSET Packages : OsvBatchFail(S) PROVE Gathered
  BY <1>1, <1>8 DEF GhsaDone, OsvBatchesDone, OsvBatchFail, memory
<1>9. ASSUME OsvSelect PROVE Gathered
  <2>1. /\ UNCHANGED collected
        /\ \A p \in Packages : catalog'[p] = NoRecord \/ catalog'[p] = catalog[p]
    BY <1>9 DEF OsvSelect
  <2> QED BY <2>1 DEF KnownInv, InMemory, NoRecord, Gathered
<1>10. ASSUME NEW S \in SUBSET Packages, OsvBatch(S) PROVE Gathered
  <2> DEFINE found == UNION {Found(p) : p \in S}
  <2>1. found \in SUBSET Ids /\ \A p \in S : Found(p) \subseteq found
    BY SetsAssumption DEF Found
  <2>2. /\ \A i \in Ids : OwnParts(i, collected'[i])
        /\ \A i \in Ids : InMemory(i) => InMemory(i)'
        /\ \A i \in found : InMemory(i)'
    <3>1. Collect(Records(found, mirror)) /\ mirror \in [Ids -> Clock]
      BY <1>10 DEF OsvBatch, TypeOK
    <3>2. \A i \in Ids : OwnParts(i, collected[i])
      BY DEF KnownInv
    <3> HIDE DEF found
    <3> QED BY <2>1, <3>1, <3>2, CollectOwn
  <2>3. \A p \in Packages : Found(p) \subseteq Named
    BY DEF Found, Named
  <2>4. \A p \in Packages : catalog'[p].known =
          IF p \in S THEN catalog[p].known \cup Found(p) ELSE catalog[p].known
    BY <1>10 DEF OsvBatch, TypeOK, CatalogType
  <2> QED BY <2>1, <2>2, <2>3, <2>4 DEF Gathered
<1>11. ASSUME IngestRescan PROVE Gathered
  <2>1. PICK got \in SUBSET Ids : Collect(Records(got, upd))
    BY <1>11, SetsAssumption DEF IngestRescan
  <2> QED BY <1>3, <1>11, <2>1 DEF IngestRescan
<1>12. Gathered
  BY <1>5, <1>6, <1>7, <1>8, <1>9, <1>10, <1>11
<1> QED BY <1>4, <1>12, GatherStep DEF Gathers, Gathered

LEMMA EmitKnown ==
  ASSUME NoAliases, TypeOK, IInv, KnownInv,
         \/ CatalogSave \/ Fuse \/ WriteAdvisory \/ EmitDone \/ WriteIndex
         \/ OpenState \/ UNCHANGED vars
         \/ \E c \in Ids : OpenAdvisory(c) \/ RejectAdvisory(c)
         \/ \E i \in Ids : Publish(i) \/ Mirror(i)
  PROVE  KnownInv'
<1>1. CASE CatalogSave
  <2>1. /\ UNCHANGED <<files, collected, catalog>> /\ Loaded /\ Loaded'
        /\ catFile' = catalog \/ catFile' = catFile
    BY <1>1 DEF CatalogSave, memory, Loaded
  <2> QED BY <2>1 DEF KnownInv, Loaded, InMemory
<1>2. ASSUME UNCHANGED <<collected, catalog, catFile>>, Loaded, Loaded',
             \A i \in Ids : OwnParts(i, files'[i].parts)
      PROVE  KnownInv'
  BY <1>2 DEF KnownInv, Loaded, InMemory
<1>3. CASE WriteAdvisory
  <2>1. \A i \in Ids : OwnParts(i, files'[i].parts)
    BY <1>3, OwnFused DEF WriteAdvisory, KnownInv
  <2>2. UNCHANGED <<collected, catalog, catFile>> /\ Loaded /\ Loaded'
    BY <1>3 DEF WriteAdvisory, Loaded
  <2> QED BY <1>2, <2>1, <2>2
<1>4. CASE \E c \in Ids : OpenAdvisory(c)
  <2>1. \A i \in Ids : files'[i].parts = files[i].parts
    BY <1>4 DEF OpenAdvisory, TypeOK, FileType
  <2>2. UNCHANGED <<collected, catalog, catFile>> /\ Loaded /\ Loaded'
    BY <1>4 DEF OpenAdvisory, Loaded
  <2>3. \A i \in Ids : OwnParts(i, files'[i].parts)
    BY <2>1 DEF KnownInv
  <2> QED BY <1>2, <2>2, <2>3
<1>5. CASE Fuse \/ EmitDone \/ WriteIndex \/ OpenState
           \/ \E c \in Ids : RejectAdvisory(c)
  <2>1. UNCHANGED <<collected, catalog, catFile, files>> /\ Loaded /\ Loaded'
    BY <1>5 DEF Fuse, EmitDone, WriteIndex, OpenState, RejectAdvisory, disk,
                memory, Loaded
  <2> QED BY <1>2, <2>1 DEF KnownInv
<1>6. CASE UNCHANGED vars \/ \E i \in Ids : Publish(i) \/ Mirror(i)
  <2>1. UNCHANGED <<collected, catalog, catFile, files, pc, reset>>
    BY <1>6 DEF vars, Publish, Mirror, disk, memory, control
  <2> QED BY <2>1 DEF KnownInv, Loaded, InMemory, InFile
<1> QED BY <1>1, <1>3, <1>4, <1>5, <1>6

LEMMA RunKnown ==
  ASSUME CalmSync, TypeOK, IInv, WrittenInv, KnownInv,
         Preload \/ WriteState \/ Crash \/ \E r, o \in BOOLEAN : Start(r, o)
  PROVE  KnownInv'
<1>0. Named \subseteq Ids
  BY SetsAssumption DEF Named
<1>1. ASSUME NEW r \in BOOLEAN, NEW o \in BOOLEAN, Start(r, o) PROVE KnownInv'
  <2>1. /\ pc = "idle" /\ pc' = "preload" /\ catalog' = catFile /\ ~reset'
        /\ UNCHANGED <<files, catFile, collected>>
    BY <1>1 DEF Start, disk, CalmSync
  <2> QED BY <2>1 DEF KnownInv, InFile, Loaded
<1>2. CASE Preload
  <2>1. /\ pc = "preload" /\ pc' = "local" /\ ~reset
        /\ UNCHANGED <<files, catFile, catalog>>
        /\ \A i \in Ids : collected'[i] = IF files[i].st = "ok"
                                            THEN files[i].parts ELSE {}
    BY <1>2 DEF Preload, disk, KnownInv
  <2>2. \A i \in Ids : InFile(i) => InMemory(i)'
    BY <2>1 DEF InFile, InMemory
  <2>3. \A i \in Ids : OwnParts(i, collected'[i])
    BY <2>1 DEF KnownInv, OwnParts
  <2> QED BY <1>0, <2>1, <2>2, <2>3 DEF KnownInv, Loaded
<1>3. CASE WriteState
  <2>1. /\ pc = "saveWrite" /\ pc' = "idle" /\ queue = {}
        /\ UNCHANGED <<files, catFile>>
        /\ catalog' = [p \in Packages |-> NoRecord]
        /\ collected' = [i \in Ids |-> {}]
    BY <1>3 DEF WriteState, Blank, IInv, EmitInv
  <2>2. ASSUME NEW p \in Packages, NEW a \in catFile[p].known PROVE InFile(a)
    <3>1. a \in Named /\ a \in Ids /\ a \in Valid /\ collected[a] # {}
      BY <1>0, <2>1, <2>2 DEF KnownInv, CalmSync, Loaded, InMemory
    <3>2. Fused(a) = collected[a]
      BY <3>1, OwnFused DEF CalmSync
    <3>3. files[a] = [st |-> "ok", parts |-> Fused(a)]
      BY <2>1, <3>1, <3>2 DEF WrittenInv, Emitting
    <3> QED BY <3>1, <3>2, <3>3 DEF InFile
  <2> QED BY <2>1, <2>2 DEF KnownInv, Loaded, InFile, NoRecord, OwnParts
<1>4. CASE Crash
  BY <1>4 DEF Crash, CalmSync
<1> QED BY <1>1, <1>2, <1>3, <1>4

LEMMA InitKnown == Init => KnownInv
BY DEF Init, KnownInv, OwnParts, Absent, NoRecord, Loaded

(* Of advisories without aliases, the catalog never lists one that is not   *)
(* in the advisory directory when a run has ended: the directory is         *)
(* rewritten, and validated, before the run ends, whatever feeds failed and *)
(* whether or not the catalog could be saved.  (Not across a crash: the     *)
(* catalog is replaced before the first advisory is written.)               *)
THEOREM KnownSafe == CalmSync /\ Spec => []KnownStored
<1> SUFFICES ASSUME CalmSync PROVE Spec => []KnownStored
  OBVIOUS
<1>1. TypeOK /\ IInv /\ WrittenInv /\ KnownInv /\ [Next]_vars => KnownInv'
  <2> SUFFICES ASSUME TypeOK, IInv, WrittenInv, KnownInv, [Next]_vars
               PROVE  KnownInv'
    OBVIOUS
  <2>1. ASSUME NEW S \in SUBSET Packages, OsvBatch(S) \/ OsvBatchFail(S)
        PROVE  KnownInv'
    BY <2>1, FeedKnown
  <2>2. NoAliases
    BY DEF CalmSync
  <2> QED BY <2>1, <2>2, FeedKnown, EmitKnown, RunKnown DEF Next, Run
<1>2. TypeOK /\ IInv /\ WrittenInv /\ [Next]_vars => WrittenInv'
  BY WrittenStep
<1>3. TypeOK /\ KnownInv => KnownStored
  <2> SUFFICES ASSUME TypeOK, KnownInv, pc = "idle", NEW p \in Packages,
                      NEW a \in catFile[p].known
               PROVE  /\ files[Canon[a]].st = "ok"
                      /\ \E part \in files[Canon[a]].parts : part[1] = a
    BY DEF KnownStored
  <2>1. a \in Ids /\ Canon[a] = a /\ InFile(a) /\ OwnParts(a, files[a].parts)
    BY SetsAssumption DEF KnownInv, Named, CalmSync, NoAliases
  <2> QED BY <2>1 DEF InFile, OwnParts
<1> QED BY <1>1, <1>2, <1>3, InitKnown, InitWritten, Inductive, TypeCorrect, PTL
        DEF Spec
-----------------------------------------------------------------------------
(* A feed that is read to its end.                                         *)
LEMMA LeastNat ==
  ASSUME NEW T \in SUBSET Nat, T # {}
  PROVE  \E m \in T : \A k \in T : m <= k
<1> DEFINE less == OpToRel(<, Nat)
<1>1. IsWellFoundedOn(less, Nat)
  BY NatLessThanWellFounded
<1>2. \A x, y \in Nat : x < y => <<x, y>> \in less
  BY DEF OpToRel
<1> HIDE DEF less
<1>3. PICK x \in T : \A y \in T : ~ (<<y, x>> \in less)
  BY <1>1, WFMin
<1>4. ASSUME NEW y \in T PROVE x <= y
  <2>1. x \in Nat /\ y \in Nat /\ ~ (y < x)
    BY <1>2, <1>3
  <2> QED BY <2>1
<1> QED BY <1>4

LEMMA ListingFinite ==
  ASSUME TypeOK
  PROVE  Listing \subseteq Ids /\ IsFiniteSet(Listing)
<1>1. Listing \subseteq Ids
  BY SetsAssumption DEF Listing
<1> QED BY <1>1, SetsAssumption, FS_Subset

\* A page that is not the whole listing is full.
LEMMA NewestFull ==
  ASSUME TypeOK, NEW n \in Nat, Listing # Newest(n)
  PROVE  n <= Cardinality(Newest(n))
<1> DEFINE page == Newest(n)
           older == Listing \ page
           above(x) == {b \in Listing : upd[b] > upd[x]}
           rank(x) == MaxClock - upd[x]
           ranks == {k \in Nat : \E x \in older : k = rank(x)}
<1>1. page \subseteq Listing /\ older # {}
  BY DEF Newest
<1>2. \A x \in Listing : upd[x] \in Clock /\ rank(x) \in Nat
  BY ListingFinite, BoundAssumption DEF TypeOK, Clock
<1>3. ranks # {}
  BY <1>1, <1>2
<1>4. PICK m \in ranks : \A k \in ranks : m <= k
  <2>1. ranks \in SUBSET Nat
    OBVIOUS
  <2> HIDE DEF ranks
  <2> QED BY <1>3, <2>1, LeastNat
<1>5. PICK x \in older : m = rank(x)
  BY <1>4
<1>6. above(x) \subseteq page
  <2> SUFFICES ASSUME NEW b \in Listing, upd[b] > upd[x], b \notin page
               PROVE  FALSE
    OBVIOUS
  <2>1. rank(b) \in ranks
    BY <1>2
  <2>2. rank(x) <= rank(b)
    BY <1>4, <1>5, <2>1
  <2> QED BY <1>2, <2>2, BoundAssumption DEF Clock
<1>7. IsFiniteSet(page) /\ IsFiniteSet(above(x))
  BY <1>1, ListingFinite, FS_Subset, above(x) \subseteq Listing
<1>8. Cardinality(above(x)) <= Cardinality(page)
  BY <1>6, <1>7, FS_Subset
<1>9. ~ (Cardinality(above(x)) < n)
  BY <1>5 DEF Newest
<1>10. Cardinality(page) \in Nat /\ Cardinality(above(x)) \in Nat
  BY <1>7, FS_CardinalityType
<1> QED BY <1>8, <1>9, <1>10

\* A sync without the OSV.dev stage, of advisories without aliases that
\* validate: no rate limit, no crash, and max_pages pages hold the whole feed.
FeedFits ==
  /\ NoAliases /\ OsvChoices \subseteq {FALSE} /\ ~RateLimits /\ ~Crashes
  /\ Ghsa \cap Relevant \subseteq Valid
  /\ Cardinality(Ghsa) <= MaxPages * PageSize

\* The advisories of the feed at or above a cursor m: those already read.
Read(u, m) == {b \in Ghsa : u[b] >= m}

Fresh(a) == Rev(a) \in collected[a]

\* What a checkpoint covers is on disk between runs, in memory during one; and
\* every page but the last was full.
StoredInv ==
  /\ pc = "idle" => \A a \in Feed : upd[a] <= DurableMarker => OnDisk(a)
  /\ pc = "preload" => \A a \in Feed : upd[a] <= marker => ~reset /\ OnDisk(a)
  /\ pc # "idle" => ~osv
  /\ pc \notin {"osvSelect", "osvBatch", "osvSave"}
  /\ pc \in {"idle", "preload", "local"} => pages = 0
  /\ Loaded => \A a \in Feed : upd[a] <= marker => Fresh(a)
  /\ pc = "ghsa" =>
       /\ \A a \in Feed : marker < upd[a] /\ cursor <= upd[a] /\ upd[a] <= newest
                            => Fresh(a)
       /\ cursor # 0 => pages * PageSize <= Cardinality(Read(upd, cursor))

LEMMA ReadFinite ==
  ASSUME NEW u, NEW m
  PROVE  /\ IsFiniteSet(Ghsa) /\ Cardinality(Ghsa) \in Nat
         /\ Read(u, m) \subseteq Ghsa /\ IsFiniteSet(Read(u, m))
         /\ Cardinality(Read(u, m)) \in Nat
<1>1. IsFiniteSet(Ghsa)
  BY SetsAssumption, FS_Subset
<1>2. Read(u, m) \subseteq Ghsa
  BY DEF Read
<1> QED BY <1>1, <1>2, FS_Subset, FS_CardinalityType

LEMMA CollectFresh ==
  ASSUME TypeOK, NEW S \in SUBSET Ids, Collect(Records(S, upd)), UNCHANGED upd
  PROVE  /\ \A a \in Ids : Fresh(a) => Fresh(a)'
         /\ \A a \in S : Fresh(a)'
<1>1. \A a \in Ids : collected'[a] = IF a \in S THEN {Rev(a)} ELSE collected[a]
  BY DEF Collect, Records, Rev
<1>2. \A a \in Ids : Rev(a)' = Rev(a)
  BY DEF Rev
<1> QED BY <1>1, <1>2 DEF Fresh

\* A step of a loaded run that leaves the checkpoint and goes on past the feed,
\* or towards it.
LEMMA LoadedFresh ==
  ASSUME TypeOK, IInv, StoredInv, Loaded, Loaded', UNCHANGED <<upd, marker, osv>>,
         \A a \in Ids : Fresh(a) => Fresh(a)',
         pc' \notin {"local", "ghsa", "osvSelect", "osvBatch", "osvSave"}
  PROVE  StoredInv'
<1>1. Feed' = Feed /\ \A a \in Feed : a \in Ids /\ upd'[a] = upd[a]
  BY FeedType DEF Feed
<1> QED BY <1>1 DEF StoredInv, Loaded

LEMMA FeedStored ==
  ASSUME FeedFits, TypeOK, IInv, StoredInv,
         \/ IngestLocal \/ GhsaFail \/ IngestRescan \/ Fuse \/ WriteAdvisory
         \/ EmitDone \/ WriteIndex \/ OpenState
         \/ \E c \in Ids : OpenAdvisory(c) \/ RejectAdvisory(c)
  PROVE  StoredInv'
<1>1. CASE IngestLocal
  <2>1. /\ pc = "local" /\ pc' = "ghsa" /\ newest' = marker
        /\ UNCHANGED <<upd, marker, osv, pages>> /\ Loaded /\ Loaded'
    BY <1>1 DEF IngestLocal, upstream, control, Loaded
  <2>2. \A a \in Ids : Fresh(a) => Fresh(a)'
    BY <1>1, <2>1, CollectFresh, SetsAssumption DEF IngestLocal
  <2>3. Feed' = Feed /\ \A a \in Feed : a \in Ids /\ upd'[a] = upd[a]
    BY <2>1, FeedType DEF Feed
  <2>4. \A a \in Feed' : ~ (marker' < upd'[a] /\ upd'[a] <= newest')
    BY <2>1, <2>3, FeedType DEF TypeOK, Clock
  <2>5. pages' = 0 /\ pages' * PageSize = 0
    BY <2>1, BoundAssumption DEF StoredInv
  <2>6. Cardinality(Read(upd', cursor')) \in Nat
    BY ReadFinite
  <2> QED BY <2>1, <2>2, <2>3, <2>4, <2>5, <2>6 DEF StoredInv
<1>2. CASE GhsaFail
  <2>1. /\ pc = "ghsa" /\ pc' = "rescan"
        /\ UNCHANGED <<upd, marker, osv>> /\ Loaded /\ Loaded'
    BY <1>2 DEF GhsaFail, upstream, control, Loaded, AfterGhsa, StoredInv
  <2>2. ASSUME NEW bad, IngestAdvisories({a \in Listing : upd[a] > upd[bad]})
        PROVE  \A a \in Ids : Fresh(a) => Fresh(a)'
    BY <2>1, <2>2, CollectFresh, SetsAssumption DEF IngestAdvisories, Listing
  <2>3. CASE UNCHANGED <<collected, lost, catalog>>
    BY <2>1, <2>3, LoadedFresh DEF Fresh, Rev
  <2>4. \A a \in Ids : Fresh(a) => Fresh(a)'
    BY <1>2, <2>1, <2>2 DEF GhsaFail, Fresh, Rev
  <2> QED BY <2>1, <2>4, LoadedFresh
<1>3. CASE IngestRescan
  <2>1. PICK got \in SUBSET Ids : Collect(Records(got, upd))
    BY <1>3, SetsAssumption DEF IngestRescan
  <2>2. /\ pc' = "fuse" /\ UNCHANGED <<upd, marker, osv>> /\ Loaded /\ Loaded'
    BY <1>3 DEF IngestRescan, upstream, control, Loaded
  <2>3. \A a \in Ids : Fresh(a) => Fresh(a)'
    BY <2>1, <2>2, CollectFresh
  <2> QED BY <2>2, <2>3, LoadedFresh
<1>4. CASE \/ Fuse \/ WriteAdvisory \/ EmitDone \/ WriteIndex \/ OpenState
           \/ \E c \in Ids : OpenAdvisory(c) \/ RejectAdvisory(c)
  <2>1. /\ UNCHANGED <<upd, marker, osv, collected>> /\ Loaded /\ Loaded'
        /\ pc' \notin {"local", "ghsa", "osvSelect", "osvBatch", "osvSave"}
    BY <1>4 DEF Fuse, WriteAdvisory, EmitDone, WriteIndex, OpenState,
       OpenAdvisory, RejectAdvisory, upstream, memory, control, Loaded
  <2>2. \A a \in Ids : Fresh(a) => Fresh(a)'
    BY <2>1 DEF Fresh, Rev
  <2> QED BY <2>1, <2>2, LoadedFresh
<1> QED BY <1>1, <1>2, <1>3, <1>4

LEMMA PageStored ==
  ASSUME FeedFits, TypeOK, IInv, StoredInv, GhsaPage
  PROVE  StoredInv'
<1> DEFINE page == Newest(PageSize)
           new  == page \cap Relevant
<1>1. /\ pc = "ghsa" /\ pc' = "ghsa" /\ pages' = pages + 1 /\ ~osv /\ ~osv'
      /\ UNCHANGED <<clock, upd, marker>>
      /\ Collect(Records(new, upd)) /\ cursor > 0
  BY DEF GhsaPage, MoreToFetch, IngestAdvisories, upstream, control, StoredInv
<1>2. page \subseteq Listing /\ Listing \subseteq Ids
  BY SetsAssumption DEF Newest, Listing
<1>3. /\ \A a \in Ids : Fresh(a) => Fresh(a)'
      /\ \A a \in new : Fresh(a)'
  BY <1>1, <1>2, CollectFresh
<1>4. Feed' = Feed /\ \A a \in Feed : a \in Ids /\ upd'[a] = upd[a]
  BY <1>1, FeedType DEF Feed
<1>5. \A a \in Feed : upd[a] <= marker => Fresh(a)'
  BY <1>1, <1>3, <1>4 DEF StoredInv, Loaded
<1>6. PICK m \in Clock : /\ m = newest \/ \E b \in page : upd[b] = m
                         /\ newest <= m /\ newest' = m
  BY DEF GhsaPage
<1>7. ASSUME NEW a \in Feed, marker < upd[a], cursor' <= upd[a],
             upd[a] <= newest'
      PROVE  Fresh(a)'
  <2>1. a \in Ids /\ upd[a] \in Clock /\ a \in Ghsa \cap Relevant /\ upd[a] > 0
    BY FeedType DEF TypeOK
  <2>2. CASE cursor <= upd[a]
    <3>1. \A b \in page : upd[b] < cursor /\ upd[b] \in Clock
      BY <1>2 DEF Listing, TypeOK
    <3>2. upd[a] <= newest
      BY <1>6, <1>7, <2>1, <2>2, <3>1 DEF TypeOK, Clock, Page
    <3> QED BY <1>1, <1>3, <1>7, <2>1, <2>2, <3>2 DEF StoredInv
  <2>3. CASE ~ (cursor <= upd[a])
    <3>1. a \in Listing
      BY <1>7, <2>1, <2>3 DEF Listing, TypeOK, Clock, Page
    <3>2. a \in page
      <4>1. CASE Listing = page
        BY <3>1, <4>1
      <4>2. CASE \E last \in page : cursor' = upd[last]
        BY <1>7, <3>1, <4>2, NewestClosed, BoundAssumption
      <4> QED BY <4>1, <4>2 DEF GhsaPage
    <3> QED BY <1>3, <2>1, <3>2
  <2> QED BY <2>2, <2>3
<1>8. ASSUME cursor' # 0
      PROVE  pages' * PageSize <= Cardinality(Read(upd', cursor'))
  <2> DEFINE before == Read(upd, cursor)
             after  == Read(upd', cursor')
  <2>1. /\ Listing # page
        /\ \E last \in page : cursor' = upd[last]
    BY <1>8 DEF GhsaPage
  <2>2. \A b \in page : b \in Ghsa /\ upd[b] < cursor /\ upd[b] \in Clock
                        /\ cursor' <= upd[b]
    BY <1>2, <1>8, SetsAssumption DEF GhsaPage, Listing, TypeOK
  <2>3. before \cup page \subseteq after /\ before \cap page = {}
    <3>1. cursor' < cursor /\ cursor \in Nat /\ cursor' \in Nat
      BY <2>1, <2>2 DEF TypeOK, Page, Clock
    <3>2. \A b \in Ghsa : upd[b] \in Nat
      BY SetsAssumption DEF TypeOK, Clock
    <3> HIDE DEF page
    <3> QED BY <1>1, <2>2, <3>1, <3>2 DEF Read, Clock
  <2>4. PageSize <= Cardinality(page)
    BY <2>1, NewestFull, BoundAssumption
  <2>5. IsFiniteSet(page) /\ IsFiniteSet(before) /\ IsFiniteSet(after)
    BY <1>2, ListingFinite, ReadFinite, FS_Subset
  <2>6. Cardinality(before \cup page) = Cardinality(before) + Cardinality(page)
    <3>1. Cardinality(before \cap page) = 0
      BY <2>3, FS_EmptySet
    <3> HIDE DEF before, page
    <3>2. Cardinality(before \cup page) =
            Cardinality(before) + Cardinality(page) - Cardinality(before \cap page)
      BY <2>5, FS_Union
    <3>3. Cardinality(page) \in Nat /\ Cardinality(before) \in Nat
      BY <2>5, FS_CardinalityType
    <3> QED BY <3>1, <3>2, <3>3
  <2>7. Cardinality(before \cup page) <= Cardinality(after)
    BY <2>3, <2>5, FS_Subset
  <2>8. pages * PageSize <= Cardinality(before)
    BY <1>1 DEF StoredInv, TypeOK, Page
  <2>9. pages' * PageSize = pages * PageSize + PageSize
    BY <1>1, BoundAssumption DEF TypeOK
  <2>10. /\ Cardinality(page) \in Nat /\ Cardinality(before) \in Nat
         /\ Cardinality(after) \in Nat /\ PageSize \in Nat
         /\ pages * PageSize \in Nat
    BY <2>5, FS_CardinalityType, BoundAssumption DEF TypeOK
  <2> HIDE DEF before, after, page
  <2>11. pages * PageSize + PageSize <= Cardinality(after)
    BY <2>4, <2>6, <2>7, <2>8, <2>10
  <2> QED BY <2>9, <2>11 DEF after
<1> QED BY <1>1, <1>4, <1>5, <1>7, <1>8 DEF StoredInv

LEMMA DoneStored ==
  ASSUME FeedFits, TypeOK, IInv, StoredInv, GhsaDone
  PROVE  StoredInv'
<1>1. /\ pc = "ghsa" /\ pc' = "rescan" /\ marker' = newest /\ ~MoreToFetch
      /\ UNCHANGED <<clock, upd, collected, osv>>
  BY DEF GhsaDone, AfterGhsa, upstream, control, StoredInv, FeedFits
<1>2. \A a \in Feed : cursor <= upd[a]
  <2>1. CASE cursor = 0
    BY <2>1, FeedType
  <2>2. CASE cursor # 0
    <3>1. pages = MaxPages
      BY <1>1, <2>2, BoundAssumption DEF MoreToFetch, TypeOK, Page
    <3>2. MaxPages * PageSize <= Cardinality(Read(upd, cursor))
      BY <1>1, <2>2, <3>1 DEF StoredInv
    <3>3. Cardinality(Read(upd, cursor)) = Cardinality(Ghsa)
      <4>1. MaxPages * PageSize \in Nat
        BY BoundAssumption
      <4>2. Cardinality(Read(upd, cursor)) <= Cardinality(Ghsa)
        BY ReadFinite, FS_Subset
      <4>3. Cardinality(Read(upd, cursor)) \in Nat /\ Cardinality(Ghsa) \in Nat
        BY ReadFinite
      <4> QED BY <3>2, <4>1, <4>2, <4>3 DEF FeedFits
    <3>4. Read(upd, cursor) = Ghsa
      BY <3>3, ReadFinite, FS_Subset
    <3> QED BY <3>4, FeedType DEF Read, TypeOK, Page, Clock
  <2> QED BY <2>1, <2>2
<1>3. Feed' = Feed /\ \A a \in Feed : upd'[a] = upd[a] /\ Fresh(a)' = Fresh(a)
  BY <1>1 DEF Feed, Fresh, Rev
<1>4. \A a \in Feed : upd[a] <= newest => Fresh(a)
  BY <1>1, <1>2, FeedType DEF StoredInv, Loaded, TypeOK, Clock
<1> QED BY <1>1, <1>3, <1>4 DEF StoredInv, Loaded

LEMMA RunStored ==
  ASSUME FeedFits, TypeOK, IInv, WrittenInv, StoredInv,
         Preload \/ WriteState \/ Crash \/ \E r, o \in BOOLEAN : Start(r, o)
  PROVE  StoredInv'
<1>1. ASSUME NEW r \in BOOLEAN, NEW o \in BOOLEAN, Start(r, o) PROVE StoredInv'
  <2>1. /\ pc = "idle" /\ pc' = "preload" /\ ~osv' /\ UNCHANGED <<upd, files, pages>>
        /\ marker' = 0 \/ (~reset' /\ marker' = DurableMarker)
    BY <1>1 DEF Start, upstream, disk, FeedFits, DurableMarker
  <2>2. Feed' = Feed /\ \A a \in Feed : /\ upd'[a] = upd[a] /\ ~ (upd[a] <= 0)
                                        /\ OnDisk(a)' = OnDisk(a)
    BY <2>1, FeedType DEF Feed, OnDisk
  <2> QED BY <2>1, <2>2 DEF StoredInv, Loaded
<1>2. CASE Preload
  <2>1. /\ pc = "preload" /\ pc' = "local" /\ UNCHANGED <<upd, marker, osv, pages>>
        /\ \A i \in Ids : ~reset /\ files[i].st = "ok" => collected'[i] = files[i].parts
    BY <1>2 DEF Preload, upstream, control
  <2>2. Feed' = Feed /\ \A a \in Feed : upd'[a] = upd[a] /\ Rev(a)' = Rev(a)
    BY <2>1 DEF Feed, Rev
  <2>3. ASSUME NEW a \in Feed, upd[a] <= marker PROVE Fresh(a)'
    <3>1. ~reset /\ OnDisk(a) /\ a \in Ids /\ Canon[a] = a
      BY <2>1, <2>3, FeedType DEF StoredInv, FeedFits, NoAliases
    <3> QED BY <2>1, <2>2, <3>1 DEF OnDisk, Fresh, Rev
  <2> QED BY <2>1, <2>2, <2>3 DEF StoredInv, Loaded
<1>3. CASE WriteState
  <2>1. /\ pc = "saveWrite" /\ pc' = "idle" /\ queue = {} /\ pages' = 0
        /\ UNCHANGED <<upd, files>> /\ DurableMarker' = marker
    BY <1>3 DEF WriteState, Blank, upstream, IInv, EmitInv, DurableMarker
  <2>2. Feed' = Feed /\ \A a \in Feed : upd'[a] = upd[a] /\ OnDisk(a)' = OnDisk(a)
    BY <2>1 DEF Feed, OnDisk
  <2>3. ASSUME NEW a \in Feed, upd[a] <= marker PROVE OnDisk(a)
    <3>1. a \in Ids /\ a \in Valid /\ Canon[a] = a /\ Rev(a) \in collected[a]
      BY <2>1, <2>3, FeedType DEF StoredInv, FeedFits, NoAliases, Loaded, Fresh
    <3>2. Fused(a) = collected[a]
      BY <3>1, OwnFused DEF FeedFits
    <3>3. files[a] = [st |-> "ok", parts |-> Fused(a)]
      BY <2>1, <3>1, <3>2 DEF WrittenInv, Emitting
    <3> QED BY <3>1, <3>2, <3>3 DEF OnDisk, Rev
  <2> QED BY <2>1, <2>2, <2>3 DEF StoredInv, Loaded
<1>4. CASE Crash
  BY <1>4 DEF Crash, FeedFits
<1> QED BY <1>1, <1>2, <1>3, <1>4

LEMMA PublishStored ==
  ASSUME TypeOK, IInv, StoredInv, NEW i \in Ids, Publish(i)
  PROVE  StoredInv'
<1>1. /\ UNCHANGED <<files, stateFile, pc, reset, osv, collected, marker,
                     newest, cursor, pages>>
      /\ upd' = [upd EXCEPT ![i] = clock + 1] /\ clock \in Nat
  BY DEF Publish, disk, memory, control, TypeOK, Clock
<1>2. /\ marker <= clock /\ newest <= clock /\ DurableMarker <= clock
      /\ DurableMarker' = DurableMarker
      /\ marker \in Nat /\ newest \in Nat /\ DurableMarker \in Nat
  BY <1>1 DEF IInv, ClockInv, DurableMarker, TypeOK, Clock
<1>3. \A a \in Feed' : a \in Ids /\ upd'[a] \in Nat
  BY <1>1, SetsAssumption DEF Feed, TypeOK, Clock
<1>4. \A a \in Feed' : upd'[a] <= clock =>
        a \in Feed /\ upd'[a] = upd[a] /\ OnDisk(a)' = OnDisk(a)
                   /\ Fresh(a)' = Fresh(a)
  BY <1>1, <1>3 DEF Feed, TypeOK, Clock, OnDisk, Fresh, Rev
<1>5. \A m \in Nat : m <= clock => \A a \in Feed' : upd'[a] <= m => upd'[a] <= clock
  BY <1>1, <1>3
<1>6. \A a \in Feed' : upd'[a] <= marker => upd'[a] <= clock
  BY <1>2, <1>5
<1>7. \A a \in Feed' : upd'[a] <= DurableMarker => upd'[a] <= clock
  BY <1>2, <1>5
<1>8. \A a \in Feed' : upd'[a] <= newest => upd'[a] <= clock
  BY <1>2, <1>5
<1>9. Cardinality(Read(upd, cursor)) <= Cardinality(Read(upd', cursor'))
  <2>1. \A b \in Ghsa : upd[b] \in Nat /\ (upd'[b] = upd[b] \/ upd'[b] = clock + 1)
                        /\ upd[b] <= clock
    BY <1>1, SetsAssumption DEF IInv, ClockInv, TypeOK, Clock
  <2>2. Read(upd, cursor) \subseteq Read(upd', cursor')
    BY <1>1, <2>1 DEF Read, TypeOK, Page
  <2> QED BY <2>2, ReadFinite, FS_Subset
<1>10. ASSUME pc = "ghsa", cursor # 0
       PROVE  pages * PageSize <= Cardinality(Read(upd', cursor'))
  <2>1. pages * PageSize <= Cardinality(Read(upd, cursor)) /\ pages * PageSize \in Nat
    BY <1>10, BoundAssumption DEF StoredInv, TypeOK
  <2>2. /\ Cardinality(Read(upd, cursor)) \in Nat
        /\ Cardinality(Read(upd', cursor')) \in Nat
    BY ReadFinite
  <2> QED BY <1>9, <2>1, <2>2
<1>11. pc = "idle" => \A a \in Feed' : upd'[a] <= DurableMarker' => OnDisk(a)'
  BY <1>2, <1>4, <1>7 DEF StoredInv
<1>12. /\ pc = "preload" => \A a \in Feed' : upd'[a] <= marker => ~reset /\ OnDisk(a)'
       /\ Loaded => \A a \in Feed' : upd'[a] <= marker => Fresh(a)'
  BY <1>4, <1>6 DEF StoredInv
<1>13. pc = "ghsa" => \A a \in Feed' : marker < upd'[a] /\ cursor <= upd'[a]
                                       /\ upd'[a] <= newest => Fresh(a)'
  BY <1>4, <1>8 DEF StoredInv
<1> QED BY <1>1, <1>10, <1>11, <1>12, <1>13 DEF StoredInv, Loaded

LEMMA QuietStored ==
  ASSUME StoredInv, UNCHANGED vars \/ \E i \in Ids : Mirror(i)
  PROVE  StoredInv'
<1>1. UNCHANGED <<upd, files, stateFile, pc, reset, osv, collected, marker,
                  newest, cursor, pages>>
  BY DEF vars, Mirror, disk, memory, control, upstream
<1> QED BY <1>1 DEF StoredInv, Loaded, Feed, DurableMarker, OnDisk, Fresh, Rev

LEMMA InitStored == Init => StoredInv
<1> SUFFICES ASSUME Init PROVE StoredInv
  OBVIOUS
<1>1. Feed = {}
  BY SetsAssumption DEF Init, Feed
<1> QED BY <1>1 DEF Init, StoredInv, Loaded

(* When the pages a run may fetch can hold the whole GHSA feed, its         *)
(* advisories validate and OSV.dev's older copies stay out, what the saved  *)
(* checkpoint skips is stored, whatever is published while the pages are    *)
(* read, whichever request fails and however often the state is reset.      *)
THEOREM StoredSafe == FeedFits /\ Spec => []CheckpointStored
<1> SUFFICES ASSUME FeedFits PROVE Spec => []CheckpointStored
  OBVIOUS
<1>1. TypeOK /\ IInv /\ WrittenInv /\ StoredInv /\ [Next]_vars => StoredInv'
  <2> SUFFICES ASSUME TypeOK, IInv, WrittenInv, StoredInv, [Next]_vars
               PROVE  StoredInv'
    OBVIOUS
  <2>1. pc \notin {"osvSelect", "osvBatch", "osvSave"}
    BY DEF StoredInv
  <2>2. ~ (OsvSelect \/ OsvBatchesDone \/ CatalogSave)
    BY <2>1 DEF OsvSelect, OsvBatchesDone, CatalogSave
  <2>3. \A S \in SUBSET Packages : ~ (OsvBatch(S) \/ OsvBatchFail(S))
    BY <2>1 DEF OsvBatch, OsvBatchFail
  <2> QED BY <2>2, <2>3, FeedStored, PageStored, DoneStored, RunStored,
             PublishStored, QuietStored DEF Next, Run
<1>2. TypeOK /\ IInv /\ WrittenInv /\ [Next]_vars => WrittenInv'
  BY WrittenStep
<1>3. TypeOK /\ StoredInv => CheckpointStored
  <2> SUFFICES ASSUME TypeOK, StoredInv, pc = "idle", NEW a \in Checkpointed
               PROVE  OnDisk(a)
    BY DEF CheckpointStored
  <2>1. a \in Feed /\ upd[a] <= DurableMarker
    BY SetsAssumption DEF Checkpointed, Feed, TypeOK, Clock, DurableMarker
  <2> QED BY <2>1 DEF StoredInv
<1> QED BY <1>1, <1>2, <1>3, InitStored, InitWritten, Inductive, TypeCorrect, PTL
        DEF Spec
=============================================================================

----------------------------- MODULE FileProofs -----------------------------
(***************************************************************************)
(* For any files, commits, packages, versions and clients, whatever failed *)
(* or died before: what the markers of three parts of DataFiles say is     *)
(* true, and what the parts keep on disk is complete and belongs together. *)
(* Every part is an instance of its module; its theorems are about the     *)
(* part alone, and the last one of each kind puts them together.           *)
(***************************************************************************)
EXTENDS DataFiles, Sequences, FiniteSetTheorems, WellFoundedInduction, TLAPS

-----------------------------------------------------------------------------
(* The CVE list: its scan and its delta.                                   *)

\* What the scan may skip by the marker and the time of the state s.
CveSkips(s, f) == cve_mtime[f] > 0 /\ f <= s.marker /\ cve_mtime[f] <= s.scan

CveStages == {"list", "commits", "stamp", "save"}
CveItems  == cve_kept \cup cve_excused \cup cve_got

\* During the scan every file it has passed is accounted for; later all that
\* the new marker and time will skip is.
CveScanInv ==
  /\ Cve!ScanAccounted
  /\ cve_pc = "scan" =>
       /\ cve_state = cve_disk
       /\ \A f \in CveFiles \ cve_todo : cve_mtime[f] > 0
            => Cve!Revision(f) \in CveItems
  /\ cve_pc \in CveStages =>
       \A f \in CveFiles : CveSkips(cve_state, f) => Cve!Revision(f) \in CveItems

\* The commits up to the one in the state are accounted for, and in the delta
\* those up to the newest that are not still on the page.
CveDeltaInv ==
  /\ Cve!DeltaAccounted
  /\ cve_pc # "idle" => \A c \in 1..cve_state.head : Cve!Commit(c) \in CveItems
  /\ cve_pc \in {"commits", "stamp"} =>
       \A c \in 1..cve_newest : c \notin cve_page => Cve!Commit(c) \in CveItems
  /\ cve_pc = "stamp" => cve_page = {}

\* Behind a marker every file that was kept was written before the time.
CveOldInv ==
  /\ cve_pc = "idle" => cve_got = {}
  /\ \A r \in cve_kept \cup cve_got : r[1] = "file" => r[3] <= cve_clock
  /\ cve_disk.marker # 0 => \A r \in cve_kept : r[1] = "file"
       => r[3] <= cve_disk.scan
  /\ cve_pc \in CveStages /\ cve_state.marker # 0 =>
       \A r \in cve_kept \cup cve_got : r[1] = "file" => r[3] <= cve_state.scan

CveInv == Cve!TypeOK /\ CveScanInv /\ CveDeltaInv /\ CveOldInv

LEMMA CveInit == Cve!CveFeedsAssumption /\ Cve!Init => CveInv
BY DEF Cve!CveFeedsAssumption, Cve!Init, CveInv, Cve!TypeOK, Cve!NoState,
   Cve!Items, CveScanInv, CveDeltaInv, CveOldInv, CveStages, Cve!ScanAccounted,
   Cve!DeltaAccounted

\* A revision and a commit are items, and no two files share one.
LEMMA CveItemFacts ==
  ASSUME Cve!CveFeedsAssumption, Cve!TypeOK
  PROVE  /\ \A f \in CveFiles : Cve!Revision(f) \in Cve!Items
              /\ Cve!Revision(f)[1] = "file"
                               /\ Cve!Revision(f)[3] = cve_mtime[f]
         /\ \A c \in Nat : Cve!Commit(c) \in Cve!Items
              /\ Cve!Commit(c)[1] = "commit"
BY DEF Cve!CveFeedsAssumption, Cve!TypeOK, Cve!Revision, Cve!Commit, Cve!Items

LEMMA CveTypeStep ==
  ASSUME Cve!CveFeedsAssumption, Cve!TypeOK, [Cve!Next]_(Cve!vars) PROVE Cve!TypeOK'
<1> USE DEF Cve!CveFeedsAssumption, Cve!TypeOK
<1>0. Cve!TypeOK
  OBVIOUS
<1>1. CASE UNCHANGED Cve!vars
  BY <1>1 DEF Cve!vars, Cve!upstream, Cve!diskVars, Cve!scanVars, Cve!pageVars
<1>2. CASE Cve!Start
  BY <1>2 DEF Cve!Start, Cve!upstream, Cve!diskVars, Cve!pageVars
<1>3. ASSUME NEW f \in CveFiles, Cve!SkipFile(f) \/ Cve!ReadFile(f)
               \/ Cve!ReadFails(f)
      PROVE  Cve!TypeOK'
  BY <1>3, CveItemFacts DEF Cve!SkipFile, Cve!ReadFile, Cve!ReadFails,
     Cve!AtFile, Cve!Excuse, Cve!upstream, Cve!diskVars, Cve!pageVars
<1>4. CASE Cve!StampScan
  BY <1>4 DEF Cve!StampScan, Cve!upstream, Cve!diskVars, Cve!scanVars,
     Cve!pageVars
<1>5. CASE Cve!ListCommits
  BY <1>5, CveItemFacts DEF Cve!ListCommits, Cve!Excuse, Cve!upstream,
     Cve!diskVars, Cve!scanVars
<1>6. CASE Cve!ListFails
  BY <1>6 DEF Cve!ListFails, Cve!upstream, Cve!diskVars, Cve!scanVars
<1>7. ASSUME NEW c \in 1..CveMaxEvents, Cve!ReadCommit(c) \/ Cve!RawFails(c)
               \/ Cve!RateLimited(c) \/ Cve!CommitFails(c)
      PROVE Cve!TypeOK'
  BY <1>7, CveItemFacts DEF Cve!ReadCommit, Cve!RawFails, Cve!RateLimited,
     Cve!CommitFails, Cve!AtCommit, Cve!Excuse, Cve!upstream, Cve!diskVars,
     Cve!scanVars
<1>8. CASE Cve!CommitsDone
  BY <1>8 DEF Cve!CommitsDone, Cve!upstream, Cve!diskVars, Cve!scanVars,
     Cve!pageVars
<1>12. CASE Cve!StampHead
  <2>1. cve_state' = [cve_state EXCEPT !.head = cve_newest] /\ cve_pc' = "save"
        /\ UNCHANGED <<Cve!upstream, Cve!diskVars, Cve!scanVars, Cve!pageVars,
             cve_got, cve_excused>>
    BY <1>12 DEF Cve!StampHead
  <2>2. /\ cve_state'.marker \in CveFiles \cup {0}
             /\ cve_state'.scan \in 0..cve_clock
        /\ cve_state'.head \in 0..cve_head
    BY <2>1
  <2> QED
    BY <2>1, <2>2 DEF Cve!upstream, Cve!diskVars, Cve!scanVars, Cve!pageVars
<1>9. CASE Cve!Save \/ Cve!SaveTorn \/ Cve!Crash
  BY <1>9 DEF Cve!Save, Cve!SaveTorn, Cve!Crash, Cve!End, Cve!NoState,
     Cve!upstream, Cve!diskVars
<1>10. CASE Cve!Push
  BY <1>10 DEF Cve!Push, Cve!diskVars, Cve!scanVars, Cve!pageVars
<1>11. ASSUME NEW written \in (SUBSET CveFiles) \ {{}}, Cve!Pull(written)
       PROVE  Cve!TypeOK'
  BY <1>11 DEF Cve!Pull, Cve!Excuse, Cve!diskVars, Cve!scanVars, Cve!pageVars,
     Cve!Items
<1> QED
  BY <1>1, <1>2, <1>3, <1>4, <1>5, <1>6, <1>7, <1>8, <1>9, <1>10, <1>11, <1>12
     DEF Cve!Next, Cve!Step

\* A step that writes no file, moves no marker and forgets nothing.
LEMMA CveScanStep ==
  ASSUME Cve!CveFeedsAssumption, CveInv, [Cve!Next]_(Cve!vars) PROVE CveScanInv'
<1> USE DEF Cve!CveFeedsAssumption, CveInv, Cve!TypeOK, CveScanInv,
        Cve!ScanAccounted, CveItems, CveSkips, CveStages, Cve!Revision
<1>1. CASE UNCHANGED Cve!vars
  BY <1>1 DEF Cve!vars, Cve!upstream, Cve!diskVars, Cve!scanVars, Cve!pageVars
<1>2. CASE Cve!Start
  BY <1>2 DEF Cve!Start, Cve!upstream, Cve!diskVars, Cve!pageVars
<1>3. ASSUME NEW f \in CveFiles, Cve!SkipFile(f) \/ Cve!ReadFile(f)
               \/ Cve!ReadFails(f)
      PROVE  CveScanInv'
  BY <1>3 DEF Cve!SkipFile, Cve!ReadFile, Cve!ReadFails, Cve!AtFile, Cve!Skip,
     Cve!Excuse, Cve!upstream, Cve!diskVars, Cve!pageVars
<1>4. CASE Cve!StampScan
  BY <1>4 DEF Cve!StampScan, Cve!upstream, Cve!diskVars, Cve!scanVars,
     Cve!pageVars
<1>5. CASE Cve!ListCommits
  BY <1>5 DEF Cve!ListCommits, Cve!Excuse, Cve!upstream, Cve!diskVars,
     Cve!scanVars
<1>6. CASE Cve!ListFails
  BY <1>6 DEF Cve!ListFails, Cve!upstream, Cve!diskVars, Cve!scanVars
<1>7. ASSUME NEW c \in 1..CveMaxEvents, Cve!ReadCommit(c) \/ Cve!RawFails(c)
               \/ Cve!RateLimited(c) \/ Cve!CommitFails(c)
      PROVE CveScanInv'
  BY <1>7 DEF Cve!ReadCommit, Cve!RawFails, Cve!RateLimited, Cve!CommitFails,
     Cve!AtCommit, Cve!Excuse, Cve!upstream, Cve!diskVars, Cve!scanVars
<1>8. CASE Cve!CommitsDone
  BY <1>8 DEF Cve!CommitsDone, Cve!upstream, Cve!diskVars, Cve!scanVars,
     Cve!pageVars
<1>12. CASE Cve!StampHead
  <2>1. cve_state' = [cve_state EXCEPT !.head = cve_newest] /\ cve_pc = "stamp"
          /\ cve_pc' = "save"
        /\ UNCHANGED <<Cve!upstream, Cve!diskVars, Cve!scanVars, Cve!pageVars,
             cve_got, cve_excused>>
    BY <1>12 DEF Cve!StampHead
  <2>2. cve_state'.marker = cve_state.marker /\ cve_state'.scan = cve_state.scan
          /\ cve_state'.head = cve_newest
    BY <2>1
  <2> QED
    BY <2>1, <2>2 DEF Cve!upstream, Cve!diskVars, Cve!scanVars, Cve!pageVars
<1>9. CASE Cve!Save \/ Cve!SaveTorn \/ Cve!Crash
  BY <1>9 DEF Cve!Save, Cve!SaveTorn, Cve!Crash, Cve!End, Cve!NoState,
     Cve!upstream, Cve!diskVars
<1>10. CASE Cve!Push
  BY <1>10 DEF Cve!Push, Cve!diskVars, Cve!scanVars, Cve!pageVars
<1>11. ASSUME NEW written \in (SUBSET CveFiles) \ {{}}, Cve!Pull(written)
       PROVE  CveScanInv'
  BY <1>11 DEF Cve!Pull, Cve!Excuse, Cve!diskVars, Cve!scanVars, Cve!pageVars
<1> QED
  BY <1>1, <1>2, <1>3, <1>4, <1>5, <1>6, <1>7, <1>8, <1>9, <1>10, <1>11, <1>12
     DEF Cve!Next, Cve!Step

LEMMA CveDeltaStep ==
  ASSUME Cve!CveFeedsAssumption, CveInv, [Cve!Next]_(Cve!vars) PROVE CveDeltaInv'
<1> USE DEF Cve!CveFeedsAssumption, CveInv, Cve!TypeOK, CveDeltaInv,
        Cve!DeltaAccounted, CveItems, Cve!Commit
<1>1. CASE UNCHANGED Cve!vars
  BY <1>1 DEF Cve!vars, Cve!upstream, Cve!diskVars, Cve!scanVars, Cve!pageVars
<1>2. CASE Cve!Start
  BY <1>2 DEF Cve!Start, Cve!upstream, Cve!diskVars, Cve!pageVars
<1>3. ASSUME NEW f \in CveFiles, Cve!SkipFile(f) \/ Cve!ReadFile(f)
               \/ Cve!ReadFails(f)
      PROVE  CveDeltaInv'
  BY <1>3 DEF Cve!SkipFile, Cve!ReadFile, Cve!ReadFails, Cve!AtFile, Cve!Skip,
     Cve!Excuse, Cve!upstream, Cve!diskVars, Cve!pageVars
<1>4. CASE Cve!StampScan
  BY <1>4 DEF Cve!StampScan, Cve!upstream, Cve!diskVars, Cve!scanVars,
     Cve!pageVars
<1>5. CASE Cve!ListCommits
  BY <1>5 DEF Cve!ListCommits, Cve!Excuse, Cve!upstream, Cve!diskVars,
     Cve!scanVars
<1>6. CASE Cve!ListFails
  BY <1>6 DEF Cve!ListFails, Cve!upstream, Cve!diskVars, Cve!scanVars
<1>7. ASSUME NEW c \in 1..CveMaxEvents, Cve!ReadCommit(c) \/ Cve!RawFails(c)
               \/ Cve!RateLimited(c) \/ Cve!CommitFails(c)
      PROVE CveDeltaInv'
  BY <1>7 DEF Cve!ReadCommit, Cve!RawFails, Cve!RateLimited, Cve!CommitFails,
     Cve!AtCommit, Cve!Excuse, Cve!upstream, Cve!diskVars, Cve!scanVars
<1>8. CASE Cve!CommitsDone
  BY <1>8 DEF Cve!CommitsDone, Cve!upstream, Cve!diskVars, Cve!scanVars,
     Cve!pageVars
<1>12. CASE Cve!StampHead
  <2>1. cve_state' = [cve_state EXCEPT !.head = cve_newest] /\ cve_pc = "stamp"
          /\ cve_pc' = "save"
        /\ UNCHANGED <<Cve!upstream, Cve!diskVars, Cve!scanVars, Cve!pageVars,
             cve_got, cve_excused>>
    BY <1>12 DEF Cve!StampHead
  <2>2. cve_state'.marker = cve_state.marker /\ cve_state'.scan = cve_state.scan
          /\ cve_state'.head = cve_newest
    BY <2>1
  <2> QED
    BY <2>1, <2>2 DEF Cve!upstream, Cve!diskVars, Cve!scanVars, Cve!pageVars
<1>9. CASE Cve!Save \/ Cve!SaveTorn \/ Cve!Crash
  BY <1>9 DEF Cve!Save, Cve!SaveTorn, Cve!Crash, Cve!End, Cve!NoState,
     Cve!upstream, Cve!diskVars
<1>10. CASE Cve!Push
  BY <1>10 DEF Cve!Push, Cve!diskVars, Cve!scanVars, Cve!pageVars
<1>11. ASSUME NEW written \in (SUBSET CveFiles) \ {{}}, Cve!Pull(written)
       PROVE  CveDeltaInv'
  BY <1>11 DEF Cve!Pull, Cve!Excuse, Cve!diskVars, Cve!scanVars, Cve!pageVars
<1> QED
  BY <1>1, <1>2, <1>3, <1>4, <1>5, <1>6, <1>7, <1>8, <1>9, <1>10, <1>11, <1>12
     DEF Cve!Next, Cve!Step

LEMMA CveOldStep ==
  ASSUME Cve!CveFeedsAssumption, CveInv, [Cve!Next]_(Cve!vars) PROVE CveOldInv'
<1> USE DEF Cve!CveFeedsAssumption, CveInv, Cve!TypeOK, CveOldInv, CveStages,
        CveScanInv, Cve!Items
<1>1. CASE UNCHANGED Cve!vars
  BY <1>1 DEF Cve!vars, Cve!upstream, Cve!diskVars, Cve!scanVars, Cve!pageVars
<1>2. CASE Cve!Start
  BY <1>2 DEF Cve!Start, Cve!upstream, Cve!diskVars, Cve!pageVars
<1>3. ASSUME NEW f \in CveFiles, Cve!SkipFile(f) \/ Cve!ReadFile(f)
               \/ Cve!ReadFails(f)
      PROVE  CveOldInv'
  <2>1. cve_pc = "scan"
          /\ UNCHANGED <<cve_clock, cve_mtime, cve_kept, cve_disk, cve_pc,
               cve_state>>
        /\ (cve_got' = cve_got \/ cve_got' = cve_got \cup {Cve!Revision(f)})
    BY <1>3 DEF Cve!SkipFile, Cve!ReadFile, Cve!ReadFails, Cve!AtFile,
       Cve!upstream, Cve!diskVars
  <2>2. Cve!Revision(f)[3] <= cve_clock
    BY CveItemFacts
  <2> QED
    BY <2>1, <2>2
<1>4. CASE Cve!StampScan
  BY <1>4 DEF Cve!StampScan, Cve!upstream, Cve!diskVars, Cve!scanVars,
     Cve!pageVars
<1>5. CASE Cve!ListCommits
  BY <1>5 DEF Cve!ListCommits, Cve!Excuse, Cve!upstream, Cve!diskVars,
     Cve!scanVars
<1>6. CASE Cve!ListFails
  BY <1>6 DEF Cve!ListFails, Cve!upstream, Cve!diskVars, Cve!scanVars
<1>7. ASSUME NEW c \in 1..CveMaxEvents, Cve!ReadCommit(c) \/ Cve!RawFails(c)
               \/ Cve!RateLimited(c) \/ Cve!CommitFails(c)
      PROVE CveOldInv'
  <2>1. UNCHANGED <<cve_clock, cve_mtime, cve_kept, cve_disk, cve_state>>
          /\ cve_pc = "commits"
        /\ cve_pc' \in CveStages /\ (cve_got' = cve_got
             \/ cve_got' = cve_got \cup {Cve!Commit(c)})
    BY <1>7 DEF Cve!ReadCommit, Cve!RawFails, Cve!RateLimited, Cve!CommitFails,
       Cve!AtCommit, Cve!upstream, Cve!diskVars
  <2>2. Cve!Commit(c)[1] = "commit"
    BY CveItemFacts
  <2> QED
    BY <2>1, <2>2
<1>8. CASE Cve!CommitsDone
  BY <1>8 DEF Cve!CommitsDone, Cve!upstream, Cve!diskVars, Cve!scanVars,
     Cve!pageVars
<1>12. CASE Cve!StampHead
  <2>1. cve_state' = [cve_state EXCEPT !.head = cve_newest] /\ cve_pc = "stamp"
          /\ cve_pc' = "save"
        /\ UNCHANGED <<Cve!upstream, Cve!diskVars, Cve!scanVars, Cve!pageVars,
             cve_got, cve_excused>>
    BY <1>12 DEF Cve!StampHead
  <2>2. cve_state'.marker = cve_state.marker /\ cve_state'.scan = cve_state.scan
          /\ cve_state'.head = cve_newest
    BY <2>1
  <2> QED
    BY <2>1, <2>2 DEF Cve!upstream, Cve!diskVars, Cve!scanVars, Cve!pageVars
<1>9. CASE Cve!Save \/ Cve!SaveTorn \/ Cve!Crash
  BY <1>9 DEF Cve!Save, Cve!SaveTorn, Cve!Crash, Cve!End, Cve!NoState,
     Cve!upstream, Cve!diskVars
<1>10. CASE Cve!Push
  BY <1>10 DEF Cve!Push, Cve!diskVars, Cve!scanVars, Cve!pageVars
<1>11. ASSUME NEW written \in (SUBSET CveFiles) \ {{}}, Cve!Pull(written)
       PROVE  CveOldInv'
  BY <1>11 DEF Cve!Pull, Cve!Excuse, Cve!diskVars, Cve!scanVars, Cve!pageVars
<1> QED
  BY <1>1, <1>2, <1>3, <1>4, <1>5, <1>6, <1>7, <1>8, <1>9, <1>10, <1>11, <1>12
     DEF Cve!Next, Cve!Step

LEMMA CveReread ==
  ASSUME Cve!CveFeedsAssumption, CveInv PROVE Cve!RereadOnlyBehind
<1> SUFFICES ASSUME NEW f \in CveFiles, Cve!ReadFile(f),
                      Cve!Revision(f) \in cve_kept
    PROVE  f > cve_state.marker
  BY DEF Cve!RereadOnlyBehind
<1>1. cve_pc = "scan" /\ cve_state = cve_disk /\ ~Cve!Skip(f)
  BY DEF Cve!ReadFile, Cve!AtFile, CveInv, CveScanInv
<1>2. Cve!Revision(f)[1] = "file" /\ Cve!Revision(f)[3] = cve_mtime[f]
  BY CveItemFacts DEF CveInv
<1>3. cve_disk.marker # 0 => cve_mtime[f] <= cve_disk.scan
  BY <1>2 DEF CveInv, CveOldInv
<1>4. f \in Nat /\ f # 0 /\ cve_clock \in Nat
  BY DEF Cve!CveFeedsAssumption, CveInv, Cve!TypeOK
<1>5. cve_disk.marker \in CveFiles \cup {0} /\ cve_disk.scan \in 0..cve_clock
        /\ cve_mtime[f] \in 0..cve_clock
  BY DEF CveInv, Cve!TypeOK
<1>6. cve_disk.marker \in Nat
  <2>1. \A n \in CveFiles \cup {0} : n \in Nat
    BY DEF Cve!CveFeedsAssumption
  <2> QED
    BY <1>5, <2>1
<1>7. cve_disk.scan \in Nat /\ cve_mtime[f] \in Nat
  BY <1>4, <1>5
<1> QED
  BY <1>1, <1>3, <1>4, <1>6, <1>7 DEF Cve!Skip

\* The invariant of the two feeds of the CVE list.
LEMMA CveInductive == Cve!CveFeedsAssumption /\ Cve!Spec => []CveInv
<1> SUFFICES ASSUME Cve!CveFeedsAssumption PROVE Cve!Spec => []CveInv
  OBVIOUS
<1>1. Cve!Init => CveInv
  BY CveInit
<1>2. CveInv /\ [Cve!Next]_(Cve!vars) => CveInv'
  BY CveTypeStep, CveScanStep, CveDeltaStep, CveOldStep DEF CveInv
<1> QED
  BY <1>1, <1>2, PTL DEF Cve!Spec

\* What the next scan or delta of the CVE list skips was collected by a run
\* that came to its end, or was passed over for a reason that is named
\* (McpVulnerabilityPipeline.run, stages 3 and 5).
THEOREM CveSafe ==
  Cve!CveFeedsAssumption /\ Cve!Spec => [](Cve!ScanAccounted /\ Cve!DeltaAccounted)
<1>1. CveInv => Cve!ScanAccounted /\ Cve!DeltaAccounted
  BY DEF CveInv, CveScanInv, CveDeltaInv
<1> QED
  BY <1>1, CveInductive, PTL

\* A file that was kept and not written since is read again only beyond the
\* marker.
THEOREM RereadSafe == Cve!CveFeedsAssumption /\ Cve!Spec
  => [][Cve!RereadOnlyBehind]_(Cve!vars)
<1> SUFFICES ASSUME Cve!CveFeedsAssumption
    PROVE  Cve!Spec => [][Cve!RereadOnlyBehind]_(Cve!vars)
  OBVIOUS
<1>1. CveInv /\ [Cve!Next]_(Cve!vars) => [Cve!RereadOnlyBehind]_(Cve!vars)
  BY CveReread
<1> QED
  BY <1>1, CveInductive, PTL DEF Cve!Spec

-----------------------------------------------------------------------------
(* The KEV catalogue: two files and the memory of its clients.             *)

\* A download that was the only one so far is the only one that writes, and
\* wrote the ETag last.
KevAlone ==
  \A c \in Kev!Writing : kev_alone[c] => Kev!Writing = {c}
    /\ (kev_pc[c] = "cache" => kev_meta = kev_body[c])

\* The version of the last sync() that ended well is in memory.
KevTold ==
  \A c \in KevClients :
    kev_told[c] # 0 => kev_pc[c] = "idle" /\ (kev_told[c] \in kev_broken
      \/ (kev_records[c] = kev_told[c] /\ kev_loaded[c]))

\* While nobody is between the two writes and the last download was clean,
\* the files belong together and nobody holds a newer catalogue.
KevClean ==
  (\A c \in KevClients : kev_pc[c] # "cache") /\ ~kev_mixed =>
    /\ kev_meta # Kev!Torn => kev_cache = kev_meta
    /\ kev_cache # Kev!Torn
    /\ \A d \in KevClients : kev_records[d] <= kev_cache /\ (kev_pc[d] = "parse"
         => kev_body[d] <= kev_cache)

\* A download that is alone brings the newest catalogue; every download one
\* that is not older than what its client holds.
KevNewest ==
  /\ \A c \in KevClients : kev_pc[c] # "idle" => kev_records[c] <= kev_body[c]
  /\ \A c \in Kev!Writing : kev_alone[c] =>
       /\ kev_cache <= kev_body[c]
       /\ \A d \in KevClients : kev_records[d] <= kev_body[c]
            /\ (kev_pc[d] = "parse" => kev_body[d] <= kev_body[c])

KevInv == Kev!TypeOK /\ KevAlone /\ KevTold /\ KevClean /\ KevNewest

LEMMA KevInit == Kev!KevCacheAssumption /\ Kev!Init => KevInv
<1> SUFFICES ASSUME Kev!KevCacheAssumption, Kev!Init PROVE KevInv
  OBVIOUS
<1>1. Kev!TypeOK
  <2>1. kev_alone \in [KevClients -> BOOLEAN]
          /\ kev_loaded \in [KevClients -> BOOLEAN] /\ kev_mixed \in BOOLEAN
    BY Zenon DEF Kev!Init
  <2> QED
    BY <2>1 DEF Kev!KevCacheAssumption, Kev!Init, Kev!TypeOK, Kev!Torn
<1>2. KevAlone /\ KevTold /\ KevClean /\ KevNewest
  BY DEF Kev!Init, KevAlone, KevTold, KevClean, KevNewest, Kev!Writing,
     Kev!Torn
<1> QED
  BY <1>1, <1>2 DEF KevInv

\* A lookup, and a sync() that ends without a download, leave the files and the
\* downloads alone; they load what is in the cache, or nothing.
KevLooks(c) ==
  /\ kev_pc[c] = "idle"
  /\ UNCHANGED <<kev_up, kev_broken, Kev!files, kev_pc, kev_body, kev_alone,
       kev_mixed>>
  /\ \/ UNCHANGED Kev!mem
     \/ /\ kev_cache \in 1..kev_up /\ kev_cache \notin kev_broken
        /\ kev_records' = [kev_records EXCEPT ![c] = kev_cache]
             /\ kev_loaded' = [kev_loaded EXCEPT ![c] = TRUE]

LEMMA KevLoads ==
  ASSUME KevInv, NEW c \in KevClients, Kev!FetchFails(c) \/ Kev!NotModified(c)
           \/ Kev!Lookup(c)
  PROVE  KevLooks(c)
<1>1. kev_cache \in Kev!Torn..kev_up
  BY DEF KevInv, Kev!TypeOK
<1>2. Kev!LoadFromCache(c) /\ kev_pc[c] = "idle"
        /\ UNCHANGED <<kev_up, kev_broken, Kev!files, kev_pc, kev_body, kev_alone,
             kev_mixed>>
  BY DEF Kev!FetchFails, Kev!NotModified, Kev!Lookup
<1>3. kev_up \in Nat
  BY DEF KevInv, Kev!TypeOK
<1> QED
  BY <1>1, <1>2, <1>3 DEF KevLooks, Kev!LoadFromCache, Kev!Load, Kev!Torn

LEMMA KevTypeStep ==
  ASSUME Kev!KevCacheAssumption, KevInv, [Kev!Next]_(Kev!vars) PROVE Kev!TypeOK'
<1> USE DEF Kev!KevCacheAssumption, Kev!TypeOK, Kev!Torn
<1>0. Kev!TypeOK
  BY DEF KevInv
<1>1. CASE UNCHANGED Kev!vars
  BY <1>0, <1>1 DEF Kev!vars, Kev!files, Kev!mem
<1>2. ASSUME NEW ok \in BOOLEAN, Kev!Publish(ok) PROVE Kev!TypeOK'
  BY <1>0, <1>2 DEF Kev!Publish, Kev!files, Kev!mem
<1>3. ASSUME NEW c \in KevClients, Kev!FetchFails(c) \/ Kev!NotModified(c)
               \/ Kev!Lookup(c)
      PROVE  Kev!TypeOK'
  <2>1. KevLooks(c)
    BY <1>3, KevLoads
  <2>2. kev_records' \in [KevClients -> 0..kev_up]
    BY <1>0, <2>1 DEF KevLooks, Kev!mem
  <2>4. kev_loaded' \in [KevClients -> BOOLEAN]
    BY <1>0, <2>1, Zenon DEF KevLooks, Kev!mem
  <2>3. kev_told' \in [KevClients -> 0..kev_up]
    BY <1>0, <1>3 DEF Kev!FetchFails, Kev!NotModified, Kev!Lookup
  <2> QED
    BY <1>0, <2>1, <2>2, <2>3, <2>4 DEF KevLooks, Kev!files
<1>5. ASSUME NEW c \in KevClients, Kev!Fetch(c) PROVE Kev!TypeOK'
  <2>1. kev_alone' \in [KevClients -> BOOLEAN]
    BY <1>5, Zenon DEF Kev!Fetch
  <2> QED
    BY <1>0, <1>5, <2>1 DEF Kev!Fetch, Kev!GoTo, Kev!files, Kev!mem
<1>6. ASSUME NEW c \in KevClients, Kev!WriteMeta(c) PROVE Kev!TypeOK'
  BY <1>0, <1>6 DEF Kev!WriteMeta, Kev!GoTo, Kev!files, Kev!mem
<1>7. ASSUME NEW c \in KevClients, Kev!WriteCache(c) PROVE Kev!TypeOK'
  <2>1. kev_mixed' \in BOOLEAN
    BY <1>7, Zenon DEF Kev!WriteCache
  <2> QED
    BY <1>0, <1>7, <2>1 DEF Kev!WriteCache, Kev!GoTo, Kev!files, Kev!mem
<1>8. ASSUME NEW c \in KevClients, Kev!Parse(c) PROVE Kev!TypeOK'
  <2>1. UNCHANGED Kev!mem \/ \E n \in 0..kev_up : Kev!Load(c, n)
    BY <1>0, <1>8 DEF Kev!Parse, Kev!LoadFromCache
  <2>2. kev_records' \in [KevClients -> 0..kev_up]
    BY <1>0, <2>1 DEF Kev!Load, Kev!mem
  <2>3. kev_loaded' \in [KevClients -> BOOLEAN]
    BY <1>0, <2>1, Zenon DEF Kev!Load, Kev!mem
  <2>4. kev_alone' \in [KevClients -> BOOLEAN]
    BY <1>0, <1>8, Zenon DEF Kev!Parse
  <2> QED
    BY <1>0, <1>8, <2>2, <2>3, <2>4 DEF Kev!Parse, Kev!GoTo, Kev!files
<1>10. ASSUME NEW c \in KevClients, Kev!Die(c) PROVE Kev!TypeOK'
  <2>1. kev_mixed' \in BOOLEAN
    BY <1>10, Zenon DEF Kev!Die
  <2> QED
    BY <1>0, <1>10, <2>1 DEF Kev!Die, Kev!GoTo, Kev!files
<1> QED
  BY <1>1, <1>2, <1>3, <1>5, <1>6, <1>7, <1>8, <1>10 DEF Kev!Next

LEMMA KevStep ==
  ASSUME Kev!KevCacheAssumption, KevInv, [Kev!Next]_(Kev!vars)
  PROVE  KevInv'
<1>t. Kev!TypeOK'
  BY KevTypeStep
<1> USE DEF KevInv, Kev!TypeOK, KevAlone, KevTold, KevClean, KevNewest,
        Kev!Writing, Kev!Torn
<1>1. CASE UNCHANGED Kev!vars
  BY <1>1 DEF Kev!vars, Kev!files, Kev!mem
<1>2. ASSUME NEW ok \in BOOLEAN, Kev!Publish(ok) PROVE KevInv'
  BY <1>2, <1>t DEF Kev!Publish, Kev!files, Kev!mem
<1>3. ASSUME NEW c \in KevClients, Kev!FetchFails(c) \/ Kev!NotModified(c)
               \/ Kev!Lookup(c)
      PROVE  KevInv'
  <2>1. KevLooks(c)
    BY <1>3, KevLoads
  <2>2. KevTold'
    BY <1>3 DEF Kev!FetchFails, Kev!NotModified, Kev!Lookup, Kev!LoadFromCache,
       Kev!Load, Kev!mem
  <2>3. KevAlone'
    BY <2>1 DEF KevLooks, Kev!files
  <2>4. KevClean'
    BY <2>1, <1>t DEF KevLooks, Kev!files, Kev!mem
  <2>5. KevNewest'
    BY <2>1, <1>t DEF KevLooks, Kev!files, Kev!mem
  <2> QED
    BY <1>t, <2>2, <2>3, <2>4, <2>5
<1>5. ASSUME NEW c \in KevClients, Kev!Fetch(c) PROVE KevInv'
  <2>2. KevTold'
    BY <1>5 DEF Kev!Fetch, Kev!GoTo, Kev!files, Kev!mem
  <2>3. KevAlone'
    BY <1>5 DEF Kev!Fetch, Kev!GoTo, Kev!files, Kev!mem
  <2>4. KevClean'
    BY <1>5 DEF Kev!Fetch, Kev!GoTo, Kev!files, Kev!mem
  <2>5. KevNewest'
    BY <1>5 DEF Kev!Fetch, Kev!GoTo, Kev!files, Kev!mem
  <2> QED
    BY <1>t, <2>2, <2>3, <2>4, <2>5
<1>6. ASSUME NEW c \in KevClients, Kev!WriteMeta(c) PROVE KevInv'
  BY <1>6, <1>t DEF Kev!WriteMeta, Kev!GoTo, Kev!files, Kev!mem
<1>7. ASSUME NEW c \in KevClients, Kev!WriteCache(c) PROVE KevInv'
  <2>2. KevTold'
    BY <1>7 DEF Kev!WriteCache, Kev!GoTo, Kev!files, Kev!mem
  <2>3. KevAlone'
    BY <1>7 DEF Kev!WriteCache, Kev!GoTo, Kev!files, Kev!mem
  <2>4. KevClean'
    <3>1. CASE ~kev_alone[c]
      BY <1>7, <3>1 DEF Kev!WriteCache
    <3>2. CASE kev_alone[c]
      <4>1. /\ kev_pc[c] = "cache" /\ kev_cache' = kev_body[c]
                 /\ kev_pc' = [kev_pc EXCEPT ![c] = "parse"]
            /\ UNCHANGED <<kev_meta, kev_records, kev_body>>
        BY <1>7 DEF Kev!WriteCache, Kev!GoTo, Kev!mem
      <4>2. kev_meta = kev_body[c] /\ kev_body[c] \in Nat
        BY <3>2, <4>1
      <4>3. \A d \in KevClients : kev_records[d] <= kev_body[c]
              /\ (kev_pc[d] = "parse" => kev_body[d] <= kev_body[c])
        BY <3>2, <4>1
      <4> QED
        BY <4>1, <4>2, <4>3
    <3> QED
      BY <3>1, <3>2
  <2>5. KevNewest'
    BY <1>7 DEF Kev!WriteCache, Kev!GoTo, Kev!files, Kev!mem
  <2> QED
    BY <1>t, <2>2, <2>3, <2>4, <2>5
<1>8. ASSUME NEW c \in KevClients, Kev!Parse(c) PROVE KevInv'
  <2>2. KevTold'
    BY <1>8 DEF Kev!Parse, Kev!GoTo, Kev!LoadFromCache, Kev!Load, Kev!files,
       Kev!mem
  <2>3. KevAlone'
    BY <1>8 DEF Kev!Parse, Kev!GoTo, Kev!files
  <2>4. KevClean'
    BY <1>8 DEF Kev!Parse, Kev!GoTo, Kev!LoadFromCache, Kev!Load, Kev!files,
       Kev!mem
  <2>5. KevNewest'
    BY <1>8 DEF Kev!Parse, Kev!GoTo, Kev!LoadFromCache, Kev!Load, Kev!files,
       Kev!mem
  <2> QED
    BY <1>t, <2>2, <2>3, <2>4, <2>5
<1>10. ASSUME NEW c \in KevClients, Kev!Die(c) PROVE KevInv'
  <2>2. KevTold'
    BY <1>10 DEF Kev!Die, Kev!GoTo, Kev!files, Kev!mem
  <2>3. KevAlone'
    BY <1>10 DEF Kev!Die, Kev!GoTo, Kev!files, Kev!mem
  <2>4. KevClean'
    <3>1. CASE kev_pc[c] = "cache"
      BY <1>10, <3>1 DEF Kev!Die
    <3>2. CASE kev_pc[c] # "cache"
      <4>1. /\ UNCHANGED kev_cache /\ (kev_mixed' <=> kev_mixed)
                 /\ (UNCHANGED kev_meta \/ kev_meta' = Kev!Torn)
            /\ kev_pc' = [kev_pc EXCEPT ![c] = "idle"]
                 /\ kev_body' = [kev_body EXCEPT ![c] = 0]
            /\ kev_records' = [kev_records EXCEPT ![c] = 0]
        BY <1>10, <3>2 DEF Kev!Die, Kev!GoTo, Kev!files
      <4>2. ~kev_mixed /\ (\A d \in KevClients : kev_pc[d] # "cache")
              => kev_cache \in Nat
        OBVIOUS
      <4> QED
        BY <3>2, <4>1, <4>2
    <3> QED
      BY <3>1, <3>2
  <2>5. KevNewest'
    BY <1>10 DEF Kev!Die, Kev!GoTo, Kev!files, Kev!mem
  <2> QED
    BY <1>t, <2>2, <2>3, <2>4, <2>5
<1> QED
  BY <1>1, <1>2, <1>3, <1>5, <1>6, <1>7, <1>8, <1>10 DEF Kev!Next

LEMMA KevSound == KevInv => Kev!EtagNamesCache /\ Kev!NotModifiedIsCurrent
BY DEF KevInv, KevClean, KevTold, Kev!EtagNamesCache, Kev!NotModifiedIsCurrent,
   Kev!Writing

LEMMA KevOlder ==
  ASSUME Kev!KevCacheAssumption, KevInv, [Kev!Next]_(Kev!vars)
  PROVE  Kev!NeverOlder
<1> SUFFICES ASSUME NEW c \in KevClients, ~Kev!Die(c), Kev!Writing \subseteq {c},
                      ~kev_mixed
             PROVE  kev_records'[c] >= kev_records[c]
  BY DEF Kev!NeverOlder
<1>0. kev_records[c] \in Nat /\ kev_cache \in Int
  BY DEF KevInv, Kev!TypeOK, Kev!Torn
<1>1. CASE kev_records'[c] = kev_records[c]
  BY <1>0, <1>1
<1>2. ASSUME Kev!FetchFails(c) \/ Kev!NotModified(c)
               \/ Kev!Lookup(c), kev_records'[c] # kev_records[c]
      PROVE  kev_records'[c] >= kev_records[c]
  <2>1. KevLooks(c)
    BY <1>2, KevLoads
  <2>2. \A d \in KevClients : kev_pc[d] # "cache"
    BY <2>1 DEF KevLooks, Kev!Writing
  <2>3. kev_records[c] <= kev_cache
    BY <2>2 DEF KevInv, KevClean
  <2>4. kev_records' = [kev_records EXCEPT ![c] = kev_cache]
    BY <1>2, <2>1 DEF KevLooks, Kev!mem
  <2> QED
    BY <1>0, <2>3, <2>4 DEF KevInv, Kev!TypeOK
<1>3. CASE Kev!Parse(c)
  <2>1. \A d \in KevClients : kev_pc[d] # "cache"
    BY <1>3 DEF Kev!Parse, Kev!Writing
  <2>2. kev_records[c] <= kev_cache /\ kev_records[c] <= kev_body[c]
          /\ kev_body[c] \in Nat
    BY <1>3, <2>1 DEF Kev!Parse, KevInv, Kev!TypeOK, KevClean, KevNewest
  <2>3. kev_records' = kev_records
          \/ kev_records' = [kev_records EXCEPT ![c] = kev_cache]
          \/ kev_records' = [kev_records EXCEPT ![c] = kev_body[c]]
    BY <1>3 DEF Kev!Parse, Kev!LoadFromCache, Kev!Load, Kev!mem
  <2> QED
    BY <1>0, <2>2, <2>3 DEF KevInv, Kev!TypeOK
<1>4. ASSUME kev_records'[c] # kev_records[c]
      PROVE  Kev!FetchFails(c) \/ Kev!NotModified(c) \/ Kev!Lookup(c)
               \/ Kev!Parse(c)
  <2>1. ASSUME NEW d \in KevClients, Kev!FetchFails(d) \/ Kev!NotModified(d)
                 \/ Kev!Lookup(d) \/ Kev!Parse(d) \/ Kev!Die(d)
        PROVE  d = c
    BY <1>4, <2>1 DEF Kev!FetchFails, Kev!NotModified, Kev!Lookup, Kev!Parse,
       Kev!Die, Kev!LoadFromCache, Kev!Load, Kev!mem, KevInv, Kev!TypeOK
  <2>2. ASSUME NEW d \in KevClients
        PROVE  ~(Kev!Fetch(d) \/ Kev!WriteMeta(d) \/ Kev!WriteCache(d))
    BY <1>4 DEF Kev!Fetch, Kev!WriteMeta, Kev!WriteCache, Kev!mem
  <2>3. ASSUME NEW ok \in BOOLEAN PROVE ~Kev!Publish(ok)
    BY <1>4 DEF Kev!Publish, Kev!mem
  <2>4. ~UNCHANGED Kev!vars
    BY <1>4 DEF Kev!vars, Kev!mem
  <2> QED
    BY <2>1, <2>2, <2>3, <2>4 DEF Kev!Next
<1> QED
  BY <1>1, <1>2, <1>3, <1>4

\* The invariant of the KEV cache.
LEMMA KevInductive == Kev!KevCacheAssumption /\ Kev!Spec => []KevInv
<1> SUFFICES ASSUME Kev!KevCacheAssumption PROVE Kev!Spec => []KevInv
  OBVIOUS
<1>1. Kev!Init => KevInv
  BY KevInit
<1>2. KevInv /\ [Kev!Next]_(Kev!vars) => KevInv'
  BY KevStep
<1> QED
  BY <1>1, <1>2, PTL DEF Kev!Spec

\* The ETag names the cached body, and a "not modified" left its client with
\* the current catalogue (sync).
THEOREM KevSafe ==
  Kev!KevCacheAssumption /\ Kev!Spec => [](Kev!EtagNamesCache
    /\ Kev!NotModifiedIsCurrent)
<1>1. KevInv => Kev!EtagNamesCache /\ Kev!NotModifiedIsCurrent
  BY KevSound
<1> QED
  BY <1>1, KevInductive, PTL

\* A client that is not disturbed never goes back to an older catalogue.
THEOREM NeverOlderSafe == Kev!KevCacheAssumption /\ Kev!Spec
  => [][Kev!NeverOlder]_(Kev!vars)
<1> SUFFICES ASSUME Kev!KevCacheAssumption
    PROVE  Kev!Spec => [][Kev!NeverOlder]_(Kev!vars)
  OBVIOUS
<1>1. KevInv /\ [Kev!Next]_(Kev!vars) => [Kev!NeverOlder]_(Kev!vars)
  BY KevOlder
<1> QED
  BY <1>1, KevInductive, PTL DEF Kev!Spec

-----------------------------------------------------------------------------
(* The PyPA mirror and its .sync_marker.                                   *)

\* A file of its package in that version or a later one is among S.
PypaHas(S, f) == \E g \in S : g[1] = f[1] /\ g[2] >= f[2]

\* The digest that will be the marker is of target files, which only grow
\* newer until they are read; what the marker stands for, in the store also
\* what the run has in hand, is accounted for.
PypaInv ==
  /\ Pypa!TypeOK
  /\ pypa_pc = "read" => \A f \in pypa_digest : f[1] \in Pypa!Targets
       /\ f[2] <= pypa_version[f[1]]
  /\ \A f \in pypa_marker : PypaHas(pypa_kept \cup pypa_excused \cup (IF pypa_pc = "store" THEN pypa_got ELSE {}), f)

LEMMA PypaInit == Pypa!PypaAssumption /\ Pypa!Init => PypaInv
BY DEF Pypa!PypaAssumption, Pypa!Init, PypaInv, Pypa!TypeOK

LEMMA PypaStep ==
  ASSUME Pypa!PypaAssumption, PypaInv, [Pypa!Next]_(Pypa!vars)
  PROVE  PypaInv'
<1> USE DEF Pypa!PypaAssumption, PypaInv, Pypa!TypeOK, PypaHas, Pypa!Files,
        Pypa!Present
<1>1. CASE UNCHANGED Pypa!vars
  BY <1>1 DEF Pypa!vars, Pypa!Targets
<1>2. ASSUME NEW p \in PypaPackages, Pypa!Pull(p) PROVE PypaInv'
  BY <1>2 DEF Pypa!Pull, Pypa!Targets
<1>3. ASSUME NEW p \in PypaPackages, Pypa!Catalogue(p) PROVE PypaInv'
  BY <1>3 DEF Pypa!Catalogue
<1>4. CASE Pypa!Digest
  BY <1>4 DEF Pypa!Digest, Pypa!Targets
<1>5. CASE Pypa!UpToDate
  BY <1>5 DEF Pypa!UpToDate
<1>6. CASE Pypa!Store
  BY <1>6 DEF Pypa!Store
<1>7. CASE Pypa!Die
  BY <1>7 DEF Pypa!Die
<1>8. ASSUME NEW broken \in SUBSET Pypa!Present, Pypa!Read(broken) PROVE PypaInv'
  <2>1. Pypa!TypeOK' /\ pypa_pc' = "store" /\ pypa_marker' = pypa_digest
    BY <1>8 DEF Pypa!Read
  <2>2. ASSUME NEW f \in pypa_digest
        PROVE  PypaHas(pypa_kept' \cup pypa_excused' \cup pypa_got', f)
    <3>1. f[1] \in PypaPackages /\ f[2] \in 1..PypaMaxVersion
            /\ pypa_version[f[1]] \in 0..PypaMaxVersion
      OBVIOUS
    <3>2. <<f[1], pypa_version[f[1]]>> \in Pypa!Present
      BY <1>8, <3>1 DEF Pypa!Read
    <3>3. <<f[1], pypa_version[f[1]]>> \in pypa_excused' \cup pypa_got'
      BY <1>8, <3>2 DEF Pypa!Read
    <3> QED
      BY <1>8, <3>3 DEF Pypa!Read
  <2> QED
    BY <2>1, <2>2
<1> QED
  BY <1>1, <1>2, <1>3, <1>4, <1>5, <1>6, <1>7, <1>8 DEF Pypa!Next

LEMMA PypaSound == PypaInv => Pypa!MarkerAccounted
BY DEF PypaInv, PypaHas, Pypa!MarkerAccounted

\* The invariant holds of every behaviour of the part.
LEMMA PypaInductive == Pypa!PypaAssumption
  => (Pypa!Spec => []PypaInv)
<1> SUFFICES ASSUME Pypa!PypaAssumption
    PROVE  Pypa!Spec => []PypaInv
  OBVIOUS
<1>1. Pypa!Init => PypaInv
  BY PypaInit
<1>2. PypaInv /\ [Pypa!Next]_(Pypa!vars) => PypaInv'
  BY PypaStep
<1> QED
  BY <1>1, <1>2, PTL DEF Pypa!Spec

\* What the PyPA marker stands for was kept, did not parse, or was lost with
\* the run that read it.
THEOREM PypaSafe == Pypa!PypaAssumption /\ Pypa!Spec => []Pypa!MarkerAccounted
<1> SUFFICES ASSUME Pypa!PypaAssumption PROVE Pypa!Spec => []Pypa!MarkerAccounted
  OBVIOUS
<1>1. PypaInv => Pypa!MarkerAccounted
  BY PypaSound
<1> QED
  BY <1>1, PypaInductive, PTL

-----------------------------------------------------------------------------
(* The parts side by side: each takes its own steps, or none.              *)

LEMMA CveRuns == Spec => Cve!Spec
<1>1. Init => Cve!Init
  BY DEF Init
<1>2. [Next]_vars => [Cve!Next]_(Cve!vars)
  BY DEF Next, vars, cveVars, Cve!vars, Cve!upstream, Cve!diskVars,
     Cve!scanVars, Cve!pageVars, CveNext, KevNext, EpssNext, FoundNext,
     FixerNext, PassportsNext, MalwareNext, PypaNext, GitlabNext, UpdatesNext,
     GraphNext, StoreNext, ProbeNext, SandboxNext, BridgeNext, BotNext,
     SiteNext, PubNext
<1> QED
  BY <1>1, <1>2, PTL DEF Spec, Cve!Spec

LEMMA KevRuns == Spec => Kev!Spec
<1>1. Init => Kev!Init
  BY DEF Init
<1>2. [Next]_vars => [Kev!Next]_(Kev!vars)
  BY DEF Next, vars, kevVars, Kev!vars, Kev!files, Kev!mem, CveNext, KevNext,
     EpssNext, FoundNext, FixerNext, PassportsNext, MalwareNext, PypaNext,
     GitlabNext, UpdatesNext, GraphNext, StoreNext, ProbeNext, SandboxNext,
     BridgeNext, BotNext, SiteNext, PubNext
<1> QED
  BY <1>1, <1>2, PTL DEF Spec, Kev!Spec

LEMMA PypaRuns == Spec => Pypa!Spec
<1>1. Init => Pypa!Init
  BY DEF Init
<1>2. [Next]_vars => [Pypa!Next]_(Pypa!vars)
  BY DEF Next, vars, pypaVars, Pypa!vars, CveNext, KevNext, EpssNext,
     FoundNext, FixerNext, PassportsNext, MalwareNext, PypaNext, GitlabNext,
     UpdatesNext, GraphNext, StoreNext, ProbeNext, SandboxNext, BridgeNext,
     BotNext, SiteNext, PubNext
<1> QED
  BY <1>1, <1>2, PTL DEF Spec, Pypa!Spec

\* A marker that makes later runs skip something tells the truth, in every
\* part and for every value of its constants.
THEOREM MarkersSafe == Spec => []MarkersAccounted
<1>1. Cve!CveFeedsAssumption /\ Kev!KevCacheAssumption /\ Pypa!PypaAssumption
  BY PartsAssumption DEF PartsAssumption
<1>2. (/\ Cve!ScanAccounted /\ Cve!DeltaAccounted /\ Pypa!MarkerAccounted
       /\ Kev!EtagNamesCache /\ Kev!NotModifiedIsCurrent) => MarkersAccounted
  BY DEF MarkersAccounted
<1>3. Spec => [](Cve!ScanAccounted /\ Cve!DeltaAccounted)
  BY <1>1, CveRuns, CveSafe
<1>4. Spec => [](Kev!EtagNamesCache /\ Kev!NotModifiedIsCurrent)
  BY <1>1, KevRuns, KevSafe
<1>5. Spec => []Pypa!MarkerAccounted
  BY <1>1, PypaRuns, PypaSafe
<1> QED
  BY <1>2, <1>3, <1>4, <1>5, PTL

-----------------------------------------------------------------------------
(* Discovery: providers, orchestrator, tombstones, enricher.               *)

\* A tombstone stands for a package given up at some time, or for one on PyPI.
TombsEarned ==
  found_tombs \subseteq found_everGone \cup FoundPypi
  /\ found_mem \subseteq found_everGone \cup FoundPypi

\* Before its last step a pass has found what it saw and did not bury.
FoundKept == found_seen \ (found_everGone \cup FoundPypi) \subseteq found_found

\* The enricher holds the catalogue as it is, unless discovery has written it.
CopyCurrent ==
  found_enriching /\ ~found_stale => found_copy = found_file
  /\ found_copied = found_versioned

FoundInv == Found!TypeOK /\ TombsEarned /\ FoundKept /\ CopyCurrent

LEMMA FoundInit == Found!DiscoveryAssumption /\ Found!Init => FoundInv
<1> SUFFICES ASSUME Found!DiscoveryAssumption, Found!Init PROVE FoundInv
  OBVIOUS
<1>1. found_enriching \in BOOLEAN /\ found_stale \in BOOLEAN
  BY Zenon DEF Found!Init
<1>2. Found!TypeOK
  BY <1>1 DEF Found!DiscoveryAssumption, Found!Init, Found!TypeOK
<1>3. TombsEarned /\ FoundKept /\ CopyCurrent
  BY DEF Found!Init, TombsEarned, FoundKept, CopyCurrent
<1> QED
  BY <1>2, <1>3 DEF FoundInv

LEMMA FoundStep == Found!DiscoveryAssumption /\ FoundInv
  /\ [Found!Next]_(Found!vars) => FoundInv'
<1> SUFFICES ASSUME Found!DiscoveryAssumption, FoundInv, [Found!Next]_(Found!vars)
    PROVE  FoundInv'
  OBVIOUS
<1> USE DEF Found!DiscoveryAssumption, FoundInv, Found!TypeOK, TombsEarned,
        FoundKept, CopyCurrent
<1>0. \A w \in Found!Providers :
        Found!Following[w] \in Found!Providers \cup {"state"}
  BY DEF Found!Providers, Found!Of, Found!Following
<1>1. CASE Found!Start
  BY <1>1 DEF Found!Start, Found!upstream, Found!files, Found!enricher,
     Found!Providers, Found!Of
<1>2. CASE Found!SaveState
  BY <1>2 DEF Found!SaveState, Found!upstream, Found!enricher
<1>3. CASE Found!SaveFile
  <2>1. found_stale' \in BOOLEAN
    BY <1>3 DEF Found!SaveFile
  <2> QED
    BY <1>3, <2>1 DEF Found!SaveFile, Found!upstream
<1>4. CASE Found!EnrichStart
  <2>1. found_enriching' \in BOOLEAN /\ found_stale' \in BOOLEAN
    BY <1>4, Zenon DEF Found!EnrichStart
  <2> QED
    BY <1>4, <2>1 DEF Found!EnrichStart, Found!upstream, Found!files,
       Found!pass
<1>5. ASSUME NEW p \in Found!Packages, Found!GiveUpOrRevive(p) PROVE FoundInv'
  BY <1>5 DEF Found!GiveUpOrRevive, Found!files, Found!pass, Found!enricher
<1>6. ASSUME NEW w \in Found!Providers, Found!DiscoverNothing(w) PROVE FoundInv'
  BY <1>0, <1>6 DEF Found!DiscoverNothing, Found!upstream, Found!files,
     Found!enricher
<1>7. ASSUME NEW w \in Found!Providers, NEW listed \in SUBSET Found!Packages,
             NEW buried \in SUBSET listed,
             buried \subseteq found_everGone \cup FoundPypi,
               Found!Collect(w, listed, buried)
      PROVE  FoundInv'
  BY <1>0, <1>7 DEF Found!Collect, Found!upstream, Found!files, Found!enricher
<1>8. /\ FoundNpm \subseteq Found!Packages /\ FoundPypi \subseteq Found!Packages
         /\ FoundGithub \subseteq Found!Packages
      /\ FoundSmithery \subseteq Found!Packages
         /\ FoundGlama \subseteq Found!Packages
         /\ FoundOther \subseteq Found!Packages
      /\ {"npm", "pypi", "github", "smithery", "glama", "other"}
           \subseteq Found!Providers
  BY DEF Found!Packages, Found!Providers, Found!Of
<1>9. ASSUME NEW listed \in SUBSET FoundNpm, NEW checked \in SUBSET listed,
             Found!DiscoverNpm(listed, checked)
      PROVE  FoundInv'
  <2>1. Found!Collect("npm", listed, checked \cap found_gone)
    BY <1>9 DEF Found!DiscoverNpm
  <2>2. /\ "npm" \in Found!Providers /\ listed \in SUBSET Found!Packages
           /\ checked \cap found_gone \in SUBSET listed
        /\ checked \cap found_gone \subseteq found_everGone \cup FoundPypi
    BY <1>8
  <2> QED
    BY <1>7, <2>1, <2>2
<1>10. ASSUME NEW listed \in SUBSET FoundPypi, Found!DiscoverPypi(listed)
       PROVE  FoundInv'
  BY <1>7, <1>8, <1>10 DEF Found!DiscoverPypi
<1>11. ASSUME NEW listed \in SUBSET FoundGithub, NEW checked \in SUBSET listed,
              Found!DiscoverGithub(listed, checked)
       PROVE  FoundInv'
  <2>1. Found!Collect("github", listed, checked \cap found_gone)
    BY <1>11 DEF Found!DiscoverGithub
  <2>2. /\ "github" \in Found!Providers /\ listed \in SUBSET Found!Packages
           /\ checked \cap found_gone \in SUBSET listed
        /\ checked \cap found_gone \subseteq found_everGone \cup FoundPypi
    BY <1>8
  <2> QED
    BY <1>7, <2>1, <2>2
<1>12. ASSUME NEW listed \in SUBSET FoundSmithery, Found!DiscoverSmithery(listed)
       PROVE  FoundInv'
  <2>1. Found!Collect("smithery", listed, {})
    BY <1>12 DEF Found!DiscoverSmithery
  <2>2. /\ "smithery" \in Found!Providers /\ listed \in SUBSET Found!Packages
           /\ {} \in SUBSET listed
        /\ {} \subseteq found_everGone \cup FoundPypi
    BY <1>8
  <2> QED
    BY <1>7, <2>1, <2>2
<1>13. ASSUME NEW listed \in SUBSET FoundGlama, Found!DiscoverGlama(listed)
       PROVE  FoundInv'
  <2>1. Found!Collect("glama", listed, {})
    BY <1>13 DEF Found!DiscoverGlama
  <2>2. /\ "glama" \in Found!Providers /\ listed \in SUBSET Found!Packages
           /\ {} \in SUBSET listed
        /\ {} \subseteq found_everGone \cup FoundPypi
    BY <1>8
  <2> QED
    BY <1>7, <2>1, <2>2
<1>14. ASSUME NEW listed \in SUBSET FoundOther, Found!DiscoverOther(listed)
       PROVE  FoundInv'
  <2>1. Found!Collect("other", listed, {})
    BY <1>14 DEF Found!DiscoverOther
  <2>2. /\ "other" \in Found!Providers /\ listed \in SUBSET Found!Packages
           /\ {} \in SUBSET listed
        /\ {} \subseteq found_everGone \cup FoundPypi
    BY <1>8
  <2> QED
    BY <1>7, <2>1, <2>2
<1>15. ASSUME NEW got \in SUBSET FoundPypi, Found!EnrichEnd(got) PROVE FoundInv'
  <2>1. found_enriching' \in BOOLEAN /\ found_stale' \in BOOLEAN
    BY <1>15, Zenon DEF Found!EnrichEnd
  <2> QED
    BY <1>15, <2>1 DEF Found!EnrichEnd, Found!upstream, Found!pass
<1>16. CASE UNCHANGED Found!vars
  BY <1>16 DEF Found!vars, Found!upstream, Found!files, Found!pass,
     Found!enricher
<1> QED
  BY <1>1, <1>2, <1>3, <1>4, <1>5, <1>6, <1>9, <1>10, <1>11, <1>12, <1>13,
     <1>14, <1>15, <1>16 DEF Found!Next

\* A tombstone was earned, a pass keeps what it saw, and the copy of the enricher
\* is current unless discovery wrote meanwhile.
THEOREM FoundInductive == Found!DiscoveryAssumption /\ Found!Spec => []FoundInv
<1> SUFFICES ASSUME Found!DiscoveryAssumption PROVE Found!Spec => []FoundInv
  OBVIOUS
<1>1. Found!Init => FoundInv
  BY FoundInit
<1>2. FoundInv /\ [Found!Next]_(Found!vars) => FoundInv'
  BY FoundStep
<1> QED
  BY <1>1, <1>2, PTL DEF Found!Spec

\* A server in the catalogue is not behind a tombstone, and so is audited,
\* unless upstream gave it up at some time; PyPI excepted (run_discovery).
THEOREM FoundSafe == Found!DiscoveryAssumption /\ Found!Spec
  => []Found!ListedAudited
<1> SUFFICES ASSUME Found!DiscoveryAssumption
    PROVE  Found!Spec => []Found!ListedAudited
  OBVIOUS
<1>1. FoundInv => Found!ListedAudited
  BY DEF FoundInv, TombsEarned, Found!ListedAudited
<1> QED
  BY <1>1, FoundInductive, PTL

\* What a registry listed and never gave up is in the catalogue after the pass,
\* PyPI excepted, whatever failed (run_discovery).
THEOREM ListedSafe == Found!DiscoveryAssumption /\ Found!Spec
  => [][Found!ListedIsFound]_(Found!vars)
<1> SUFFICES ASSUME Found!DiscoveryAssumption
    PROVE  Found!Spec => [][Found!ListedIsFound]_(Found!vars)
  OBVIOUS
<1>1. FoundInv => Found!ListedIsFound
  BY DEF FoundInv, FoundKept, Found!ListedIsFound, Found!SaveFile
<1> QED
  BY <1>1, FoundInductive, PTL

\* The enricher adds versions only, unless discovery has written the catalogue
\* since the enricher read it (run_enrichment).
THEOREM EnricherSafe == Found!DiscoveryAssumption /\ Found!Spec
  => [][Found!EnricherAddsVersions]_(Found!vars)
<1> SUFFICES ASSUME Found!DiscoveryAssumption
    PROVE  Found!Spec => [][Found!EnricherAddsVersions]_(Found!vars)
  OBVIOUS
<1>1. FoundInv => Found!EnricherAddsVersions
  BY DEF FoundInv, CopyCurrent, Found!EnricherAddsVersions, Found!EnrichEnd
<1> QED
  BY <1>1, FoundInductive, PTL

-----------------------------------------------------------------------------
(* The configurations the fixer replaces, and their backups.               *)

\* What the file holds when it is replaced is in the backup that was made, or
\* was written behind the copy.
CopyHolds ==
  fixer_pc = "copied" =>
    /\ fixer_config \in fixer_excused \/ fixer_backups[fixer_at] = fixer_config
    /\ fixer_backups[fixer_at] # 0

FixerInv ==
  /\ Fixer!TypeOK /\ CopyHolds /\ Fixer!ReplacedIsBackedUp
  /\ fixer_pc # "idle" => fixer_patched # 0

LEMMA FixerInit == Fixer!ConfigFixerAssumption /\ Fixer!Init => FixerInv
BY DEF Fixer!ConfigFixerAssumption, Fixer!Init, FixerInv, Fixer!TypeOK,
   Fixer!Contents, CopyHolds, Fixer!ReplacedIsBackedUp

LEMMA FixerStep == Fixer!ConfigFixerAssumption /\ FixerInv
  /\ [Fixer!Next]_(Fixer!vars) => FixerInv'
<1> SUFFICES ASSUME Fixer!ConfigFixerAssumption, FixerInv, [Fixer!Next]_(Fixer!vars)
    PROVE  FixerInv'
  OBVIOUS
<1> USE DEF Fixer!ConfigFixerAssumption, FixerInv, Fixer!TypeOK,
        Fixer!Contents, CopyHolds, Fixer!ReplacedIsBackedUp
<1>1. CASE Fixer!Tick
  BY <1>1 DEF Fixer!Tick
<1>2. CASE Fixer!Edit
  BY <1>2 DEF Fixer!Edit
<1>3. CASE Fixer!Patch
  BY <1>3 DEF Fixer!Patch
<1>4. CASE Fixer!Copy
  <2>1. /\ fixer_pc' = "copied" /\ fixer_at' = fixer_now
           /\ fixer_backups' = [fixer_backups EXCEPT ![fixer_now] = fixer_config]
        /\ fixer_excused' = fixer_excused
             \cup ({fixer_backups[fixer_now]} \ {0, fixer_config})
        /\ UNCHANGED <<fixer_writes, fixer_now, fixer_config, fixer_patched,
             fixer_replaced>> /\ fixer_pc = "patched"
    BY <1>4 DEF Fixer!Copy
  <2>2. /\ fixer_backups' \in [0..FixerMaxNow -> 0..fixer_writes]
           /\ fixer_backups'[fixer_now] = fixer_config
        /\ \A t \in 0..FixerMaxNow : t # fixer_now
             => fixer_backups'[t] = fixer_backups[t]
    BY <2>1
  <2>3. fixer_backups[fixer_now] \in 0..fixer_writes
    OBVIOUS
  <2>4. fixer_excused' \subseteq 1..fixer_writes
    <3>1. ASSUME NEW x \in {fixer_backups[fixer_now]} \ {0, fixer_config}
          PROVE  x \in 1..fixer_writes
      BY <2>3, <3>1
    <3> QED
      BY <2>1, <3>1
  <2>5. ASSUME NEW c \in fixer_replaced
        PROVE  c \in fixer_excused'
               \/ \E t \in 0..FixerMaxNow : fixer_backups'[t] = c
    <3>1. CASE c \in fixer_excused
      BY <2>1, <3>1
    <3>2. ASSUME NEW t \in 0..FixerMaxNow, fixer_backups[t] = c
          PROVE  c \in fixer_excused'
                 \/ \E u \in 0..FixerMaxNow : fixer_backups'[u] = c
      <4>1. c # 0
        OBVIOUS
      <4> QED
        BY <2>1, <2>2, <3>2, <4>1
    <3> QED
      BY <3>1, <3>2
  <2> QED
    BY <2>1, <2>2, <2>4, <2>5
<1>5. CASE Fixer!Replace
  BY <1>5 DEF Fixer!Replace
<1>6. CASE Fixer!Restore
  <2>1. /\ fixer_pc = "copied" /\ fixer_pc' = "idle"
           /\ fixer_config' = fixer_backups[fixer_at]
        /\ fixer_replaced' = fixer_replaced \cup ({fixer_config} \ {fixer_config'})
           /\ fixer_patched' = 0 /\ fixer_at' = 0
        /\ UNCHANGED <<fixer_writes, fixer_now, fixer_backups, fixer_excused>>
    BY <1>6 DEF Fixer!Restore
  <2>2. fixer_backups[fixer_at] \in 1..fixer_writes
    BY <2>1
  <2>3. fixer_replaced' = fixer_replaced
          \cup ({fixer_config} \ {fixer_backups[fixer_at]})
    BY <2>1
  <2>4. fixer_replaced' \subseteq 1..fixer_writes
    BY <2>3
  <2>5. ASSUME NEW c \in fixer_replaced'
        PROVE  c \in fixer_excused'
               \/ \E t \in 0..FixerMaxNow : fixer_backups'[t] = c
    BY <2>1, <2>3
  <2> QED
    BY <2>1, <2>2, <2>4, <2>5
<1>7. CASE Fixer!Die
  BY <1>7 DEF Fixer!Die
<1>8. CASE UNCHANGED Fixer!vars
  BY <1>8 DEF Fixer!vars
<1> QED
  BY <1>1, <1>2, <1>3, <1>4, <1>5, <1>6, <1>7, <1>8 DEF Fixer!Next

\* The invariant holds of every behaviour of the part.
LEMMA FixerInductive == Fixer!ConfigFixerAssumption
  => (Fixer!Spec => []FixerInv)
<1> SUFFICES ASSUME Fixer!ConfigFixerAssumption
    PROVE  Fixer!Spec => []FixerInv
  OBVIOUS
<1>1. Fixer!Init => FixerInv
  BY FixerInit
<1>2. FixerInv /\ [Fixer!Next]_(Fixer!vars) => FixerInv'
  BY FixerStep
<1> QED
  BY <1>1, <1>2, PTL DEF Fixer!Spec

\* What fix_config replaces stays in a backup, unless it was written behind the
\* copy or a fix of the same second copied over it.
THEOREM FixerSafe == Fixer!ConfigFixerAssumption /\ Fixer!Spec
  => []Fixer!ReplacedIsBackedUp
<1> SUFFICES ASSUME Fixer!ConfigFixerAssumption
    PROVE  Fixer!Spec => []Fixer!ReplacedIsBackedUp
  OBVIOUS
<1>1. FixerInv => Fixer!ReplacedIsBackedUp
  BY DEF FixerInv
<1> QED
  BY <1>1, FixerInductive, PTL

-----------------------------------------------------------------------------
(* The passports taken from a release or from the main branch.             *)

PassportsInv ==
  /\ Passports!TypeOK /\ Passports!NewIsComplete /\ Passports!LostToBrokenBody
  /\ passports_release <= passports_main
  /\ passports_pc = "asset" => passports_release > 0
  /\ passports_pc = "raw" => passports_main > 0
  /\ passports_pc # "idle" => passports_result = "none"

LEMMA PassportsInit == Passports!PassportSyncAssumption /\ Passports!Init
  => PassportsInv
<1> SUFFICES ASSUME Passports!PassportSyncAssumption, Passports!Init
    PROVE  PassportsInv
  OBVIOUS
<1>1. passports_broke \in BOOLEAN
  BY Zenon DEF Passports!Init
<1> QED
  BY <1>1 DEF Passports!PassportSyncAssumption, Passports!Init, PassportsInv,
     Passports!TypeOK, Passports!Files, Passports!Cut, Passports!NewIsComplete,
     Passports!LostToBrokenBody

LEMMA PassportsStep == Passports!PassportSyncAssumption /\ PassportsInv
  /\ [Passports!Next]_(Passports!vars) => PassportsInv'
<1> SUFFICES ASSUME Passports!PassportSyncAssumption, PassportsInv,
                    [Passports!Next]_(Passports!vars)
    PROVE  PassportsInv'
  OBVIOUS
<1>0. passports_broke' \in BOOLEAN
  BY Zenon DEF PassportsInv, Passports!TypeOK, Passports!Next,
     Passports!Publish, Passports!Fetch, Passports!Asset, Passports!AssetFails,
     Passports!Fallback, Passports!FallbackFails, Passports!Raw, Passports!vars
<1> USE <1>0 DEF Passports!PassportSyncAssumption, PassportsInv, Passports!TypeOK,
      Passports!Files, Passports!Cut, Passports!NewIsComplete,
                 Passports!LostToBrokenBody, Passports!upstream
<1>1. CASE Passports!Publish
  BY <1>1 DEF Passports!Publish
<1>2. CASE Passports!Fetch
  BY <1>2 DEF Passports!Fetch
<1>3. CASE Passports!Asset
  BY <1>3 DEF Passports!Asset
<1>4. CASE Passports!AssetFails
  BY <1>4 DEF Passports!AssetFails
<1>5. CASE Passports!Fallback \/ Passports!FallbackFails
  BY <1>5 DEF Passports!Fallback, Passports!FallbackFails
<1>6. CASE Passports!Raw
  BY <1>6 DEF Passports!Raw
<1>7. CASE UNCHANGED Passports!vars
  BY <1>7 DEF Passports!vars
<1> QED
  BY <1>1, <1>2, <1>3, <1>4, <1>5, <1>6, <1>7 DEF Passports!Next

\* The invariant holds of every behaviour of the part.
LEMMA PassportsInductive == Passports!PassportSyncAssumption
  => (Passports!Spec => []PassportsInv)
<1> SUFFICES ASSUME Passports!PassportSyncAssumption
    PROVE  Passports!Spec => []PassportsInv
  OBVIOUS
<1>1. Passports!Init => PassportsInv
  BY PassportsInit
<1>2. PassportsInv /\ [Passports!Next]_(Passports!vars) => PassportsInv'
  BY PassportsStep
<1> QED
  BY <1>1, <1>2, PTL DEF Passports!Spec

\* After "True" the local file is a version upstream had, and it is lost only
\* to a body that broke off (fetch_latest_passports).
THEOREM PassportsSafe == Passports!PassportSyncAssumption /\ Passports!Spec
  => [](Passports!NewIsComplete /\ Passports!LostToBrokenBody)
<1> SUFFICES ASSUME Passports!PassportSyncAssumption
    PROVE  Passports!Spec
             => [](Passports!NewIsComplete /\ Passports!LostToBrokenBody)
  OBVIOUS
<1>1. PassportsInv => Passports!NewIsComplete /\ Passports!LostToBrokenBody
  BY DEF PassportsInv
<1> QED
  BY <1>1, PassportsInductive, PTL

-----------------------------------------------------------------------------
(* The quarantine kept from the feeds of malicious packages.               *)

\* The instance counts as the library does.
LEMMA MalwareSizes == (\A S : Malware!Cardinality(S) = Cardinality(S))
  /\ (\A S : Malware!IsFiniteSet(S) = IsFiniteSet(S))
BY DEF Malware!Cardinality, Cardinality, Malware!IsFiniteSet, IsFiniteSet

VersionsOf(p, as) == {a.versions : a \in {b \in as : b.pkg = p}}

\* A record comes from one of the advisories merged for its package, those of
\* this process before those it loaded.
MalwareInv ==
  /\ malware_upstream \subseteq Malware!Advisories
     /\ malware_saved \subseteq Malware!Advisories
     /\ malware_merged \subseteq Malware!Advisories
  /\ IsFiniteSet(malware_upstream) /\ IsFiniteSet(malware_saved)
     /\ IsFiniteSet(malware_merged)
  /\ \A p \in Malware!AllPackages : VersionsOf(p, malware_merged) # {}
       => malware_records[p] \in VersionsOf(p, malware_merged)
  /\ \A p \in Malware!AllPackages :
       VersionsOf(p, malware_merged) = {} /\ VersionsOf(p, malware_saved) # {}
         => malware_records[p] \in VersionsOf(p, malware_saved)
  /\ \A p \in Malware!AllPackages : VersionsOf(p, malware_saved) # {}
       => malware_disk[p] \in VersionsOf(p, malware_saved)

LEMMA MalwareInit == Malware!Init => MalwareInv
BY FS_EmptySet DEF Malware!Init, MalwareInv, VersionsOf

LEMMA MalwareStep == MalwareInv /\ [Malware!Next]_(Malware!vars) => MalwareInv'
<1> SUFFICES ASSUME MalwareInv, [Malware!Next]_(Malware!vars) PROVE MalwareInv'
  OBVIOUS
<1> USE DEF MalwareInv
<1>1. ASSUME NEW a \in Malware!Advisories, Malware!PublishOrWithdraw(a)
      PROVE  MalwareInv'
  <2>1. /\ malware_upstream' \in {malware_upstream \ {a}, malware_upstream \cup {a}}
        /\ UNCHANGED <<malware_records, malware_disk, malware_saved,
             malware_merged>>
    BY <1>1 DEF Malware!PublishOrWithdraw
  <2>2. IsFiniteSet(malware_upstream \ {a})
        /\ IsFiniteSet(malware_upstream \cup {a})
    BY FS_AddElement, FS_RemoveElement
  <2> QED
    BY <2>1, <2>2 DEF VersionsOf
<1>2. CASE Malware!SyncStart
  BY <1>2 DEF Malware!SyncStart, VersionsOf
<1>3. ASSUME NEW f \in MalwareFeeds, Malware!SkipFeed(f) \/ Malware!FeedBreaks(f)
      PROVE  MalwareInv'
  BY <1>3 DEF Malware!SkipFeed, Malware!FeedBreaks, VersionsOf
<1>4. ASSUME NEW f \in MalwareFeeds, NEW good \in SUBSET Malware!Of(f),
             Malware!ReadFeed(f, good)
      PROVE  MalwareInv'
  <2>1. /\ Malware!Merge(good, malware_records')
           /\ malware_merged' = malware_merged \cup good
        /\ UNCHANGED <<malware_upstream, malware_disk, malware_saved>>
    BY <1>4 DEF Malware!ReadFeed
  <2>2. good \subseteq malware_upstream
    BY DEF Malware!Of
  <2>3. IsFiniteSet(good) /\ IsFiniteSet(malware_merged \cup good)
    BY <2>2, FS_Subset, FS_Union
  <2>4. ASSUME NEW p \in Malware!AllPackages
        PROVE  /\ VersionsOf(p, good) = {}
                    => malware_records'[p] = malware_records[p]
               /\ VersionsOf(p, good) # {}
                    => malware_records'[p] \in VersionsOf(p, good)
               /\ VersionsOf(p, malware_merged') = VersionsOf(p, malware_merged)
                    \cup VersionsOf(p, good)
    BY <2>1 DEF Malware!Merge, VersionsOf
  <2>5. \A p \in Malware!AllPackages :
          VersionsOf(p, malware_saved)' = VersionsOf(p, malware_saved)
    BY <2>1 DEF VersionsOf
  <2>6. \A p \in Malware!AllPackages :
          VersionsOf(p, malware_merged)' = VersionsOf(p, malware_merged)
            \cup VersionsOf(p, good)
    BY <2>4
  <2> QED
    BY <2>1, <2>2, <2>3, <2>4, <2>5, <2>6
<1>5. CASE Malware!Save
  <2>1. /\ UNCHANGED <<malware_upstream, malware_records, malware_merged>>
        /\ \/ malware_disk' = malware_records
              /\ malware_saved' = malware_saved \cup malware_merged
           \/ malware_disk' = Malware!NoRecords /\ malware_saved' = {}
           \/ UNCHANGED <<malware_disk, malware_saved>>
    BY <1>5 DEF Malware!Save
  <2>2. \A p \in Malware!AllPackages :
          /\ VersionsOf(p, malware_saved \cup malware_merged)
               = VersionsOf(p, malware_saved) \cup VersionsOf(p, malware_merged)
          /\ VersionsOf(p, {}) = {}
             /\ VersionsOf(p, malware_merged)' = VersionsOf(p, malware_merged)
          /\ VersionsOf(p, malware_saved)' = VersionsOf(p, malware_saved')
    BY <2>1 DEF VersionsOf
  <2>3. IsFiniteSet(malware_saved \cup malware_merged) /\ IsFiniteSet({})
    BY FS_Union, FS_EmptySet
  <2>4. CASE malware_disk' = malware_records
        /\ malware_saved' = malware_saved \cup malware_merged
    BY <2>1, <2>2, <2>3, <2>4
  <2>5. CASE malware_disk' = Malware!NoRecords /\ malware_saved' = {}
    BY <2>1, <2>2, <2>3, <2>5
  <2>6. CASE UNCHANGED <<malware_disk, malware_saved>>
    BY <2>1, <2>2, <2>6
  <2> QED
    BY <2>1, <2>4, <2>5, <2>6
<1>6. CASE Malware!Restart
  <2>1. /\ UNCHANGED <<malware_upstream, malware_disk, malware_saved>>
           /\ malware_records' = malware_disk /\ malware_merged' = {}
    BY <1>6 DEF Malware!Restart
  <2>2. \A p \in Malware!AllPackages : VersionsOf(p, malware_merged)' = {}
        /\ VersionsOf(p, malware_saved)' = VersionsOf(p, malware_saved)
    BY <2>1 DEF VersionsOf
  <2> QED
    BY <2>1, <2>2, FS_EmptySet
<1>7. CASE UNCHANGED Malware!vars
  BY <1>7 DEF Malware!vars, VersionsOf
<1> QED
  BY <1>1, <1>2, <1>3, <1>4, <1>5, <1>6, <1>7 DEF Malware!Next

LEMMA MalwareExact == Malware!MalwareFeedAssumption /\ MalwareInv
  => Malware!QuarantineExact
<1> SUFFICES ASSUME Malware!MalwareFeedAssumption, MalwareInv,
                    NEW p \in Malware!AllPackages,
                      Cardinality({a \in malware_saved : a.pkg = p}) = 1,
                    NEW v \in MalwareVersions, NEW a \in malware_saved, a.pkg = p
             PROVE  Malware!Malicious(malware_disk, p, v) <=> v \in a.versions
                    \/ a.versions = {}
  BY MalwareSizes DEF Malware!QuarantineExact
<1> DEFINE mine == {b \in malware_saved : b.pkg = p}
<1>1. IsFiniteSet(mine) /\ Cardinality(mine) = 1
  BY FS_Subset DEF MalwareInv
<1>2. PICK b : mine = {b}
  BY <1>1, FS_Singleton
<1>3. mine = {a}
  BY <1>2
<1>4. VersionsOf(p, malware_saved) = {a.versions}
  BY <1>3 DEF VersionsOf
<1>5. malware_disk[p] = a.versions
  BY <1>4 DEF MalwareInv
<1>6. 0 \notin a.versions
  BY DEF MalwareInv, Malware!Advisories, Malware!MalwareFeedAssumption
<1> QED
  BY <1>5, <1>6 DEF Malware!Malicious, Malware!NoRecord

\* A package with one advisory is quarantined at exactly the versions it names.
THEOREM MalwareSafe == Malware!MalwareFeedAssumption /\ Malware!Spec
  => []Malware!QuarantineExact
<1> SUFFICES ASSUME Malware!MalwareFeedAssumption
    PROVE  Malware!Spec => []Malware!QuarantineExact
  OBVIOUS
<1>1. Malware!Init => MalwareInv
  BY MalwareInit
<1>2. MalwareInv /\ [Malware!Next]_(Malware!vars) => MalwareInv'
  BY MalwareStep
<1>3. MalwareInv => Malware!QuarantineExact
  BY MalwareExact
<1> QED
  BY <1>1, <1>2, <1>3, PTL DEF Malware!Spec

\* The feeds are numbered, from one to as many as there are.
LEMMA MalwareFeedCount ==
  ASSUME Malware!MalwareFeedAssumption
  PROVE  /\ Malware!Cardinality(MalwareFeeds) \in Nat
         /\ MalwareFeeds = 1..Malware!Cardinality(MalwareFeeds)
BY MalwareSizes, FS_CardinalityType DEF Malware!MalwareFeedAssumption

LEMMA MalwareTypeStep ==
  ASSUME Malware!MalwareFeedAssumption, Malware!TypeOK,
         [Malware!Next]_(Malware!vars)
  PROVE  Malware!TypeOK'
<1> DEFINE K == Malware!Cardinality(MalwareFeeds)
<1>0. K \in Nat /\ MalwareFeeds = 1..K /\ MalwareMaxChanges \in Nat
  BY MalwareFeedCount DEF Malware!MalwareFeedAssumption
<1> HIDE DEF K
<1>1. /\ malware_upstream \subseteq Malware!Advisories
      /\ malware_changes \in 0..MalwareMaxChanges
      /\ malware_records \in Malware!Records /\ malware_disk \in Malware!Records
      /\ malware_next \in 0..K + 1 /\ malware_new \in BOOLEAN
      /\ malware_saved \subseteq Malware!Advisories
      /\ malware_merged \subseteq Malware!Advisories
  BY DEF Malware!TypeOK, K
<1>2. SUFFICES
      /\ malware_upstream' \subseteq Malware!Advisories
      /\ malware_changes' \in 0..MalwareMaxChanges
      /\ malware_records' \in Malware!Records /\ malware_disk' \in Malware!Records
      /\ malware_next' \in 0..K + 1 /\ malware_new' \in BOOLEAN
      /\ malware_saved' \subseteq Malware!Advisories
      /\ malware_merged' \subseteq Malware!Advisories
  BY DEF Malware!TypeOK, K
<1>3. CASE \E a \in Malware!Advisories : Malware!PublishOrWithdraw(a)
  BY <1>0, <1>1, <1>3 DEF Malware!PublishOrWithdraw
<1>4. CASE Malware!SyncStart
  <2>1. malware_new' \in BOOLEAN /\ malware_next' = 1
    BY <1>4, Zenon DEF Malware!SyncStart
  <2>2. 1 \in 0..K + 1
    BY <1>0
  <2> QED
    BY <1>1, <1>4, <2>1, <2>2 DEF Malware!SyncStart
<1>5. CASE Malware!Save
  <2>1. Malware!NoRecords \in Malware!Records
    BY DEF Malware!NoRecords, Malware!Records
  <2> QED
    BY <1>0, <1>1, <1>5, <2>1 DEF Malware!Save
<1>6. CASE Malware!Restart
  BY <1>0, <1>1, <1>6 DEF Malware!Restart
<1>7. ASSUME NEW f \in MalwareFeeds,
             Malware!SkipFeed(f) \/ Malware!FeedBreaks(f)
      PROVE  /\ malware_next' \in 0..K + 1
             /\ UNCHANGED <<malware_upstream, malware_changes, malware_records,
                  malware_disk, malware_new, malware_saved, malware_merged>>
  BY <1>0, <1>7 DEF Malware!SkipFeed, Malware!FeedBreaks, K
<1>8. ASSUME NEW f \in MalwareFeeds, NEW good \in SUBSET Malware!Of(f),
             Malware!ReadFeed(f, good)
      PROVE  /\ malware_next' \in 0..K + 1 /\ malware_new' \in BOOLEAN
             /\ malware_records' \in Malware!Records
             /\ malware_merged' \subseteq Malware!Advisories
             /\ UNCHANGED <<malware_upstream, malware_changes, malware_disk,
                  malware_saved>>
  <2>1. malware_new' \in BOOLEAN
    BY <1>8, Zenon DEF Malware!ReadFeed
  <2>2. good \subseteq Malware!Advisories
    BY <1>1 DEF Malware!Of
  <2>3. malware_next' \in 0..K + 1
    BY <1>0, <1>8 DEF Malware!ReadFeed, K
  <2> QED
    BY <1>1, <1>8, <2>1, <2>2, <2>3 DEF Malware!ReadFeed
<1>9. CASE UNCHANGED Malware!vars
  BY <1>1, <1>9 DEF Malware!vars
<1> QED
  BY <1>1, <1>3, <1>4, <1>5, <1>6, <1>7, <1>8, <1>9 DEF Malware!Next

\* Every variable of the quarantine keeps its type.
LEMMA MalwareTypesSafe ==
  Malware!MalwareFeedAssumption => (Malware!Spec => []Malware!TypeOK)
<1> SUFFICES ASSUME Malware!MalwareFeedAssumption
    PROVE  Malware!Spec => []Malware!TypeOK
  OBVIOUS
<1>1. Malware!Init => Malware!TypeOK
  <2> SUFFICES ASSUME Malware!Init PROVE Malware!TypeOK
    OBVIOUS
  <2>1. malware_new \in BOOLEAN
    BY Zenon DEF Malware!Init
  <2>2. 0 \in 0..Malware!Cardinality(MalwareFeeds) + 1
        /\ 0 \in 0..MalwareMaxChanges
    BY MalwareFeedCount DEF Malware!MalwareFeedAssumption
  <2>3. Malware!NoRecords \in Malware!Records
    BY DEF Malware!NoRecords, Malware!Records
  <2> QED
    BY <2>1, <2>2, <2>3 DEF Malware!Init, Malware!TypeOK
<1>2. Malware!TypeOK /\ [Malware!Next]_(Malware!vars) => Malware!TypeOK'
  BY MalwareTypeStep
<1> QED
  BY <1>1, <1>2, PTL DEF Malware!Spec

-----------------------------------------------------------------------------
(* The sparse clone of the GitLab advisories.                              *)

\* Nothing in the mirror is newer than upstream.
NotAhead ==
  gitlab_base <= gitlab_head
  /\ \A e \in GitlabEcosystems : gitlab_tree[e] <= gitlab_head

\* What the run found is there until git is asked; only a mirror that was no
\* clone is removed; and an offline run starts from what it found.
SinceStart ==
  /\ gitlab_pc = "git"
       => gitlab_before = [base |-> gitlab_base, tree |-> gitlab_tree]
  /\ gitlab_pc \in {"clone", "add"} => gitlab_before.base = 0
  /\ gitlab_pc = "archive" /\ gitlab_before.base # 0
       => gitlab_tree = gitlab_before.tree

\* What a new clone has added so far is what it has checked out.
AddedSoFar ==
  gitlab_pc = "add" => gitlab_base # 0
  /\ gitlab_todo = GitlabEcosystems \ gitlab_sparse /\ Gitlab!Clean

GitlabInv ==
  /\ Gitlab!TypeOK /\ NotAhead /\ SinceStart /\ AddedSoFar
  /\ Gitlab!SyncedIsCurrent /\ Gitlab!OfflineKeepsData

-----------------------------------------------------------------------------
LEMMA GitlabInit == Gitlab!GitLabMirrorAssumption /\ Gitlab!Init => GitlabInv
BY DEF Gitlab!GitLabMirrorAssumption, Gitlab!Init, GitlabInv, Gitlab!TypeOK,
   NotAhead, SinceStart, AddedSoFar, Gitlab!SyncedIsCurrent,
   Gitlab!OfflineKeepsData, Gitlab!Revisions, Gitlab!Empty

LEMMA GitlabStep == Gitlab!GitLabMirrorAssumption /\ GitlabInv
  /\ [Gitlab!Next]_(Gitlab!vars) => GitlabInv'
<1> SUFFICES ASSUME Gitlab!GitLabMirrorAssumption, GitlabInv,
                    [Gitlab!Next]_(Gitlab!vars)
    PROVE  GitlabInv'
  OBVIOUS
<1> USE DEF Gitlab!GitLabMirrorAssumption, GitlabInv, Gitlab!TypeOK, NotAhead,
        SinceStart, AddedSoFar, Gitlab!SyncedIsCurrent,
        Gitlab!OfflineKeepsData, Gitlab!Revisions
<1>1. CASE Gitlab!Push
  BY <1>1 DEF Gitlab!Push, Gitlab!Clean
<1>2. CASE Gitlab!Start
  BY <1>2 DEF Gitlab!Start
<1>3. ASSUME NEW follow \in SUBSET GitlabEcosystems, Gitlab!Pull(follow)
      PROVE  GitlabInv'
  BY <1>3 DEF Gitlab!Pull, Gitlab!Clean
<1>4. CASE Gitlab!Remove
  BY <1>4 DEF Gitlab!Remove, Gitlab!Empty
<1>5. CASE Gitlab!Clone
  BY <1>5 DEF Gitlab!Clone, Gitlab!Clean
<1>6. ASSUME NEW e \in GitlabEcosystems, Gitlab!Add(e) PROVE GitlabInv'
  BY <1>6 DEF Gitlab!Add, Gitlab!Clean
<1>7. CASE Gitlab!Added
  BY <1>7 DEF Gitlab!Added, Gitlab!Clean
<1>8. CASE Gitlab!GitFails
  BY <1>8 DEF Gitlab!GitFails
<1>9. ASSUME NEW done \in SUBSET GitlabEcosystems, Gitlab!Unpack(done)
      PROVE  GitlabInv'
  BY <1>9 DEF Gitlab!Unpack
<1>10. CASE Gitlab!Scan
  BY <1>10 DEF Gitlab!Scan
<1>11. CASE Gitlab!Die
  BY <1>11 DEF Gitlab!Die
<1>12. CASE UNCHANGED Gitlab!vars
  BY <1>12 DEF Gitlab!vars, Gitlab!Clean
<1> QED
  BY <1>1, <1>2, <1>3, <1>4, <1>5, <1>6, <1>7, <1>8, <1>9, <1>10, <1>11, <1>12
     DEF Gitlab!Next

\* The invariant behind the theorems below: it says of every step of
\* sync_repository what the mirror holds, against what it held before.
THEOREM GitlabInductive == Gitlab!GitLabMirrorAssumption /\ Gitlab!Spec
  => []GitlabInv
<1>1. Gitlab!GitLabMirrorAssumption /\ Gitlab!Init => GitlabInv
  BY GitlabInit
<1>2. Gitlab!GitLabMirrorAssumption /\ GitlabInv /\ [Gitlab!Next]_(Gitlab!vars)
        => GitlabInv'
  BY GitlabStep
<1> QED
  <2> SUFFICES ASSUME Gitlab!GitLabMirrorAssumption PROVE Gitlab!Spec => []GitlabInv
    OBVIOUS
  <2>1. Gitlab!Init => GitlabInv
    BY <1>1
  <2>2. GitlabInv /\ [Gitlab!Next]_(Gitlab!vars) => GitlabInv'
    BY <1>2
  <2> QED
    BY <2>1, <2>2, PTL DEF Gitlab!Spec

\* Every variable of the mirror keeps its type.
THEOREM GitlabTypes == Gitlab!GitLabMirrorAssumption /\ Gitlab!Spec
  => []Gitlab!TypeOK
<1>1. GitlabInv => Gitlab!TypeOK
  BY DEF GitlabInv
<1> QED
  BY <1>1, GitlabInductive, PTL

\* A run that reports success scans every ecosystem of its clone in the revision
\* it obtained (_clone_or_pull_git, _download_archive).
THEOREM SyncedSafe == Gitlab!GitLabMirrorAssumption /\ Gitlab!Spec
  => []Gitlab!SyncedIsCurrent
<1>1. GitlabInv => Gitlab!SyncedIsCurrent
  BY DEF GitlabInv
<1> QED
  BY <1>1, GitlabInductive, PTL

\* An offline run over a clone scans at least what the run before left
\* (sync_repository).
THEOREM OfflineSafe == Gitlab!GitLabMirrorAssumption /\ Gitlab!Spec
  => []Gitlab!OfflineKeepsData
<1>1. GitlabInv => Gitlab!OfflineKeepsData
  BY DEF GitlabInv
<1> QED
  BY <1>1, GitlabInductive, PTL

-----------------------------------------------------------------------------
(* The history of releases: counts, differences and bundles.               *)

\* A sequence without its m-th element.
Without(s, m) == [k \in 1..(Len(s) - 1) |-> IF k < m THEN s[k] ELSE s[k + 1]]

\* One entry per release.
OneEach ==
  \A i, j \in DOMAIN updates_history :
    updates_history[i].release = updates_history[j].release => i = j

LEMMA CountedUpTo == \A k \in Nat : IsFiniteSet(1..k) /\ Cardinality(1..k) = k
BY FS_Interval

\* With one entry per release, at most one is left out.
LEMMA OthersAre ==
  ASSUME updates_history \in Seq(Updates!Entries), OneEach, NEW v
  PROVE  \/ (\A k \in DOMAIN updates_history : updates_history[k].release # v)
            /\ Updates!Others(v) = updates_history
         \/ \E m \in DOMAIN updates_history :
              updates_history[m].release = v
              /\ Updates!Others(v) = Without(updates_history, m)
<1> DEFINE n == Len(updates_history)
           kept == {k \in DOMAIN updates_history : updates_history[k].release # v}
           before(k) == {j \in kept : j < k}
<1>1. n \in Nat /\ DOMAIN updates_history = 1..n
  OBVIOUS
<1>2. Updates!Others(v) = [i \in 1..Cardinality(kept) |->
                     updates_history[CHOOSE k \in kept :
                       Cardinality(before(k)) = i - 1]]
  BY DEF Updates!Others, Updates!Cardinality, Cardinality
<1>3. CASE \A k \in DOMAIN updates_history : updates_history[k].release # v
  <2>1. kept = 1..n
    BY <1>1, <1>3
  <2> HIDE DEF n, kept
  <2>2. Cardinality(kept) = n
    BY <1>1, <2>1, FS_Interval
  <2>3. ASSUME NEW k \in 1..n PROVE Cardinality(before(k)) = k - 1
    <3>1. before(k) = 1..(k - 1)
      BY <1>1, <2>1
    <3> HIDE DEF before
    <3> QED
      BY <3>1, FS_Interval
  <2> HIDE DEF before
  <2>4. \A i \in 1..n : (CHOOSE k \in kept : Cardinality(before(k)) = i - 1) = i
    BY <1>1, <2>1, <2>3
  <2>5. Updates!Others(v) = [i \in 1..n |-> updates_history[i]]
    BY <1>2, <2>2, <2>4
  <2>6. updates_history = [i \in 1..n |-> updates_history[i]]
    BY <1>1
  <2> QED
    BY <1>3, <2>5, <2>6
<1>4. CASE \E k \in DOMAIN updates_history : updates_history[k].release = v
  <2>1. PICK m \in 1..n : updates_history[m].release = v
    BY <1>1, <1>4
  <2>2. kept = (1..n) \ {m}
    BY <1>1, <2>1 DEF OneEach
  <2> HIDE DEF n, kept
  <2>10. IsFiniteSet(1..n) /\ Cardinality(1..n) = n
    BY <1>1, <2>1, FS_Interval
  <2>3. Cardinality(kept) = n - 1
    BY <2>1, <2>2, <2>10, FS_RemoveElement
  <2>4. ASSUME NEW k \in kept
        PROVE  Cardinality(before(k)) = IF k < m THEN k - 1 ELSE k - 2
    <3>1. k \in 1..n /\ k # m
      BY <2>2
    <3>2. CASE k < m
      <4>1. before(k) = 1..(k - 1)
        BY <1>1, <2>2, <3>1, <3>2
      <4> HIDE DEF before
      <4>2. k - 1 \in Nat
        BY <1>1, <3>1
      <4>3. Cardinality(1..(k - 1)) = k - 1
        BY <4>2, CountedUpTo
      <4> QED
        BY <3>2, <4>1, <4>3
    <3>3. CASE m < k
      <4>1. before(k) = (1..(k - 1)) \ {m} /\ m \in 1..(k - 1)
        BY <1>1, <2>1, <2>2, <3>1, <3>3
      <4> HIDE DEF before
      <4>4. k - 1 \in Nat
        BY <1>1, <3>1
      <4>2. IsFiniteSet(1..(k - 1)) /\ Cardinality(1..(k - 1)) = k - 1
        BY <4>4, CountedUpTo
      <4>3. Cardinality(before(k)) = Cardinality(1..(k - 1)) - 1
        BY <4>1, <4>2, FS_RemoveElement
      <4> QED
        BY <1>1, <2>1, <3>1, <3>3, <4>2, <4>3
    <3> QED
      BY <3>1, <3>2, <3>3
  <2> HIDE DEF before
  <2>5. ASSUME NEW i \in 1..(n - 1)
        PROVE  (CHOOSE k \in kept : Cardinality(before(k)) = i - 1)
                 = IF i < m THEN i ELSE i + 1
    <3>1. (IF i < m THEN i ELSE i + 1) \in kept
      BY <1>1, <2>2
    <3>2. Cardinality(before(IF i < m THEN i ELSE i + 1)) = i - 1
      BY <1>1, <2>1, <2>4, <3>1
    <3>3. \A k \in kept : Cardinality(before(k)) = i - 1 => k = IF i < m THEN i
            ELSE i + 1
      BY <1>1, <2>1, <2>2, <2>4
    <3> QED
      BY <3>1, <3>2, <3>3
  <2>6. Updates!Others(v) = [i \in 1..(n - 1) |-> IF i < m THEN updates_history[i]
          ELSE updates_history[i + 1]]
    <3> DEFINE at(i) == CHOOSE k \in kept : Cardinality(before(k)) = i - 1
    <3>1. Updates!Others(v) = [i \in 1..(n - 1) |-> updates_history[at(i)]]
      BY <1>2, <2>3
    <3>2. \A i \in 1..(n - 1) : at(i) = IF i < m THEN i ELSE i + 1
      BY <2>5
    <3> HIDE DEF at
    <3>3. \A i \in 1..(n - 1) : updates_history[at(i)] = IF i < m
            THEN updates_history[i] ELSE updates_history[i + 1]
      BY <3>2
    <3> QED
      BY <3>1, <3>3
  <2> QED
    BY <1>1, <2>1, <2>6 DEF Without
<1> QED
  BY <1>3, <1>4

LEMMA LessIsWellFounded == IsWellFoundedOn({p \in Nat \X Nat : p[1] < p[2]}, Nat)
BY NatLessThanWellFounded DEF OpToRel

\* `sum' adds up what `t' falls by from one place to the next.
Falls(n, t, sum) ==
  /\ \A i \in 1..(n + 1) : t[i] \in Int
  /\ sum[0] = 0 /\ \A i \in 1..n : sum[i] = sum[i - 1] + (t[i] - t[i + 1])

\* A sum of differences is the difference of its ends.
LEMMA SumsTelescope ==
  \A n \in Nat : \A t, sum : Falls(n, t, sum) => sum[n] = t[1] - t[n + 1]
<1> SUFFICES ASSUME NEW n \in Nat, NEW t, NEW sum,
                    \A i \in 1..(n + 1) : t[i] \in Int,
                    sum[0] = 0,
                      \A i \in 1..n : sum[i] = sum[i - 1] + (t[i] - t[i + 1])
             PROVE  sum[n] = t[1] - t[n + 1]
  BY DEF Falls
<1> DEFINE wrong == {i \in 0..n : sum[i] # t[1] - t[i + 1]}
<1>1. SUFFICES ASSUME wrong # {} PROVE FALSE
  <2>1. wrong = {} => ~ (n \in wrong)
    OBVIOUS
  <2> QED
    BY <2>1
<1>2. wrong \subseteq Nat
  OBVIOUS
<1>8. PICK i \in wrong : \A j \in wrong :
        ~ (<<j, i>> \in {p \in Nat \X Nat : p[1] < p[2]})
  <2> HIDE DEF wrong
  <2> QED
    BY <1>1, <1>2, WFMin, LessIsWellFounded
<1>3. \A j \in wrong : ~ (j < i)
  BY <1>2, <1>8
<1>4. i # 0
  BY t[1] \in Int
<1>5. i - 1 \in 0..n /\ i - 1 \notin wrong
  BY <1>3, <1>4
<1>6. sum[i - 1] = t[1] - t[i]
  BY <1>5
<1>7. sum[i] = sum[i - 1] + (t[i] - t[i + 1])
  BY <1>4
<1> QED
  BY <1>4, <1>5, <1>6, <1>7

-----------------------------------------------------------------------------

\* The total an entry is counted against: the one of the entry after it.
TotalAt(s, i) == IF i \in DOMAIN s THEN s[i].total ELSE 0

\* The entries of regular builds are in the order of their releases, and each
\* counts what came since the entry after it.
Chained(s) ==
  /\ \A i, j \in DOMAIN s : i < j => s[i].release > s[j].release
  /\ \A i \in DOMAIN s : s[i].new = s[i].total - TotalAt(s, i + 1)

\* The build under way is of a release that is none before, and will count what
\* came since the entry it is going to be put in front of.
EntryFits ==
  /\ updates_entry.total <= updates_total
     /\ updates_entry.release <= updates_release
  /\ \A i \in DOMAIN updates_history :
       updates_history[i].release <= updates_entry.release
  /\ updates_entry.new
       = updates_entry.total - TotalAt(Updates!Others(updates_entry.release), 1)

RegularInv ==
  /\ Chained(updates_history)
  /\ TotalAt(updates_history, 1) <= updates_total
  /\ \A i \in DOMAIN updates_history : updates_history[i].release <= updates_release
  /\ updates_pc # "idle" => EntryFits

UpdatesInv ==
  /\ Updates!TypeOK
  /\ Updates!EntriesHaveBundles
  /\ updates_pc = "history" => updates_entry.release \in updates_bundles
  /\ updates_regular => RegularInv

LEMMA UpdatesInit == Updates!UpdateHistoryAssumption /\ Updates!Init => UpdatesInv
BY DEF Updates!UpdateHistoryAssumption, Updates!Init, UpdatesInv,
   Updates!TypeOK, Updates!EntriesHaveBundles, RegularInv, Chained, TotalAt,
   Updates!Entries, Updates!NoEntry

\* What Others keeps is from the history.
LEMMA OthersType ==
  ASSUME updates_history \in Seq(Updates!Entries), OneEach, NEW v
  PROVE  /\ Updates!Others(v) \in Seq(Updates!Entries)
         /\ \A i \in DOMAIN Updates!Others(v) : \E k \in DOMAIN updates_history :
              Updates!Others(v)[i] = updates_history[k]
              /\ updates_history[k].release # v
         /\ \A i, j \in DOMAIN Updates!Others(v) :
              Updates!Others(v)[i].release = Updates!Others(v)[j].release => i = j
<1>1. CASE (\A k \in DOMAIN updates_history : updates_history[k].release # v)
      /\ Updates!Others(v) = updates_history
  BY <1>1 DEF OneEach
<1>2. CASE \E m \in DOMAIN updates_history : updates_history[m].release = v
      /\ Updates!Others(v) = Without(updates_history, m)
  <2>1. PICK m \in DOMAIN updates_history : updates_history[m].release = v
        /\ Updates!Others(v) = Without(updates_history, m)
    BY <1>2
  <2>2. /\ Len(updates_history) \in Nat
           /\ DOMAIN updates_history = 1..Len(updates_history)
        /\ Len(updates_history) - 1 \in Nat
        /\ \A k \in 1..Len(updates_history) : updates_history[k] \in Updates!Entries
    BY <2>1
  <2>3. Updates!Others(v) = [k \in 1..(Len(updates_history) - 1) |-> IF k < m
          THEN updates_history[k] ELSE updates_history[k + 1]]
    BY <2>1 DEF Without
  <2>4. \A k \in 1..(Len(updates_history) - 1) :
          (IF k < m THEN updates_history[k] ELSE updates_history[k + 1])
            \in Updates!Entries
    BY <2>2
  <2>5. Updates!Others(v) \in Seq(Updates!Entries)
        /\ DOMAIN Updates!Others(v) = 1..(Len(updates_history) - 1)
    BY <2>2, <2>3, <2>4
  <2>6. \A k \in 1..(Len(updates_history) - 1) :
          Updates!Others(v)[k] = updates_history[IF k < m THEN k ELSE k + 1]
    BY <2>2, <2>3
  <2>7. \A k \in 1..(Len(updates_history) - 1) :
          (IF k < m THEN k ELSE k + 1) \in (1..Len(updates_history)) \ {m}
    BY <2>1, <2>2
  <2>8. \A k \in 1..Len(updates_history) : k # m => updates_history[k].release # v
    BY <2>1, <2>2 DEF OneEach
  <2>9. \A i, j \in 1..(Len(updates_history) - 1) :
          Updates!Others(v)[i].release = Updates!Others(v)[j].release => i = j
    BY <2>1, <2>2, <2>6, <2>7 DEF OneEach
  <2> QED
    BY <2>2, <2>5, <2>6, <2>7, <2>8, <2>9
<1> QED
  BY <1>1, <1>2, OthersAre

\* Where no release is newer than v, an entry of v comes first.
LEMMA OthersChained ==
  ASSUME updates_history \in Seq(Updates!Entries), Chained(updates_history),
         NEW v \in Int,
         \A i \in DOMAIN updates_history : updates_history[i].release <= v
  PROVE  /\ Chained(Updates!Others(v))
         /\ \A i \in DOMAIN Updates!Others(v) : Updates!Others(v)[i].release < v
         /\ TotalAt(Updates!Others(v), 1) <= TotalAt(updates_history, 1)
<1>0. /\ Len(updates_history) \in Nat
         /\ DOMAIN updates_history = 1..Len(updates_history)
      /\ \A k \in 1..Len(updates_history) :
           /\ updates_history[k].release \in Int /\ updates_history[k].total \in Nat
           /\ updates_history[k].new \in Nat
  <2>1. Len(updates_history) \in Nat
        /\ DOMAIN updates_history = 1..Len(updates_history)
    OBVIOUS
  <2>2. \A k \in 1..Len(updates_history) : updates_history[k] \in Updates!Entries
    OBVIOUS
  <2>3. \A e \in Updates!Entries : e.release \in Int /\ e.total \in Nat
        /\ e.new \in Nat
    BY DEF Updates!Entries
  <2> QED
    BY <2>1, <2>2, <2>3
<1>1. OneEach
  BY <1>0 DEF OneEach, Chained
<1>2. CASE (\A k \in DOMAIN updates_history : updates_history[k].release # v)
      /\ Updates!Others(v) = updates_history
  BY <1>0, <1>2 DEF TotalAt
<1>3. CASE \E m \in DOMAIN updates_history : updates_history[m].release = v
      /\ Updates!Others(v) = Without(updates_history, m)
  <2>1. PICK m \in DOMAIN updates_history : updates_history[m].release = v
        /\ Updates!Others(v) = Without(updates_history, m)
    BY <1>3
  <2>12. \A i, j \in 1..Len(updates_history) : i < j
           => updates_history[i].release > updates_history[j].release
    BY <1>0 DEF Chained
  <2>13. \A i \in 1..Len(updates_history) :
           updates_history[i].new
             = updates_history[i].total - TotalAt(updates_history, i + 1)
    BY <1>0 DEF Chained
  <2>2. m = 1
    <3>1. m \in 1..Len(updates_history) /\ 1 \in 1..Len(updates_history)
      BY <1>0, <2>1
    <3>2. updates_history[1].release <= v /\ updates_history[m].release = v
      BY <1>0, <2>1, <3>1
    <3>3. ~ (1 < m)
      BY <1>0, <2>12, <3>1, <3>2
    <3> QED
      BY <3>1, <3>3
  <2>3. Updates!Others(v)
          = [k \in 1..(Len(updates_history) - 1) |-> updates_history[k + 1]]
    BY <1>0, <2>1, <2>2 DEF Without
  <2>4. DOMAIN Updates!Others(v) = 1..(Len(updates_history) - 1)
    BY <2>3
  <2>5. \A k \in Nat \ {0} :
          TotalAt(Updates!Others(v), k) = TotalAt(updates_history, k + 1)
    BY <1>0, <2>3, <2>4 DEF TotalAt
  <2>6. \A i, j \in DOMAIN Updates!Others(v) : i < j
          => Updates!Others(v)[i].release > Updates!Others(v)[j].release
    <3> SUFFICES ASSUME NEW i \in 1..(Len(updates_history) - 1),
                        NEW j \in 1..(Len(updates_history) - 1), i < j
                 PROVE  Updates!Others(v)[i].release > Updates!Others(v)[j].release
      BY <2>4
    <3>1. i + 1 \in 1..Len(updates_history) /\ j + 1 \in 1..Len(updates_history)
          /\ i + 1 < j + 1
      BY <1>0
    <3>2. updates_history[i + 1].release > updates_history[j + 1].release
      BY <1>0, <3>1 DEF Chained
    <3> QED
      BY <2>3, <3>2
  <2>7. \A i \in DOMAIN Updates!Others(v) :
          Updates!Others(v)[i].new
            = Updates!Others(v)[i].total - TotalAt(Updates!Others(v), i + 1)
    <3> SUFFICES ASSUME NEW i \in 1..(Len(updates_history) - 1)
                 PROVE  Updates!Others(v)[i].new
                          = Updates!Others(v)[i].total - TotalAt(Updates!Others(v), i + 1)
      BY <2>4
    <3>1. Updates!Others(v)[i] = updates_history[i + 1]
          /\ i + 1 \in 1..Len(updates_history) /\ i + 1 \in Nat \ {0}
      BY <1>0, <2>3
    <3>2. TotalAt(Updates!Others(v), i + 1) = TotalAt(updates_history, (i + 1) + 1)
      BY <2>5, <3>1
    <3> QED
      BY <2>13, <3>1, <3>2
  <2>8. \A i \in DOMAIN Updates!Others(v) : Updates!Others(v)[i].release < v
    <3> SUFFICES ASSUME NEW i \in 1..(Len(updates_history) - 1)
        PROVE  Updates!Others(v)[i].release < v
      BY <2>4
    <3>1. Updates!Others(v)[i] = updates_history[i + 1]
          /\ i + 1 \in 1..Len(updates_history) /\ 1 < i + 1
      BY <1>0, <2>3
    <3>2. 1 \in 1..Len(updates_history) /\ updates_history[1].release = v
      BY <1>0, <2>1, <2>2
    <3>3. updates_history[1].release > updates_history[i + 1].release
          /\ updates_history[i + 1].release \in Int
      BY <1>0, <2>12, <3>1, <3>2
    <3> QED
      BY <3>1, <3>2, <3>3
  <2>9. TotalAt(updates_history, 1) = updates_history[1].total
        /\ TotalAt(updates_history, 2) \in Int
    BY <1>0, <2>1, <2>2 DEF TotalAt
  <2>10. updates_history[1].new
           = updates_history[1].total - TotalAt(updates_history, 2)
    BY <1>0, <2>1, <2>2 DEF Chained
  <2>11. TotalAt(Updates!Others(v), 1) <= TotalAt(updates_history, 1)
    <3>1. TotalAt(Updates!Others(v), 1) = TotalAt(updates_history, 2)
      BY <2>5
    <3>2. updates_history[1].new \in Nat /\ updates_history[1].total \in Nat
      BY <1>0, <2>1, <2>2
    <3> QED
      BY <2>9, <2>10, <3>1, <3>2
  <2> QED
    BY <2>6, <2>7, <2>8, <2>11 DEF Chained
<1> QED
  BY <1>1, <1>2, <1>3, OthersAre

LEMMA EntryCounts ==
  ASSUME Updates!UpdateHistoryAssumption, Updates!TypeOK, OneEach,
         NEW v \in 1..updates_release
  PROVE  /\ Updates!Entry(v) \in Updates!Entries /\ Updates!Entry(v).release = v
            /\ Updates!Entry(v).total = updates_total
         /\ TotalAt(Updates!Others(v), 1) <= updates_total
              => Updates!Entry(v).new
                = updates_total - TotalAt(Updates!Others(v), 1)
<1>1. Updates!Others(v) \in Seq(Updates!Entries)
  BY OthersType DEF Updates!TypeOK
<1>2. updates_total \in 0..UpdatesMaxTotal
      /\ updates_release \in 0..UpdatesMaxRelease /\ UpdatesMaxTotal \in Nat
      /\ UpdatesMaxRelease \in Nat
  BY DEF Updates!TypeOK, Updates!UpdateHistoryAssumption
<1>3. CASE Updates!Others(v) = <<>>
  <2>1. TotalAt(Updates!Others(v), 1) = 0
    BY <1>3 DEF TotalAt
  <2> QED
    BY <1>2, <1>3, <2>1 DEF Updates!Entry, Updates!Entries
<1>4. CASE Updates!Others(v) # <<>>
  <2>1. 1 \in DOMAIN Updates!Others(v) /\ Updates!Others(v)[1] \in Updates!Entries
    BY <1>1, <1>4
  <2>2. TotalAt(Updates!Others(v), 1) = Updates!Others(v)[1].total
        /\ Updates!Others(v)[1].total \in 0..UpdatesMaxTotal
    BY <2>1 DEF TotalAt, Updates!Entries
  <2> QED
    BY <1>2, <1>4, <2>2 DEF Updates!Entry, Updates!Entries
<1> QED
  BY <1>3, <1>4

LEMMA UpdatesStep ==
  ASSUME Updates!UpdateHistoryAssumption, UpdatesInv, [Updates!Next]_(Updates!vars)
  PROVE  UpdatesInv'
<1>0. Updates!TypeOK /\ OneEach /\ updates_history \in Seq(Updates!Entries)
  BY DEF UpdatesInv, Updates!EntriesHaveBundles, OneEach, Updates!TypeOK
<1>1. CASE UNCHANGED updates_history /\ UNCHANGED updates_bundles
      /\ UNCHANGED updates_pc /\ UNCHANGED updates_entry
           /\ updates_release \in Int /\ updates_release' >= updates_release
              /\ updates_release' \in 0..UpdatesMaxRelease
           /\ updates_total' \in 0..UpdatesMaxTotal /\ updates_regular' \in BOOLEAN
           /\ (updates_regular' => updates_regular
                /\ updates_total' >= updates_total)
  <2>1. \A v : Updates!Others(v)' = Updates!Others(v)
    BY <1>1 DEF Updates!Others
  <2>2. Updates!TypeOK'
    BY <1>0, <1>1 DEF Updates!TypeOK
  <2>3. Updates!EntriesHaveBundles'
        /\ (updates_pc = "history" => updates_entry.release \in updates_bundles)'
    BY <1>1 DEF UpdatesInv, Updates!EntriesHaveBundles
  <2>4. ASSUME updates_regular' PROVE RegularInv'
    <3>1. RegularInv /\ updates_total' >= updates_total
      BY <1>1, <2>4 DEF UpdatesInv
    <3>2. \A k \in DOMAIN updates_history : updates_history[k] \in Updates!Entries
      BY <1>0
    <3>3. updates_total \in Int /\ updates_total' \in Int
          /\ updates_release' \in Int
      BY <1>0, <1>1 DEF Updates!TypeOK
    <3>4. TotalAt(updates_history, 1) \in Int /\ updates_entry.total \in Int
          /\ updates_entry.release \in Int
      BY <1>0, <3>2 DEF TotalAt, Updates!Entries, Updates!TypeOK
    <3>5. TotalAt(updates_history, 1)' = TotalAt(updates_history, 1)
          /\ (Chained(updates_history)' <=> Chained(updates_history))
      BY <1>1 DEF TotalAt, Chained
    <3>6. TotalAt(updates_history, 1)' <= updates_total'
      BY <3>1, <3>3, <3>4, <3>5 DEF RegularInv
    <3>7. \A i \in DOMAIN updates_history :
            updates_history[i].release <= updates_release'
      BY <1>1, <3>1, <3>2, <3>3 DEF RegularInv, Updates!Entries
    <3>8. TotalAt(Updates!Others(updates_entry.release), 1)'
            = TotalAt(Updates!Others(updates_entry.release), 1)
      BY <1>1, <2>1 DEF TotalAt
    <3>9. updates_pc # "idle" => EntryFits'
      BY <1>1, <3>1, <3>3, <3>4, <3>8 DEF RegularInv, EntryFits
    <3> QED
      BY <1>1, <3>1, <3>5, <3>6, <3>7, <3>9 DEF RegularInv
  <2> QED
    BY <2>2, <2>3, <2>4 DEF UpdatesInv
<1>2. CASE Updates!Advisory \/ Updates!Withdraw \/ Updates!Release
      \/ UNCHANGED Updates!vars
  <2>1. /\ updates_release \in 0..UpdatesMaxRelease
           /\ updates_total \in 0..UpdatesMaxTotal /\ updates_regular \in BOOLEAN
        /\ UpdatesMaxRelease \in Nat /\ UpdatesMaxTotal \in Nat
    BY <1>0 DEF Updates!TypeOK, Updates!UpdateHistoryAssumption
  <2>2. CASE Updates!Advisory
    BY <1>1, <2>1, <2>2 DEF Updates!Advisory
  <2>3. CASE Updates!Withdraw
    <3>1. updates_total' \in 0..UpdatesMaxTotal /\ updates_regular' = FALSE
          /\ UNCHANGED <<updates_release, updates_history, updates_bundles,
               updates_pc, updates_entry>>
      BY <2>1, <2>3 DEF Updates!Withdraw
    <3>2. updates_release' >= updates_release
          /\ updates_release' \in 0..UpdatesMaxRelease /\ updates_release \in Int
      BY <2>1, <3>1
    <3>3. updates_regular' \in BOOLEAN /\ ~ updates_regular'
      BY <3>1
    <3> QED
      BY <1>1, <3>1, <3>2, <3>3
  <2>4. CASE Updates!Release
    BY <1>1, <2>1, <2>4 DEF Updates!Release
  <2>5. CASE UNCHANGED Updates!vars
    BY <1>1, <2>1, <2>5 DEF Updates!vars
  <2> QED
    BY <1>2, <2>2, <2>3, <2>4, <2>5
<1>3. ASSUME NEW v \in 1..updates_release, Updates!Build(v) PROVE UpdatesInv'
  <2>1. /\ updates_pc = "idle" /\ updates_pc' = "bundles"
           /\ updates_entry' = Updates!Entry(v)
        /\ updates_regular' = (updates_regular /\ v = updates_release)
        /\ UNCHANGED <<updates_release, updates_total, updates_history,
             updates_bundles>>
    BY <1>3 DEF Updates!Build
  <2>2. updates_regular' \in BOOLEAN
        /\ (updates_regular' => updates_regular /\ v = updates_release)
    BY <2>1, Zenon
  <2>3. Updates!Entry(v) \in Updates!Entries /\ Updates!Entry(v).release = v
        /\ Updates!Entry(v).total = updates_total
    BY <1>0, EntryCounts
  <2>4. Updates!TypeOK'
    BY <1>0, <2>1, <2>2, <2>3 DEF Updates!TypeOK
  <2>5. \A w : Updates!Others(w)' = Updates!Others(w)
    BY <2>1 DEF Updates!Others
  <2>6. ASSUME updates_regular' PROVE RegularInv'
    <3>1. RegularInv /\ v = updates_release
      BY <2>2, <2>6 DEF UpdatesInv
    <3>2. updates_release \in Int /\ updates_total \in Int
      BY <1>0 DEF Updates!TypeOK
    <3>3. TotalAt(Updates!Others(v), 1) <= TotalAt(updates_history, 1)
      BY <1>0, <3>1, <3>2, OthersChained DEF RegularInv
    <3>4. \A i \in DOMAIN Updates!Others(v) :
            Updates!Others(v)[i] \in Updates!Entries
      BY <1>0, OthersType
    <3>5. \A i \in DOMAIN updates_history : updates_history[i] \in Updates!Entries
      BY <1>0
    <3>6. TotalAt(Updates!Others(v), 1) \in Int
          /\ TotalAt(updates_history, 1) \in Int
      BY <3>4, <3>5 DEF TotalAt, Updates!Entries
    <3>7. TotalAt(Updates!Others(v), 1) <= updates_total
      BY <3>1, <3>2, <3>3, <3>6 DEF RegularInv
    <3>8. updates_entry'.new = updates_total - TotalAt(Updates!Others(v), 1)
      BY <1>0, <2>1, <3>7, EntryCounts
    <3>9. TotalAt(Updates!Others(updates_entry.release), 1)'
            = TotalAt(Updates!Others(v), 1)
      BY <2>1, <2>3, <2>5 DEF TotalAt
    <3>10. EntryFits'
      BY <2>1, <2>3, <3>1, <3>2, <3>8, <3>9 DEF EntryFits, RegularInv
    <3> QED
      BY <2>1, <3>1, <3>10 DEF RegularInv, Chained, TotalAt
  <2>7. Updates!EntriesHaveBundles'
        /\ (updates_pc = "history" => updates_entry.release \in updates_bundles)'
    BY <2>1 DEF UpdatesInv, Updates!EntriesHaveBundles
  <2> QED
    BY <2>4, <2>6, <2>7 DEF UpdatesInv
<1>4. CASE Updates!WriteBundles
  <2>1. /\ updates_pc = "bundles" /\ updates_pc' = "history"
           /\ updates_bundles' = updates_bundles \cup {updates_entry.release}
        /\ UNCHANGED <<updates_release, updates_total, updates_history,
             updates_entry, updates_regular>>
    BY <1>4 DEF Updates!WriteBundles
  <2>2. Updates!TypeOK'
    BY <1>0, <2>1 DEF Updates!TypeOK, Updates!Entries
  <2>3. \A w : Updates!Others(w)' = Updates!Others(w)
    BY <2>1 DEF Updates!Others
  <2>4. Updates!EntriesHaveBundles'
        /\ (updates_pc = "history" => updates_entry.release \in updates_bundles)'
    BY <2>1 DEF UpdatesInv, Updates!EntriesHaveBundles
  <2>5. TotalAt(Updates!Others(updates_entry.release), 1)'
          = TotalAt(Updates!Others(updates_entry.release), 1)
    BY <2>1, <2>3 DEF TotalAt
  <2>6. ASSUME updates_regular' PROVE RegularInv'
    BY <2>1, <2>5, <2>6 DEF UpdatesInv, RegularInv, Chained, TotalAt, EntryFits
  <2> QED
    BY <2>2, <2>4, <2>6 DEF UpdatesInv
<1>5. CASE Updates!WriteHistory
  <2> DEFINE rest == Updates!Others(updates_entry.release)
  <2>1. /\ updates_pc = "history" /\ updates_pc' = "idle"
           /\ updates_entry' = Updates!NoEntry
        /\ updates_history' = <<updates_entry>> \o rest
        /\ UNCHANGED <<updates_release, updates_total, updates_bundles,
             updates_regular>>
    BY <1>5 DEF Updates!WriteHistory
  <2>2. updates_entry \in Updates!Entries /\ Updates!NoEntry \in Updates!Entries
    BY <1>0 DEF Updates!TypeOK, Updates!NoEntry, Updates!Entries,
       Updates!UpdateHistoryAssumption
  <2>3. /\ rest \in Seq(Updates!Entries)
        /\ \A i \in DOMAIN rest : \E k \in DOMAIN updates_history :
             rest[i] = updates_history[k]
             /\ updates_history[k].release # updates_entry.release
        /\ \A i, j \in DOMAIN rest : rest[i].release = rest[j].release => i = j
    BY <1>0, OthersType
  <2> HIDE DEF rest
  <2>4. /\ Len(rest) \in Nat /\ DOMAIN rest = 1..Len(rest)
        /\ updates_history' \in Seq(Updates!Entries)
           /\ DOMAIN updates_history' = 1..(Len(rest) + 1)
        /\ updates_history'[1] = updates_entry
        /\ \A i \in 2..(Len(rest) + 1) : i - 1 \in DOMAIN rest
           /\ updates_history'[i] = rest[i - 1]
    BY <2>1, <2>2, <2>3
  <2>5. Updates!TypeOK'
    BY <1>0, <2>1, <2>2, <2>4 DEF Updates!TypeOK
  <2>6. Updates!EntriesHaveBundles'
    <3>1. \A i \in DOMAIN rest : rest[i].release # updates_entry.release
          /\ rest[i].release \in updates_bundles
      BY <2>3 DEF UpdatesInv, Updates!EntriesHaveBundles
    <3>2. updates_entry.release \in updates_bundles
      BY <2>1 DEF UpdatesInv
    <3>3. \A i \in DOMAIN updates_history' : i = 1 \/ i \in 2..(Len(rest) + 1)
      BY <2>4
    <3>4. \A i \in DOMAIN updates_history' :
            updates_history'[i].release \in updates_bundles
      BY <2>4, <3>1, <3>2, <3>3
    <3>5. ASSUME NEW i \in DOMAIN updates_history',
                 NEW j \in DOMAIN updates_history',
                 updates_history'[i].release = updates_history'[j].release
          PROVE  i = j
      <4>1. CASE i = 1 /\ j = 1
        BY <4>1
      <4>2. CASE i = 1 /\ j \in 2..(Len(rest) + 1)
        BY <2>4, <3>1, <3>5, <4>2
      <4>3. CASE j = 1 /\ i \in 2..(Len(rest) + 1)
        BY <2>4, <3>1, <3>5, <4>3
      <4>4. CASE i \in 2..(Len(rest) + 1) /\ j \in 2..(Len(rest) + 1)
        <5>1. i - 1 = j - 1
          BY <2>3, <2>4, <3>5, <4>4
        <5> QED
          BY <2>4, <4>4, <5>1
      <4> QED
        BY <3>3, <4>1, <4>2, <4>3, <4>4
    <3> QED
      BY <2>1, <3>4, <3>5 DEF Updates!EntriesHaveBundles
  <2>7. ASSUME updates_regular' PROVE RegularInv'
    <3>1. RegularInv /\ EntryFits
      BY <2>1, <2>7 DEF UpdatesInv, RegularInv
    <3>2. /\ Chained(rest)
             /\ \A i \in DOMAIN rest : rest[i].release < updates_entry.release
      <4>1. updates_entry.release \in Int
        BY <2>2 DEF Updates!Entries
      <4> QED
        BY <1>0, <3>1, <4>1, OthersChained DEF RegularInv, EntryFits, rest
    <3>3. \A i \in DOMAIN updates_history' : i = 1 \/ i \in 2..(Len(rest) + 1)
      BY <2>4
    <3>10. updates_entry.release \in Int
           /\ \A i \in DOMAIN rest : rest[i].release \in Int
      <4>1. \A e \in Updates!Entries : e.release \in Int
        BY DEF Updates!Entries
      <4> QED
        BY <2>2, <2>3, <4>1
    <3>4. \A i \in Nat \ {0} : TotalAt(updates_history', i + 1) = TotalAt(rest, i)
      BY <2>4 DEF TotalAt
    <3>5. ASSUME NEW i \in DOMAIN updates_history',
                 NEW j \in DOMAIN updates_history', i < j
          PROVE  updates_history'[i].release > updates_history'[j].release
      <4>1. j \in 2..(Len(rest) + 1) /\ j - 1 \in DOMAIN rest
            /\ updates_history'[j] = rest[j - 1]
        BY <2>4, <3>3, <3>5
      <4>2. CASE i = 1
        BY <2>4, <3>2, <4>1, <4>2, <3>10
      <4>3. CASE i \in 2..(Len(rest) + 1)
        <5>1. i - 1 \in DOMAIN rest /\ updates_history'[i] = rest[i - 1]
              /\ i - 1 < j - 1
          BY <2>4, <3>5, <4>1, <4>3
        <5> QED
          BY <3>2, <4>1, <5>1 DEF Chained
      <4> QED
        BY <3>3, <4>2, <4>3
    <3>6. \A i \in DOMAIN updates_history' :
            updates_history'[i].new
              = updates_history'[i].total - TotalAt(updates_history', i + 1)
      <4>1. updates_entry.new = updates_entry.total - TotalAt(rest, 1)
        BY <3>1 DEF EntryFits, rest
      <4>2. TotalAt(updates_history', 2) = TotalAt(rest, 1)
        BY <3>4
      <4>3. ASSUME NEW i \in 2..(Len(rest) + 1)
            PROVE  updates_history'[i].new
                     = updates_history'[i].total - TotalAt(updates_history', i + 1)
        <5>1. i - 1 \in DOMAIN rest /\ updates_history'[i] = rest[i - 1]
              /\ (i - 1) + 1 = i
          BY <2>4
        <5>2. rest[i - 1].new = rest[i - 1].total - TotalAt(rest, i)
          BY <3>2, <5>1 DEF Chained
        <5>3. TotalAt(updates_history', i + 1) = TotalAt(rest, i)
          BY <2>4, <3>4
        <5> QED
          BY <5>1, <5>2, <5>3
      <4> QED
        BY <2>4, <3>3, <4>1, <4>2, <4>3
    <3>7. \A i \in DOMAIN updates_history' :
            updates_history'[i].release <= updates_release'
      <4>1. updates_release \in Int /\ updates_entry.release <= updates_release
            /\ updates_release' = updates_release
        BY <1>0, <2>1, <3>1 DEF Updates!TypeOK, EntryFits
      <4>2. \A i \in 2..(Len(rest) + 1) :
              updates_history'[i].release <= updates_release
        BY <2>4, <3>2, <3>10, <4>1
      <4> QED
        BY <2>4, <3>3, <4>1, <4>2
    <3>8. TotalAt(updates_history', 1) <= updates_total'
      BY <2>1, <2>4, <3>1 DEF TotalAt, EntryFits
    <3>9. Chained(updates_history') /\ updates_pc' = "idle"
      BY <2>1, <3>5, <3>6 DEF Chained
    <3> QED
      BY <3>7, <3>8, <3>9 DEF RegularInv
  <2> QED
    BY <2>1, <2>5, <2>6, <2>7 DEF UpdatesInv
<1>6. CASE Updates!Die
  <2>1. /\ updates_pc' = "idle" /\ updates_entry' = Updates!NoEntry
           /\ UNCHANGED <<updates_release, updates_total, updates_bundles>>
        /\ \/ UNCHANGED <<updates_history, updates_regular>>
           \/ updates_history' = <<>> /\ updates_regular' = FALSE
    BY <1>6 DEF Updates!Die
  <2>2. Updates!NoEntry \in Updates!Entries
    BY DEF Updates!NoEntry, Updates!Entries, Updates!UpdateHistoryAssumption
  <2>3. Updates!TypeOK'
    <3>3. <<>> \in Seq(Updates!Entries)
      OBVIOUS
    <3>1. updates_regular \in BOOLEAN /\ updates_history' \in Seq(Updates!Entries)
      BY <1>0, <2>1, <3>3 DEF Updates!TypeOK
    <3>2. updates_regular' \in BOOLEAN
      BY <2>1, <3>1
    <3> QED
      BY <1>0, <2>1, <2>2, <3>1, <3>2 DEF Updates!TypeOK
  <2>4. Updates!EntriesHaveBundles'
    BY <2>1 DEF UpdatesInv, Updates!EntriesHaveBundles
  <2>5. ASSUME updates_regular' PROVE RegularInv'
    BY <2>1, <2>5 DEF UpdatesInv, RegularInv, Chained, TotalAt
  <2> QED
    BY <2>1, <2>3, <2>4, <2>5 DEF UpdatesInv
<1> QED
  BY <1>2, <1>3, <1>4, <1>5, <1>6 DEF Updates!Next

LEMMA UpdatesInductive == Updates!UpdateHistoryAssumption
  => (Updates!Spec => []UpdatesInv)
<1> SUFFICES ASSUME Updates!UpdateHistoryAssumption
    PROVE  Updates!Spec => []UpdatesInv
  OBVIOUS
<1>1. Updates!Init => UpdatesInv
  BY UpdatesInit
<1>2. UpdatesInv /\ [Updates!Next]_(Updates!vars) => UpdatesInv'
  BY UpdatesStep
<1> QED
  BY <1>1, <1>2, PTL DEF Updates!Spec

\* The counts of a chained history add up.
LEMMA ChainedAddsUp == UpdatesInv => Updates!CountsAddUp
<1> SUFFICES ASSUME UpdatesInv, updates_regular, updates_history # <<>>
             PROVE  LET sum[n \in 0..Len(updates_history)] ==
                          IF n = 0 THEN 0 ELSE sum[n - 1] + updates_history[n].new
                    IN  sum[Len(updates_history)] = updates_history[1].total
  BY DEF Updates!CountsAddUp
<1> DEFINE n == Len(updates_history)
           t == [i \in 1..(n + 1) |-> TotalAt(updates_history, i)]
           step(f) == [i \in 0..n |-> IF i = 0 THEN 0
             ELSE f[i - 1] + updates_history[i].new]
           good == [i \in 0..n |-> t[1] - t[i + 1]]
           sum == CHOOSE f : f = step(f)
<1>1. /\ n \in Nat /\ n # 0 /\ DOMAIN updates_history = 1..n
      /\ \A i \in 1..n : updates_history[i].total \in Int
         /\ updates_history[i].new \in Int
  <2>1. updates_history \in Seq(Updates!Entries)
    BY DEF UpdatesInv, Updates!TypeOK
  <2>2. \A e \in Updates!Entries : e.total \in Int /\ e.new \in Int
    BY DEF Updates!Entries
  <2> QED
    BY <2>1, <2>2
<1>2. \A i \in 1..(n + 1) : t[i] \in Int
  BY <1>1 DEF TotalAt
<1>3. \A i \in 1..n : updates_history[i].new = t[i] - t[i + 1]
  <2>1. Chained(updates_history)
    BY DEF UpdatesInv, RegularInv
  <2>2. \A i \in 1..n : updates_history[i].new
          = updates_history[i].total - TotalAt(updates_history, i + 1)
    BY <1>1, <2>1 DEF Chained
  <2>3. \A i \in 1..n : t[i] = updates_history[i].total
        /\ t[i + 1] = TotalAt(updates_history, i + 1)
    BY <1>1 DEF TotalAt
  <2> QED
    BY <2>2, <2>3
<1>4. t[1] = updates_history[1].total /\ t[n + 1] = 0
  BY <1>1 DEF TotalAt
<1> HIDE DEF t
<1>6. good = step(good)
  <2>1. \A i \in 0..n : good[i] = IF i = 0 THEN 0
          ELSE good[i - 1] + updates_history[i].new
    BY <1>1, <1>2, <1>3
  <2> HIDE DEF good
  <2>2. good = [i \in 0..n |-> good[i]]
    BY DEF good
  <2> QED
    BY <2>1, <2>2
<1>7. sum = step(sum)
  BY <1>6
<1> HIDE DEF sum
<1>8. sum
        = [i \in 0..n |-> IF i = 0 THEN 0 ELSE sum[i - 1] + updates_history[i].new]
  BY <1>7
<1>11. sum[0] = 0 /\ \A i \in 1..n : sum[i] = sum[i - 1] + (t[i] - t[i + 1])
  BY <1>1, <1>3, <1>8
<1>9. sum[n] = t[1] - t[n + 1]
  <2>1. Falls(n, t, sum)
    BY <1>2, <1>11 DEF Falls
  <2> QED
    BY <1>1, <2>1, SumsTelescope
<1>10. sum[n] = updates_history[1].total
  BY <1>1, <1>4, <1>9
<1> QED
  BY <1>10 DEF sum, n

\* The counts of the history add up to the totals of its releases, and an entry
\* has its bundle (build_updates_data).
THEOREM UpdatesSafe ==
  Updates!UpdateHistoryAssumption
    => (Updates!Spec => [](Updates!CountsAddUp /\ Updates!EntriesHaveBundles))
<1>1. UpdatesInv => Updates!CountsAddUp /\ Updates!EntriesHaveBundles
  BY ChainedAddsUp DEF UpdatesInv
<1> QED
  BY <1>1, UpdatesInductive, PTL

-----------------------------------------------------------------------------
(* The bot and the branches of its pull requests.                          *)

\* The instance counts as the library does.
LEMMA BotSizes == (\A S : Bot!Cardinality(S) = Cardinality(S))
  /\ (\A S : Bot!IsFiniteSet(S) = IsFiniteSet(S))
BY DEF Bot!Cardinality, Cardinality, Bot!IsFiniteSet, IsFiniteSet

InHand == {"branch", "commit", "push", "pr", "back"}

\* What the repository and the clone hold; no branch is named like the default.
HubTypes ==
  /\ bot_main \in Bot!Tree /\ bot_work \in Bot!Tree
  /\ \A b \in DOMAIN bot_remote : bot_remote[b] \in Bot!Tree
  /\ \A b \in DOMAIN bot_local : bot_local[b] \in Bot!Tree
  /\ \A b \in DOMAIN bot_drafted : bot_drafted[b] \in Bot!Tree
  /\ bot_open \subseteq DOMAIN bot_remote
     /\ bot_fetched \subseteq DOMAIN bot_remote
     /\ bot_listed \subseteq DOMAIN bot_remote
  /\ Bot!Main \in DOMAIN bot_local /\ bot_head \in DOMAIN bot_local
     /\ bot_prev \in DOMAIN bot_local
  /\ Bot!Main \notin DOMAIN bot_remote /\ Bot!Main \notin DOMAIN bot_drafted
  /\ bot_astray \in BOOLEAN

\* What a run holds: plans for different files, one of them in hand between
\* "branch" and "back", on a branch that is never the default one.
RunTypes ==
  /\ bot_pc \in InHand \cup {"idle", "next"}
  /\ bot_made \subseteq Bot!Plan /\ bot_plans \subseteq bot_made
  /\ bot_pc = "idle" => bot_plans = {}
  /\ bot_pc \notin InHand => bot_plan = Bot!NoPlan
  /\ bot_pc \in InHand => bot_plan \in bot_made /\ bot_plan \notin bot_plans
     /\ bot_branch # Bot!Main
  /\ bot_pc \in InHand \ {"branch"} => bot_head = bot_branch
  /\ bot_pc = "pr" => bot_branch \in DOMAIN bot_remote
  /\ \A p \in bot_made : p.changes \subseteq p.text /\ IsFiniteSet(p.changes)
  /\ \A p, q \in bot_made : p.config = q.config => p = q

BotTypes == HubTypes /\ RunTypes

LEMMA NameIsNotMain ==
  ASSUME NEW p \in Bot!Plan, IsFiniteSet(p.changes) PROVE Bot!NameOf(p) # Bot!Main
<1>1. p.changes # {}
  BY DEF Bot!Plan
<1>2. Cardinality(p.changes) \in Nat /\ Cardinality(p.changes) # 0
  BY <1>1, FS_CardinalityType, FS_EmptySet
<1>3. 1 \in DOMAIN Bot!Sorted(p.changes)
  BY BotSizes, <1>2 DEF Bot!Sorted
<1>4. Bot!Sorted(p.changes) # <<>>
  BY <1>3
<1> QED
  BY <1>4 DEF Bot!NameOf, Bot!Main

LEMMA PlansAre ==
  ASSUME Bot!RemediationBotAssumption, NEW tree
  PROVE  /\ Bot!PlansFor(tree) \subseteq Bot!Plan
         /\ \A p \in Bot!PlansFor(tree) :
              /\ p.changes \subseteq p.text
                 /\ p.text = tree[p.config] \cup p.changes
              /\ IsFiniteSet(p.changes)
         /\ \A p, q \in Bot!PlansFor(tree) : p.config = q.config => p = q
<1>1. ASSUME NEW p \in Bot!PlansFor(tree) PROVE IsFiniteSet(p.changes)
  BY BotSizes, FS_Subset DEF Bot!PlansFor, Bot!Plan,
     Bot!RemediationBotAssumption
<1>2. ASSUME NEW p \in Bot!PlansFor(tree), NEW q \in Bot!PlansFor(tree),
             p.config = q.config
      PROVE  p = q
  BY <1>2 DEF Bot!PlansFor, Bot!Plan
<1> QED
  BY <1>1, <1>2 DEF Bot!PlansFor

LEMMA BotTypesInit == Bot!RemediationBotAssumption /\ Bot!Init => BotTypes
BY DEF Bot!Init, BotTypes, HubTypes, RunTypes, InHand, Bot!Tree

LEMMA MergeTypes == BotTypes /\ Bot!Merge => BotTypes'
<1> SUFFICES ASSUME BotTypes, Bot!Merge PROVE BotTypes'
  OBVIOUS
<1>1. PICK b \in bot_open :
        /\ bot_main' = [c \in BotConfigs |-> bot_main[c] \cup bot_remote[b][c]]
        /\ bot_open' = bot_open \ {b}
  BY DEF Bot!Merge
<1>2. UNCHANGED <<bot_remote, bot_local, bot_fetched, bot_head, bot_prev,
        bot_work, bot_pc, bot_plans, bot_plan, bot_branch, bot_listed, bot_made,
          bot_drafted, bot_astray>>
  BY DEF Bot!Merge, Bot!cloneVars, Bot!runVars
<1>3. bot_remote[b] \in Bot!Tree /\ bot_main \in Bot!Tree
  BY DEF BotTypes, HubTypes
<1>4. bot_main' \in Bot!Tree
  BY <1>1, <1>3 DEF Bot!Tree
<1> QED
  BY <1>1, <1>2, <1>4 DEF BotTypes, HubTypes, RunTypes

LEMMA ChooseTypes == BotTypes /\ Bot!Choose => BotTypes'
<1> SUFFICES ASSUME BotTypes, Bot!Choose PROVE BotTypes'
  OBVIOUS
<1>1. /\ bot_pc = "next" /\ bot_pc' = "branch" /\ bot_plan' \in bot_plans
         /\ bot_plans' = bot_plans \ {bot_plan'}
      /\ bot_listed' \in {bot_open, {}}
      /\ bot_branch' = Bot!NameOf(bot_plan') \/ bot_branch' \in bot_listed'
      /\ UNCHANGED <<bot_main, bot_remote, bot_open, bot_local, bot_fetched,
           bot_head, bot_prev, bot_work, bot_made, bot_drafted, bot_astray>>
  BY DEF Bot!Choose, Bot!hubVars, Bot!cloneVars, Bot!pastVars, Bot!Matches
<1>2. bot_branch' # Bot!Main
  BY <1>1, NameIsNotMain DEF BotTypes, HubTypes, RunTypes
<1> QED
  BY <1>1, <1>2 DEF BotTypes, HubTypes, RunTypes, InHand

LEMMA BranchTypes == BotTypes /\ (Bot!Switch \/ Bot!Track \/ Bot!Create)
  => BotTypes'
<1> SUFFICES ASSUME BotTypes, Bot!Switch \/ Bot!Track \/ Bot!Create PROVE BotTypes'
  OBVIOUS
<1> USE DEF BotTypes, HubTypes, RunTypes, InHand
<1>1. CASE Bot!Switch
  <2>1. Bot!Carried(bot_branch) \in Bot!Tree
    BY <1>1 DEF Bot!Switch, Bot!Carried, Bot!Tree
  <2> QED
    BY <1>1, <2>1 DEF Bot!Switch, Bot!hubVars, Bot!pastVars
<1>2. CASE Bot!Track
  BY <1>2 DEF Bot!Track, Bot!hubVars, Bot!pastVars, Bot!Set
<1>3. CASE Bot!Create
  <2>1. UNCHANGED <<bot_main, bot_remote, bot_open, bot_made, bot_drafted,
          bot_astray, bot_fetched>> /\ bot_pc = "branch"
    BY <1>3 DEF Bot!Create, Bot!hubVars, Bot!cloneVars
  <2>2. CASE bot_branch \in DOMAIN bot_local
    BY <1>3, <2>1, <2>2 DEF Bot!Create, Bot!Abort, Bot!cloneVars
  <2>3. CASE bot_branch \notin DOMAIN bot_local
    BY <1>3, <2>1, <2>3 DEF Bot!Create, Bot!Set
  <2> QED
    BY <2>2, <2>3
<1> QED
  BY <1>1, <1>2, <1>3

LEMMA WrittenTree == BotTypes /\ bot_pc \in InHand => Bot!Written \in Bot!Tree
BY DEF BotTypes, HubTypes, RunTypes, Bot!Written, Bot!Tree, Bot!Plan

LEMMA DraftTree == \A b : BotTypes => Bot!Draft(b) \in Bot!Tree
BY DEF BotTypes, HubTypes, Bot!Draft, Bot!Tree

LEMMA CommitTypes == BotTypes /\ (Bot!Commit \/ Bot!CommitFails) => BotTypes'
<1> SUFFICES ASSUME BotTypes, Bot!Commit \/ Bot!CommitFails PROVE BotTypes'
  OBVIOUS
<1>0. bot_pc = "commit" /\ Bot!Written \in Bot!Tree
  BY WrittenTree DEF Bot!Commit, Bot!CommitFails, InHand
<1>1. CASE Bot!Commit
  <2>1. [Bot!Draft(bot_branch) EXCEPT ![bot_plan.config] = @ \cup bot_plan.changes]
          \in Bot!Tree
    BY <1>0, DraftTree DEF BotTypes, RunTypes, InHand, Bot!Tree, Bot!Plan
  <2>2. /\ bot_drafted' = Bot!Set(bot_drafted, bot_branch,
             [Bot!Draft(bot_branch) EXCEPT ![bot_plan.config] = @
               \cup bot_plan.changes])
        /\ bot_local' = [bot_local EXCEPT ![bot_head] = Bot!Written]
           /\ bot_work' = Bot!Written /\ bot_pc' = "push"
        /\ UNCHANGED <<bot_main, bot_remote, bot_open, bot_fetched, bot_head,
             bot_prev, bot_plans, bot_plan, bot_branch, bot_listed, bot_made,
               bot_astray>>
    BY <1>1 DEF Bot!Commit, Bot!hubVars
  <2>3. DOMAIN bot_drafted' = DOMAIN bot_drafted \cup {bot_branch}
        /\ \A b \in DOMAIN bot_drafted' : bot_drafted'[b] \in Bot!Tree
    BY <2>1, <2>2 DEF Bot!Set, BotTypes, HubTypes
  <2>4. DOMAIN bot_local' = DOMAIN bot_local
        /\ \A b \in DOMAIN bot_local' : bot_local'[b] \in Bot!Tree
    BY <1>0, <2>2 DEF BotTypes, HubTypes
  <2> QED
    BY <1>0, <2>2, <2>3, <2>4 DEF BotTypes, HubTypes, RunTypes, InHand
<1>2. CASE Bot!CommitFails
  BY <1>0, <1>2 DEF Bot!CommitFails, Bot!Abort, Bot!hubVars, BotTypes,
     HubTypes, RunTypes, InHand
<1> QED
  BY <1>1, <1>2

LEMMA BotTypesStep == Bot!RemediationBotAssumption /\ BotTypes
  /\ [Bot!Next]_(Bot!vars) => BotTypes'
<1> SUFFICES ASSUME Bot!RemediationBotAssumption, BotTypes, [Bot!Next]_(Bot!vars)
    PROVE  BotTypes'
  OBVIOUS
<1> USE DEF BotTypes, HubTypes, RunTypes, InHand
<1>1. CASE Bot!Tick \/ Bot!Disclose
  BY <1>1 DEF Bot!Tick, Bot!Disclose, Bot!cloneVars, Bot!runVars, Bot!pastVars
<1>2. CASE Bot!Clone
  BY <1>2 DEF Bot!Clone, Bot!hubVars, Bot!runVars, Bot!pastVars
<1>3. CASE Bot!Start
  <2>1. /\ bot_plans' = Bot!PlansFor(bot_work) /\ bot_made' = bot_plans'
           /\ bot_pc = "idle"
        /\ bot_pc' = IF bot_plans' = {} THEN "idle" ELSE "next"
        /\ bot_astray' = (bot_astray \/ bot_head # Bot!Main \/ ~Bot!Clean)
        /\ UNCHANGED <<bot_main, bot_remote, bot_open, bot_local, bot_fetched,
             bot_head, bot_prev, bot_work, bot_plan, bot_branch, bot_listed,
               bot_drafted>>
    BY <1>3 DEF Bot!Start, Bot!hubVars, Bot!cloneVars
  <2>2. bot_astray' \in BOOLEAN
    BY <2>1, Zenon
  <2>3. HubTypes'
    BY <2>1, <2>2
  <2>4. RunTypes'
    BY <2>1, PlansAre
  <2> QED
    BY <2>3, <2>4
<1>4. CASE Bot!PushFails
  BY <1>4 DEF Bot!PushFails, Bot!Abort, Bot!hubVars, Bot!cloneVars
<1>5. CASE Bot!Push
  BY <1>5 DEF Bot!Push, Bot!pastVars, Bot!Set
<1>6. CASE Bot!OpenPr
  BY <1>6 DEF Bot!OpenPr, Bot!cloneVars
<1>7. CASE Bot!Back
  BY <1>7 DEF Bot!Back, Bot!hubVars, Bot!pastVars
<1>8. CASE UNCHANGED Bot!vars
  BY <1>8 DEF Bot!vars, Bot!hubVars, Bot!cloneVars, Bot!runVars, Bot!pastVars
<1> QED
  BY <1>1, <1>2, <1>3, <1>4, <1>5, <1>6, <1>7, <1>8, MergeTypes, ChooseTypes,
     BranchTypes, CommitTypes DEF Bot!Next

-----------------------------------------------------------------------------

\* Once a plan of the run has been committed nothing is staged.
Handled == bot_made \ (bot_plans \cup {bot_plan})
Committed ==
  /\ bot_pc \in {"push", "pr", "back"} => Bot!Clean
  /\ bot_pc # "idle" /\ Handled # {} => Bot!Clean

LEMMA CleanSwitch ==
  ASSUME BotTypes, Bot!Clean, NEW b \in DOMAIN bot_local
  PROVE  Bot!CanSwitch(b) /\ Bot!Carried(b) = bot_local[b]
BY DEF Bot!CanSwitch, Bot!Carried, Bot!Clean, BotTypes, HubTypes, Bot!Tree

LEMMA CommittedStep == BotTypes /\ BotTypes' /\ Committed /\ [Bot!Next]_(Bot!vars)
  => Committed'
<1> SUFFICES ASSUME BotTypes, BotTypes', Committed, [Bot!Next]_(Bot!vars)
    PROVE  Committed'
  OBVIOUS
<1> USE DEF Committed
<1>1. CASE Bot!Tick \/ Bot!Disclose \/ Bot!Merge
  BY <1>1 DEF Bot!Tick, Bot!Disclose, Bot!Merge, Bot!cloneVars, Bot!runVars,
     Bot!pastVars, Bot!Clean, Handled
<1>2. CASE Bot!Clone \/ Bot!PushFails \/ Bot!CommitFails
  BY <1>2 DEF Bot!Clone, Bot!PushFails, Bot!CommitFails, Bot!Abort, Bot!runVars
<1>3. CASE Bot!Start
  BY <1>3 DEF Bot!Start, Bot!cloneVars, Handled
<1>4. CASE Bot!Choose
  <2>1. /\ bot_pc = "next" /\ bot_pc' = "branch" /\ bot_plan' \in bot_plans
           /\ bot_plans' = bot_plans \ {bot_plan'}
        /\ UNCHANGED <<bot_local, bot_head, bot_work, bot_made>>
           /\ Bot!NoPlan \notin bot_made
    BY <1>4 DEF Bot!Choose, Bot!cloneVars, Bot!pastVars, BotTypes, RunTypes,
       Bot!Plan, Bot!NoPlan
  <2>2. Handled' = Handled
    BY <2>1 DEF Handled, BotTypes, RunTypes, InHand
  <2> QED
    BY <2>1, <2>2 DEF Bot!Clean
<1>5. CASE Bot!Switch
  <2>1. /\ bot_pc = "branch" /\ bot_pc' = "commit"
           /\ bot_branch \in DOMAIN bot_local
        /\ bot_work' = Bot!Carried(bot_branch) /\ bot_head' = bot_branch
           /\ UNCHANGED <<bot_local, bot_made, bot_plans, bot_plan>>
    BY <1>5 DEF Bot!Switch, Bot!pastVars
  <2> QED
    BY <2>1, CleanSwitch DEF Handled, Bot!Clean
<1>6. CASE Bot!Track
  BY <1>6 DEF Bot!Track, Bot!Set, Bot!pastVars, Handled, Bot!Clean
<1>7. CASE Bot!Create
  BY <1>7 DEF Bot!Create, Bot!Set, Bot!Abort, Handled, Bot!Clean
<1>8. CASE Bot!Commit
  <2>1. Bot!Clean'
    BY <1>8 DEF Bot!Commit, Bot!Clean, BotTypes, HubTypes
  <2> QED
    BY <2>1 DEF Handled
<1>9. CASE Bot!Push \/ Bot!OpenPr
  BY <1>9 DEF Bot!Push, Bot!OpenPr, Bot!cloneVars, Bot!pastVars, Bot!Clean,
     Handled
<1>10. CASE Bot!Back
  BY <1>10 DEF Bot!Back, Bot!Clean
<1>11. CASE UNCHANGED Bot!vars
  BY <1>11 DEF Bot!vars, Bot!cloneVars, Bot!runVars, Bot!pastVars, Bot!Clean,
     Handled
<1> QED
  BY <1>1, <1>2, <1>3, <1>4, <1>5, <1>6, <1>7, <1>8, <1>9, <1>10, <1>11 DEF
     Bot!Next

-----------------------------------------------------------------------------

\* The fixes of a plan are on the default branch, or on a branch with an open
\* pull request of which the clone has the same fixes.
Landed(p) ==
  \/ p.changes \subseteq bot_main[p.config]
  \/ \E b \in bot_open :
       /\ b \in DOMAIN bot_local
       /\ p.changes \subseteq bot_remote[b][p.config]
       /\ p.changes \subseteq bot_local[b][p.config]

Pending(p) ==
  p \in bot_plans \/ (p = bot_plan /\ bot_pc \in {"branch", "commit", "push", "pr"})

OnItsWay ==
  /\ bot_pc \in {"push", "pr"}
       => bot_plan.changes \subseteq bot_local[bot_branch][bot_plan.config]
  /\ bot_pc = "pr"
       => bot_plan.changes \subseteq bot_remote[bot_branch][bot_plan.config]
  /\ bot_pc \in {"branch", "commit", "push"} /\ bot_branch \in bot_listed
       => bot_branch \in bot_open \/ bot_plan \in bot_missed
  /\ bot_pc = "pr" /\ bot_branch \in bot_listed =>
       bot_branch \in bot_open \/ bot_plan \in bot_missed
       \/ bot_plan.changes \subseteq bot_main[bot_plan.config]

PlansKept ==
  bot_pc # "idle" => \A p \in bot_made \ bot_missed : Landed(p) \/ Pending(p)

BotPub == OnItsWay /\ PlansKept /\ Bot!PlansArePublished

LEMMA OnItsWayStep == BotTypes /\ OnItsWay /\ [Bot!Next]_(Bot!vars) => OnItsWay'
<1> SUFFICES ASSUME BotTypes, OnItsWay, [Bot!Next]_(Bot!vars) PROVE OnItsWay'
  OBVIOUS
<1> USE DEF OnItsWay
<1>1. CASE Bot!Tick \/ Bot!Disclose
  BY <1>1 DEF Bot!Tick, Bot!Disclose, Bot!cloneVars, Bot!runVars, Bot!pastVars
<1>2. CASE Bot!Merge
  <2>1. PICK b \in bot_open :
          /\ bot_main' = [c \in BotConfigs |-> bot_main[c] \cup bot_remote[b][c]]
          /\ bot_open' = bot_open \ {b}
          /\ bot_missed' = IF bot_pc \in {"branch", "commit", "push"}
             /\ bot_branch = b /\ b \in bot_listed
                         THEN bot_missed \cup {bot_plan} ELSE bot_missed
          /\ UNCHANGED <<bot_remote, bot_local, bot_pc, bot_plans, bot_plan,
               bot_branch, bot_listed>>
    BY <1>2 DEF Bot!Merge, Bot!cloneVars, Bot!runVars
  <2>2. \A c \in BotConfigs : bot_main[c] \subseteq bot_main'[c]
        /\ bot_remote[b][c] \subseteq bot_main'[c]
    BY <2>1
  <2>3. bot_pc = "pr" => bot_plan.config \in BotConfigs
    BY DEF BotTypes, RunTypes, InHand, Bot!Plan
  <2> QED
    BY <2>1, <2>2, <2>3
<1>3. CASE Bot!Clone \/ Bot!Start \/ Bot!PushFails \/ Bot!CommitFails
  BY <1>3 DEF Bot!Clone, Bot!Start, Bot!PushFails, Bot!CommitFails, Bot!Abort,
     Bot!runVars, BotTypes, RunTypes
<1>4. CASE Bot!Choose
  BY <1>4 DEF Bot!Choose, Bot!hubVars, Bot!cloneVars, Bot!pastVars, BotTypes,
     HubTypes
<1>5. CASE Bot!Switch \/ Bot!Track \/ Bot!Create
  BY <1>5 DEF Bot!Switch, Bot!Track, Bot!Create, Bot!Abort, Bot!hubVars,
     Bot!pastVars
<1>6. CASE Bot!Commit
  <2>1. /\ bot_pc = "commit" /\ bot_pc' = "push"
           /\ bot_local' = [bot_local EXCEPT ![bot_head] = Bot!Written]
        /\ UNCHANGED <<bot_main, bot_open, bot_remote, bot_plan, bot_branch,
             bot_listed, bot_missed>>
    BY <1>6 DEF Bot!Commit, Bot!hubVars
  <2>2. /\ bot_head = bot_branch /\ bot_branch \in DOMAIN bot_local
           /\ bot_plan.config \in BotConfigs
        /\ bot_plan.changes \subseteq bot_plan.text /\ bot_work \in Bot!Tree
    BY <2>1 DEF BotTypes, HubTypes, RunTypes, InHand, Bot!Plan
  <2>3. bot_local'[bot_branch][bot_plan.config] = bot_plan.text
    BY <2>1, <2>2 DEF Bot!Written, Bot!Tree
  <2> QED
    BY <2>1, <2>2, <2>3
<1>7. CASE Bot!Push
  BY <1>7 DEF Bot!Push, Bot!Set, Bot!pastVars
<1>8. CASE Bot!OpenPr \/ Bot!Back
  BY <1>8 DEF Bot!OpenPr, Bot!Back
<1>9. CASE UNCHANGED Bot!vars
  BY <1>9 DEF Bot!vars, Bot!hubVars, Bot!cloneVars, Bot!runVars, Bot!pastVars
<1> QED
  BY <1>1, <1>2, <1>3, <1>4, <1>5, <1>6, <1>7, <1>8, <1>9 DEF Bot!Next

LEMMA PlansKeptStep ==
  Bot!RemediationBotAssumption /\ BotTypes /\ Committed /\ OnItsWay /\ PlansKept
  /\ [Bot!Next]_(Bot!vars) => PlansKept'
<1> SUFFICES ASSUME Bot!RemediationBotAssumption, BotTypes, Committed, OnItsWay,
                    PlansKept, [Bot!Next]_(Bot!vars), bot_pc' # "idle",
                    NEW p \in bot_made', p \notin bot_missed'
             PROVE  Landed(p)' \/ Pending(p)'
  BY DEF PlansKept
<1>1. CASE Bot!Start
  BY <1>1 DEF Bot!Start, Pending
<1>2. CASE Bot!Clone \/ Bot!PushFails \/ Bot!CommitFails
  BY <1>2 DEF Bot!Clone, Bot!PushFails, Bot!CommitFails, Bot!Abort,
     Bot!runVars, BotTypes, RunTypes
<1>3. ASSUME bot_pc # "idle", bot_made' = bot_made, bot_missed \subseteq bot_missed'
      PROVE  p \in bot_made /\ (Landed(p) \/ Pending(p))
  BY <1>3 DEF PlansKept
<1>4. CASE Bot!Tick \/ Bot!Disclose
  BY <1>3, <1>4 DEF Bot!Tick, Bot!Disclose, Bot!cloneVars, Bot!runVars,
     Bot!pastVars, Landed, Pending
<1>5. CASE Bot!Merge
  <2>1. PICK b \in bot_open :
          /\ bot_main' = [c \in BotConfigs |-> bot_main[c] \cup bot_remote[b][c]]
          /\ bot_open' = bot_open \ {b}
          /\ bot_missed \subseteq bot_missed'
          /\ UNCHANGED <<bot_remote, bot_local, bot_pc, bot_plans, bot_plan,
               bot_branch, bot_listed, bot_made>>
    BY <1>5 DEF Bot!Merge, Bot!cloneVars, Bot!runVars
  <2>2. p \in bot_made /\ (Landed(p) \/ Pending(p)) /\ p.config \in BotConfigs
    BY <1>3, <2>1 DEF BotTypes, RunTypes, Bot!Plan
  <2>3. CASE Pending(p)
    BY <2>1, <2>3 DEF Pending
  <2>4. CASE Landed(p)
    BY <2>1, <2>2, <2>4 DEF Landed
  <2> QED
    BY <2>2, <2>3, <2>4
<1>6. CASE Bot!Choose
  <2>1. /\ bot_pc = "next" /\ bot_pc' = "branch"
           /\ bot_plans' = bot_plans \ {bot_plan'}
        /\ UNCHANGED <<bot_main, bot_remote, bot_open, bot_local, bot_made,
             bot_missed>>
    BY <1>6 DEF Bot!Choose, Bot!hubVars, Bot!cloneVars, Bot!pastVars
  <2> QED
    BY <1>3, <2>1 DEF Landed, Pending
<1>7. CASE Bot!Switch \/ Bot!Track \/ Bot!Create
  <2>1. /\ bot_pc = "branch"
           /\ UNCHANGED <<bot_main, bot_remote, bot_open, bot_made>>
        /\ \/ bot_pc' = "commit" /\ UNCHANGED <<bot_plans, bot_plan, bot_missed>>
           \/ bot_pc' = "idle"
        /\ \A b \in DOMAIN bot_local : b \in DOMAIN bot_local'
           /\ bot_local'[b] = bot_local[b]
    BY <1>7 DEF Bot!Switch, Bot!Track, Bot!Create, Bot!Abort, Bot!hubVars,
       Bot!cloneVars, Bot!pastVars, Bot!Set
  <2> QED
    BY <1>3, <2>1 DEF Landed, Pending
<1>8. CASE Bot!Commit
  <2>1. /\ bot_pc = "commit" /\ bot_pc' = "push"
           /\ bot_local' = [bot_local EXCEPT ![bot_head] = Bot!Written]
        /\ UNCHANGED <<bot_main, bot_open, bot_remote, bot_plans, bot_plan,
             bot_branch, bot_made, bot_missed>>
    BY <1>8 DEF Bot!Commit, Bot!hubVars
  <2>2. p \in bot_made /\ (Landed(p) \/ Pending(p))
    BY <1>3, <2>1
  <2>3. CASE Pending(p)
    BY <2>1, <2>3 DEF Pending
  <2>4. CASE Landed(p) /\ ~Pending(p)
    <3>1. p \in Handled /\ bot_plan \in bot_made /\ p # bot_plan
      BY <2>1, <2>2, <2>4 DEF Handled, Pending, BotTypes, RunTypes, InHand
    <3>2. Bot!Clean /\ p.config # bot_plan.config
      BY <2>1, <3>1 DEF Committed, BotTypes, RunTypes
    <3>3. p.config \in BotConfigs /\ bot_work \in Bot!Tree
          /\ bot_head \in DOMAIN bot_local
      BY <2>2 DEF BotTypes, HubTypes, RunTypes, Bot!Plan
    <3>4. Bot!Written[p.config] = bot_local[bot_head][p.config]
      BY <3>2, <3>3 DEF Bot!Written, Bot!Clean, Bot!Tree
    <3>5. \A b \in DOMAIN bot_local :
            bot_local'[b][p.config] = bot_local[b][p.config]
      BY <2>1, <3>4
    <3> QED
      BY <2>1, <2>4, <3>5 DEF Landed
  <2> QED
    BY <2>2, <2>3, <2>4
<1>9. CASE Bot!Push
  <2>1. /\ bot_pc = "push" /\ bot_pc' = "pr"
           /\ bot_remote' = Bot!Set(bot_remote, bot_branch, bot_local[bot_branch])
        /\ UNCHANGED <<bot_main, bot_open, bot_local, bot_plans, bot_plan,
             bot_branch, bot_made, bot_missed>>
    BY <1>9 DEF Bot!Push, Bot!pastVars
  <2>2. \A b \in bot_open : bot_remote'[b] = IF b = bot_branch THEN bot_local[b]
          ELSE bot_remote[b]
    BY <2>1 DEF Bot!Set, BotTypes, HubTypes
  <2> QED
    BY <1>3, <2>1, <2>2 DEF Landed, Pending
<1>10. CASE Bot!OpenPr
  <2>1. /\ bot_pc = "pr" /\ bot_pc' = "back"
        /\ UNCHANGED <<bot_main, bot_remote, bot_local, bot_plans, bot_plan,
             bot_branch, bot_made, bot_listed>>
        /\ bot_open \subseteq bot_open' /\ bot_missed \subseteq bot_missed'
        /\ \/ bot_branch \in bot_listed /\ bot_missed' = bot_missed
           \/ bot_branch \in bot_open'
           \/ bot_plan \in bot_missed'
    BY <1>10 DEF Bot!OpenPr, Bot!cloneVars
  <2>2. p \in bot_made /\ (Landed(p) \/ Pending(p))
    BY <1>3, <2>1
  <2>3. CASE Landed(p)
    BY <2>1, <2>3 DEF Landed
  <2>4. CASE p \in bot_plans
    BY <2>1, <2>4 DEF Pending
  <2>5. CASE p = bot_plan
    <3>1. bot_branch \in bot_open'
          \/ bot_plan.changes \subseteq bot_main[bot_plan.config]
      BY <2>1, <2>5 DEF OnItsWay
    <3>2. bot_branch \in DOMAIN bot_local
      BY <2>1 DEF BotTypes, HubTypes, RunTypes, InHand
    <3> QED
      BY <2>1, <2>5, <3>1, <3>2 DEF Landed, OnItsWay
  <2> QED
    BY <2>2, <2>3, <2>4, <2>5 DEF Pending
<1>11. CASE Bot!Back
  BY <1>3, <1>11 DEF Bot!Back, Bot!hubVars, Bot!pastVars, Landed, Pending
<1>12. CASE UNCHANGED Bot!vars
  BY <1>3, <1>12 DEF Bot!vars, Bot!hubVars, Bot!cloneVars, Bot!runVars,
     Bot!pastVars, Landed, Pending
<1> QED
  BY <1>1, <1>2, <1>4, <1>5, <1>6, <1>7, <1>8, <1>9, <1>10, <1>11, <1>12 DEF
     Bot!Next

LEMMA PublishedStep ==
  Bot!RemediationBotAssumption /\ BotTypes /\ PlansKept /\ Bot!PlansArePublished
  /\ [Bot!Next]_(Bot!vars) => Bot!PlansArePublished'
<1> SUFFICES ASSUME Bot!RemediationBotAssumption, BotTypes, PlansKept,
                    Bot!PlansArePublished, [Bot!Next]_(Bot!vars), bot_pc' = "idle",
                    NEW p \in bot_made', p \notin bot_missed'
             PROVE  \/ p.changes \subseteq bot_main'[p.config]
                    \/ \E b \in bot_open' :
                         p.changes \subseteq bot_remote'[b][p.config]
  BY DEF Bot!PlansArePublished
<1> DEFINE Here == \/ p.changes \subseteq bot_main[p.config]
                   \/ \E b \in bot_open :
                        p.changes \subseteq bot_remote[b][p.config]
<1>1. CASE Bot!Start
  BY <1>1 DEF Bot!Start
<1>2. CASE Bot!CommitFails \/ Bot!PushFails \/ Bot!Create
  <2>1. /\ bot_missed' = bot_missed \cup bot_plans \cup {bot_plan}
           /\ UNCHANGED <<bot_main, bot_remote, bot_open, bot_made>>
        /\ bot_pc # "idle"
    BY <1>2 DEF Bot!CommitFails, Bot!PushFails, Bot!Create, Bot!Abort,
       Bot!hubVars
  <2>2. Landed(p)
    BY <2>1 DEF PlansKept, Pending
  <2> QED
    BY <2>1, <2>2 DEF Landed
<1>3. CASE Bot!Back
  <2>1. /\ bot_pc = "back" /\ bot_plans = {}
           /\ UNCHANGED <<bot_main, bot_remote, bot_open, bot_made, bot_missed>>
    BY <1>3 DEF Bot!Back, Bot!hubVars, Bot!pastVars
  <2>2. Landed(p)
    BY <2>1 DEF PlansKept, Pending
  <2> QED
    BY <2>1, <2>2 DEF Landed
<1>4. CASE Bot!Merge
  <2>1. PICK b \in bot_open :
          /\ bot_main' = [c \in BotConfigs |-> bot_main[c] \cup bot_remote[b][c]]
          /\ bot_open' = bot_open \ {b}
          /\ bot_missed \subseteq bot_missed'
          /\ UNCHANGED <<bot_remote, bot_pc, bot_made>>
    BY <1>4 DEF Bot!Merge, Bot!cloneVars, Bot!runVars
  <2>2. Here /\ p.config \in BotConfigs
    BY <2>1 DEF Bot!PlansArePublished, BotTypes, RunTypes, Bot!Plan
  <2> QED
    BY <2>1, <2>2
<1>5. CASE bot_pc = "idle"
      /\ UNCHANGED <<bot_main, bot_remote, bot_open, bot_made, bot_missed>>
  BY <1>5 DEF Bot!PlansArePublished
<1>6. CASE Bot!Tick \/ Bot!Disclose \/ Bot!Clone \/ UNCHANGED Bot!vars
  BY <1>5, <1>6 DEF Bot!Tick, Bot!Disclose, Bot!Clone, Bot!vars, Bot!hubVars,
     Bot!cloneVars, Bot!runVars, Bot!pastVars
<1>7. CASE Bot!Choose \/ Bot!Switch \/ Bot!Track \/ Bot!Commit \/ Bot!Push
      \/ Bot!OpenPr
  BY <1>7 DEF Bot!Choose, Bot!Switch, Bot!Track, Bot!Commit, Bot!Push,
     Bot!OpenPr
<1> QED
  BY <1>1, <1>2, <1>3, <1>4, <1>6, <1>7 DEF Bot!Next

-----------------------------------------------------------------------------

\* What a run that began on a clean default branch is built from.
FromMain ==
  ~bot_astray =>
    /\ \A b \in DOMAIN bot_local : \A c \in BotConfigs :
         bot_local[b][c] \subseteq bot_main[c] \cup Bot!Draft(b)[c]
    /\ bot_pc # "idle"
         => \A p \in bot_made : p.text \subseteq bot_main[p.config] \cup p.changes
    /\ bot_pc \in {"next", "branch"} => bot_head = Bot!Main /\ Bot!Clean
    /\ bot_pc \in {"commit", "push", "pr", "back"} => bot_prev = Bot!Main
       /\ Bot!Clean

BotOwn == FromMain /\ Bot!BranchesHoldTheirOwn

\* The default branch, and what was meant for a branch, only grow.
LEMMA Grows ==
  ASSUME BotTypes, [Bot!Next]_(Bot!vars)
  PROVE  /\ \A c \in BotConfigs : bot_main[c] \subseteq bot_main'[c]
         /\ \A b : \A c \in BotConfigs : Bot!Draft(b)[c] \subseteq Bot!Draft(b)'[c]
         /\ ~bot_astray' => ~bot_astray
<1>1. CASE Bot!Merge
  <2>1. PICK b \in bot_open :
          bot_main' = [c \in BotConfigs |-> bot_main[c] \cup bot_remote[b][c]]
    BY <1>1 DEF Bot!Merge
  <2>2. UNCHANGED <<bot_drafted, bot_astray>>
    BY <1>1 DEF Bot!Merge
  <2> QED
    BY <2>1, <2>2 DEF Bot!Draft
<1>2. CASE Bot!Commit
  <2>1. /\ bot_drafted' = Bot!Set(bot_drafted, bot_branch,
             [Bot!Draft(bot_branch) EXCEPT ![bot_plan.config] = @
               \cup bot_plan.changes])
        /\ UNCHANGED <<bot_main, bot_astray, bot_branch>>
    BY <1>2 DEF Bot!Commit, Bot!hubVars
  <2>2. Bot!Draft(bot_branch) \in Bot!Tree
    BY DraftTree
  <2>3. \A c \in BotConfigs :
          Bot!Draft(bot_branch)[c] \subseteq bot_drafted'[bot_branch][c]
    BY <2>1, <2>2 DEF Bot!Set, Bot!Tree
  <2>4. \A b : b # bot_branch => Bot!Draft(b)' = Bot!Draft(b)
    BY <2>1 DEF Bot!Set, Bot!Draft
  <2>5. Bot!Draft(bot_branch)' = bot_drafted'[bot_branch]
    BY <2>1 DEF Bot!Set, Bot!Draft
  <2> QED
    BY <2>1, <2>3, <2>4, <2>5
<1>3. CASE UNCHANGED <<bot_main, bot_drafted>> /\ (~bot_astray' => ~bot_astray)
  BY <1>3 DEF Bot!Draft
<1>4. Bot!Merge \/ Bot!Commit
      \/ (UNCHANGED <<bot_main, bot_drafted>> /\ (~bot_astray' => ~bot_astray))
  BY DEF Bot!Next, Bot!Tick, Bot!Disclose, Bot!Clone, Bot!Start, Bot!Choose,
     Bot!Switch, Bot!Track, Bot!Create, Bot!CommitFails, Bot!Abort, Bot!Push,
     Bot!PushFails, Bot!OpenPr, Bot!Back, Bot!vars, Bot!hubVars, Bot!cloneVars,
     Bot!runVars, Bot!pastVars
<1> QED
  BY <1>1, <1>2, <1>3, <1>4

LEMMA OwnStep ==
  Bot!RemediationBotAssumption /\ BotTypes /\ BotTypes' /\ FromMain
  /\ Bot!BranchesHoldTheirOwn /\ [Bot!Next]_(Bot!vars)
    => FromMain' /\ Bot!BranchesHoldTheirOwn'
<1> SUFFICES ASSUME Bot!RemediationBotAssumption, BotTypes, BotTypes', FromMain,
                    Bot!BranchesHoldTheirOwn, [Bot!Next]_(Bot!vars),
                    ~bot_astray'
             PROVE  FromMain' /\ Bot!BranchesHoldTheirOwn'
  BY DEF FromMain, Bot!BranchesHoldTheirOwn
<1> DEFINE Own(b, t) == \A c \in BotConfigs :
      t[c] \subseteq bot_main[c] \cup Bot!Draft(b)[c]
           Own2(b, t) == \A c \in BotConfigs :
             t[c] \subseteq bot_main'[c] \cup Bot!Draft(b)'[c]
           Texts == \A p \in bot_made :
             p.text \subseteq bot_main[p.config] \cup p.changes
<1>1. /\ \A b \in DOMAIN bot_local : Own(b, bot_local[b])
      /\ \A b \in DOMAIN bot_remote : Own(b, bot_remote[b])
      /\ bot_pc # "idle" => Texts
      /\ bot_pc \in {"next", "branch"} => bot_head = Bot!Main /\ Bot!Clean
      /\ bot_pc \in {"commit", "push", "pr", "back"} => bot_prev = Bot!Main
         /\ Bot!Clean
  BY Grows DEF FromMain, Bot!BranchesHoldTheirOwn
<1>2. \A b, t : Own(b, t) => Own2(b, t)
  BY Grows
<1>3. SUFFICES /\ \A b \in DOMAIN bot_local' : Own2(b, bot_local'[b])
               /\ \A b \in DOMAIN bot_remote' : Own2(b, bot_remote'[b])
               /\ bot_pc' # "idle" => Texts'
               /\ bot_pc' \in {"next", "branch"} => bot_head' = Bot!Main
                  /\ Bot!Clean'
               /\ bot_pc' \in {"commit", "push", "pr", "back"}
                    => bot_prev' = Bot!Main /\ Bot!Clean'
  BY Zenon DEF FromMain, Bot!BranchesHoldTheirOwn
<1>4. bot_pc # "idle" /\ bot_made' = bot_made => Texts'
  BY <1>1, Grows DEF BotTypes, RunTypes, Bot!Plan
<1> HIDE DEF Own, Own2, Texts
<1>5. CASE Bot!Tick \/ Bot!Disclose \/ Bot!Merge \/ UNCHANGED Bot!vars
  <2>1. UNCHANGED <<bot_remote, bot_local, bot_head, bot_prev, bot_work, bot_pc,
          bot_made>>
    BY <1>5 DEF Bot!Tick, Bot!Disclose, Bot!Merge, Bot!vars, Bot!hubVars,
       Bot!cloneVars, Bot!runVars, Bot!pastVars
  <2> QED
    BY <1>1, <1>2, <1>4, <2>1 DEF Bot!Clean
<1>6. CASE Bot!Clone
  <2>1. /\ bot_pc = "idle" /\ bot_pc' = bot_pc
           /\ bot_local' = [b \in {Bot!Main} |-> bot_main]
           /\ bot_remote' = bot_remote
    BY <1>6 DEF Bot!Clone, Bot!hubVars, Bot!runVars
  <2>2. Own(Bot!Main, bot_main)
    BY DEF Own
  <2> QED
    BY <1>1, <1>2, <2>1, <2>2
<1>7. CASE Bot!Start
  <2>1. /\ bot_head = Bot!Main /\ Bot!Clean /\ bot_made' = Bot!PlansFor(bot_work)
           /\ bot_pc' \in {"idle", "next"}
        /\ UNCHANGED <<bot_main, bot_remote, bot_local, bot_head, bot_prev,
             bot_work>>
    BY <1>7 DEF Bot!Start, Bot!hubVars, Bot!cloneVars
  <2>2. \A c \in BotConfigs : bot_work[c] \subseteq bot_main[c]
    BY <1>1, <2>1 DEF Bot!Clean, Own, Bot!Draft, BotTypes, HubTypes
  <2>3. Texts'
    <3>1. ASSUME NEW p \in Bot!PlansFor(bot_work)
          PROVE  p.text \subseteq bot_main[p.config] \cup p.changes
      BY <2>2, PlansAre DEF Bot!Plan
    <3> QED
      BY <2>1, <3>1 DEF Texts
  <2> QED
    BY <1>1, <1>2, <2>1, <2>3 DEF Bot!Clean
<1>8. CASE Bot!Choose
  <2>1. /\ bot_pc = "next" /\ bot_pc' = "branch"
           /\ UNCHANGED <<bot_remote, bot_local, bot_head, bot_prev, bot_work,
                bot_made>>
    BY <1>8 DEF Bot!Choose, Bot!hubVars, Bot!cloneVars, Bot!pastVars
  <2> QED
    BY <1>1, <1>2, <1>4, <2>1 DEF Bot!Clean
<1>9. CASE Bot!Switch
  <2>1. /\ bot_pc = "branch" /\ bot_pc' = "commit"
           /\ bot_branch \in DOMAIN bot_local
        /\ bot_work' = Bot!Carried(bot_branch) /\ bot_head' = bot_branch
           /\ bot_prev' = (IF bot_branch = bot_head THEN bot_prev ELSE bot_head)
        /\ UNCHANGED <<bot_remote, bot_local, bot_made>>
    BY <1>9 DEF Bot!Switch, Bot!hubVars, Bot!pastVars
  <2>2. bot_head = Bot!Main /\ Bot!Clean /\ bot_branch # Bot!Main
    BY <1>1, <2>1 DEF BotTypes, RunTypes, InHand
  <2>3. bot_work' = bot_local[bot_branch]
    BY <2>1, <2>2, CleanSwitch
  <2> QED
    BY <1>1, <1>2, <1>4, <2>1, <2>2, <2>3 DEF Bot!Clean
<1>10. CASE Bot!Track
  <2>1. /\ bot_pc = "branch" /\ bot_pc' = "commit" /\ bot_branch \in bot_fetched
        /\ bot_local' = Bot!Set(bot_local, bot_branch, bot_remote[bot_branch])
        /\ bot_work' = bot_remote[bot_branch] /\ bot_head' = bot_branch
           /\ bot_prev' = bot_head
        /\ UNCHANGED <<bot_remote, bot_made>>
    BY <1>10 DEF Bot!Track, Bot!hubVars, Bot!pastVars
  <2>2. bot_head = Bot!Main /\ bot_branch \in DOMAIN bot_remote
    BY <1>1, <2>1 DEF BotTypes, HubTypes
  <2>3. Bot!Clean' /\ \A b \in DOMAIN bot_local' :
          bot_local'[b] = IF b = bot_branch THEN bot_remote[b] ELSE bot_local[b]
    BY <2>1 DEF Bot!Set, Bot!Clean
  <2>4. DOMAIN bot_local' = DOMAIN bot_local \cup {bot_branch}
    BY <2>1 DEF Bot!Set
  <2> QED
    BY <1>1, <1>2, <1>4, <2>1, <2>2, <2>3, <2>4
<1>11. CASE Bot!Create
  <2>1. bot_pc = "branch" /\ UNCHANGED <<bot_remote, bot_made, bot_work>>
        /\ bot_head = Bot!Main /\ Bot!Clean
    BY <1>1, <1>11 DEF Bot!Create, Bot!Abort, Bot!hubVars, Bot!cloneVars
  <2>2. CASE bot_branch \in DOMAIN bot_local
    <3>1. bot_pc' = "idle" /\ bot_local' = bot_local
      BY <1>11, <2>2 DEF Bot!Create, Bot!Abort, Bot!cloneVars
    <3> QED
      BY <1>1, <1>2, <2>1, <3>1
  <2>3. CASE bot_branch \notin DOMAIN bot_local
    <3>1. /\ bot_local' = Bot!Set(bot_local, bot_branch, bot_local[Bot!Main])
             /\ bot_head' = bot_branch /\ bot_prev' = Bot!Main /\ bot_pc' = "commit"
      BY <1>11, <2>1, <2>3 DEF Bot!Create
    <3>2. DOMAIN bot_local' = DOMAIN bot_local \cup {bot_branch}
          /\ \A b \in DOMAIN bot_local' : bot_local'[b] = IF b = bot_branch
               THEN bot_local[Bot!Main] ELSE bot_local[b]
      BY <3>1 DEF Bot!Set
    <3>3. Own(bot_branch, bot_local[Bot!Main])
      <4>1. \A c \in BotConfigs : bot_local[Bot!Main][c] \subseteq bot_main[c]
        BY <1>1 DEF Own, Bot!Draft, BotTypes, HubTypes
      <4> QED
        BY <4>1 DEF Own
    <3>4. Bot!Clean'
      BY <2>1, <3>1, <3>2 DEF Bot!Clean
    <3> QED
      BY <1>1, <1>2, <1>4, <2>1, <3>1, <3>2, <3>3, <3>4
  <2> QED
    BY <2>2, <2>3
<1>12. CASE Bot!Commit
  <2>1. /\ bot_pc = "commit" /\ bot_pc' = "push"
           /\ bot_local' = [bot_local EXCEPT ![bot_head] = Bot!Written]
           /\ bot_work' = Bot!Written
        /\ bot_drafted' = Bot!Set(bot_drafted, bot_branch,
             [Bot!Draft(bot_branch) EXCEPT ![bot_plan.config] = @
               \cup bot_plan.changes])
        /\ UNCHANGED <<bot_main, bot_remote, bot_plan, bot_branch, bot_made,
             bot_head, bot_prev>>
    BY <1>12 DEF Bot!Commit, Bot!hubVars
  <2>2. /\ bot_head = bot_branch /\ bot_branch \in DOMAIN bot_local
           /\ bot_plan \in bot_made /\ bot_plan.config \in BotConfigs
        /\ bot_work = bot_local[bot_branch] /\ bot_work \in Bot!Tree
           /\ Bot!Draft(bot_branch) \in Bot!Tree /\ bot_prev = Bot!Main
    BY <1>1, <2>1, DraftTree DEF BotTypes, HubTypes, RunTypes, InHand,
       Bot!Plan, Bot!Clean
  <2>3. bot_plan.text \subseteq bot_main[bot_plan.config] \cup bot_plan.changes
    BY <1>1, <2>1, <2>2 DEF Texts
  <2>4. Bot!Draft(bot_branch)' = [Bot!Draft(bot_branch) EXCEPT ![bot_plan.config]
          = @ \cup bot_plan.changes]
    BY <2>1 DEF Bot!Set, Bot!Draft
  <2>5. Own2(bot_branch, Bot!Written)
    <3>1. ASSUME NEW c \in BotConfigs
          PROVE  Bot!Written[c] \subseteq bot_main'[c]
                   \cup Bot!Draft(bot_branch)'[c]
      <4>1. CASE c = bot_plan.config
        BY <2>1, <2>2, <2>3, <2>4, <4>1 DEF Bot!Written, Bot!Tree
      <4>2. CASE c # bot_plan.config
        <5>1. Bot!Written[c] = bot_local[bot_branch][c]
              /\ Bot!Draft(bot_branch)'[c] = Bot!Draft(bot_branch)[c]
          BY <2>2, <2>4, <4>2 DEF Bot!Written, Bot!Tree
        <5>2. bot_local[bot_branch][c] \subseteq bot_main[c]
                \cup Bot!Draft(bot_branch)[c]
          BY <1>1, <2>2 DEF Own
        <5> QED
          BY <2>1, <5>1, <5>2
      <4> QED
        BY <4>1, <4>2
    <3> QED
      BY <3>1 DEF Own2
  <2>6. DOMAIN bot_local' = DOMAIN bot_local
        /\ \A b \in DOMAIN bot_local : bot_local'[b] = IF b = bot_branch
             THEN Bot!Written ELSE bot_local[b]
    BY <2>1, <2>2
  <2>7. Bot!Clean'
    BY <2>1, <2>2, <2>6 DEF Bot!Clean
  <2> QED
    BY <1>1, <1>2, <1>4, <2>1, <2>2, <2>5, <2>6, <2>7
<1>13. CASE Bot!CommitFails \/ Bot!PushFails
  <2>1. bot_pc' = "idle" /\ UNCHANGED <<bot_remote, bot_local>>
    BY <1>13 DEF Bot!CommitFails, Bot!PushFails, Bot!Abort, Bot!hubVars,
       Bot!cloneVars
  <2> QED
    BY <1>1, <1>2, <2>1
<1>14. CASE Bot!Push
  <2>1. /\ bot_pc = "push" /\ bot_pc' = "pr"
           /\ bot_remote' = Bot!Set(bot_remote, bot_branch, bot_local[bot_branch])
        /\ UNCHANGED <<bot_local, bot_head, bot_prev, bot_work, bot_made>>
           /\ bot_head = bot_branch
    BY <1>14 DEF Bot!Push, Bot!pastVars, BotTypes, RunTypes, InHand
  <2>2. DOMAIN bot_remote' = DOMAIN bot_remote \cup {bot_branch}
        /\ \A b \in DOMAIN bot_remote' : bot_remote'[b] = IF b = bot_branch
             THEN bot_local[b] ELSE bot_remote[b]
    BY <2>1 DEF Bot!Set
  <2> QED
    BY <1>1, <1>2, <1>4, <2>1, <2>2 DEF Bot!Clean, BotTypes, HubTypes
<1>15. CASE Bot!OpenPr
  <2>1. bot_pc = "pr" /\ bot_pc' = "back"
        /\ UNCHANGED <<bot_remote, bot_local, bot_head, bot_prev, bot_work,
             bot_made>>
    BY <1>15 DEF Bot!OpenPr, Bot!cloneVars
  <2> QED
    BY <1>1, <1>2, <1>4, <2>1 DEF Bot!Clean
<1>16. CASE Bot!Back
  <2>1. /\ bot_pc = "back" /\ bot_pc' \in {"idle", "next"} /\ bot_head' = bot_prev
           /\ bot_work' = bot_local[bot_prev]
        /\ UNCHANGED <<bot_remote, bot_local, bot_made>>
    BY <1>16 DEF Bot!Back, Bot!hubVars, Bot!pastVars
  <2> QED
    BY <1>1, <1>2, <1>4, <2>1 DEF Bot!Clean
<1> QED
  BY <1>5, <1>6, <1>7, <1>8, <1>9, <1>10, <1>11, <1>12, <1>13, <1>14, <1>15,
     <1>16 DEF Bot!Next

BotInv == BotTypes /\ Committed /\ BotPub /\ BotOwn

LEMMA BotInit == Bot!RemediationBotAssumption /\ Bot!Init => BotInv
<1> SUFFICES ASSUME Bot!RemediationBotAssumption, Bot!Init PROVE BotInv
  OBVIOUS
<1>1. BotTypes
  BY BotTypesInit
<1>2. BotPub /\ Committed
  BY DEF Bot!Init, BotPub, OnItsWay, PlansKept, Bot!PlansArePublished,
     Committed
<1>3. BotOwn
  BY DEF Bot!Init, BotOwn, FromMain, Bot!BranchesHoldTheirOwn
<1> QED
  BY <1>1, <1>2, <1>3 DEF BotInv

LEMMA BotStep == Bot!RemediationBotAssumption /\ BotInv /\ [Bot!Next]_(Bot!vars)
  => BotInv'
BY BotTypesStep, CommittedStep, OnItsWayStep, PlansKeptStep, PublishedStep,
   OwnStep DEF BotInv, BotPub, BotOwn

\* Every plan that no failure stopped is in a pull request, and no branch holds
\* the fixes of another plan.
THEOREM BotSafe == Bot!RemediationBotAssumption /\ Bot!Spec
  => [](Bot!PlansArePublished /\ Bot!BranchesHoldTheirOwn)
<1> SUFFICES ASSUME Bot!RemediationBotAssumption
    PROVE  Bot!Spec => [](Bot!PlansArePublished /\ Bot!BranchesHoldTheirOwn)
  OBVIOUS
<1>1. Bot!Init => BotInv
  BY BotInit
<1>2. BotInv /\ [Bot!Next]_(Bot!vars) => BotInv'
  BY BotStep
<1>3. BotInv => Bot!PlansArePublished /\ Bot!BranchesHoldTheirOwn
  BY DEF BotInv, BotPub, BotOwn
<1> QED
  BY <1>1, <1>2, <1>3, PTL DEF Bot!Spec

\* A package has its place in the order: two have two, so every place is taken.
LEMMA SortedIs ==
  ASSUME NEW S \in SUBSET Nat, IsFiniteSet(S)
  PROVE  Bot!Sorted(S) \in [1..Cardinality(S) -> S]
<1> DEFINE n == Cardinality(S)
           below(p) == {q \in S : q < p}
           place == [p \in S |-> Cardinality(below(p)) + 1]
<1>1. n \in Nat /\ IsFiniteSet(1..n) /\ Cardinality(1..n) = n
  BY FS_CardinalityType, FS_Interval
<1>2. ASSUME NEW p \in S
      PROVE  /\ IsFiniteSet(below(p)) /\ Cardinality(below(p)) \in Nat
             /\ Cardinality(below(p)) < n
  <2>1. below(p) \subseteq S /\ below(p) # S
    OBVIOUS
  <2> QED
    BY <1>1, <2>1, FS_Subset, FS_CardinalityType
<1>3. ASSUME NEW p \in S, NEW q \in S, p < q
      PROVE  Cardinality(below(p)) < Cardinality(below(q))
  <2>1. below(p) \subseteq below(q)
    <3>1. \A r \in S : r < p => r < q
      BY <1>3
    <3> QED
      BY <3>1
  <2>2. p \in below(q) /\ p \notin below(p)
    BY <1>3
  <2> HIDE DEF below
  <2> QED
    BY <1>2, <2>1, <2>2, FS_Subset
<1> HIDE DEF below
<1>4. place \in [S -> 1..n]
  BY <1>1, <1>2
<1>5. ASSUME NEW p \in S, NEW q \in S, place[p] = place[q] PROVE p = q
  <2>1. p \in Nat /\ q \in Nat /\ Cardinality(below(p)) = Cardinality(below(q))
    BY <1>2, <1>5
  <2> QED
    BY <1>2, <1>3, <2>1
<1>6. place \in Injection(S, 1..n)
  BY <1>4, <1>5 DEF Injection, IsInjective
<1>7. place \in Surjection(S, 1..n)
  BY <1>1, <1>6, FS_Injection
<1>8. ASSUME NEW i \in 1..n PROVE \E p \in S : Cardinality(below(p)) = i - 1
  <2>1. PICK p \in S : place[p] = i
    BY <1>7 DEF Surjection
  <2> QED
    BY <1>1, <1>2, <2>1
<1>9. ASSUME NEW i \in 1..n
      PROVE  (CHOOSE p \in S : Bot!Cardinality({q \in S : q < p}) = i - 1) \in S
  BY <1>8, BotSizes DEF below
<1>10. Bot!Sorted(S) = [i \in 1..n |->
         CHOOSE p \in S : Bot!Cardinality({q \in S : q < p}) = i - 1]
  <2>1. Bot!Cardinality(S) = n
    BY BotSizes
  <2> QED
    BY <2>1 DEF Bot!Sorted
<1> QED
  BY <1>9, <1>10

\* A branch is named by the packages its plan changes, in their order.
LEMMA NameIsName ==
  ASSUME Bot!RemediationBotAssumption, bot_now \in 0..BotMaxNow,
         NEW p \in Bot!Plan, IsFiniteSet(p.changes)
  PROVE  Bot!NameOf(p) \in Bot!Names
<1>1. p.changes \in SUBSET Bot!Packages
  BY DEF Bot!Plan
<1>2. Bot!Packages \subseteq Nat
  BY DEF Bot!Packages, Bot!RemediationBotAssumption
<1>3. Bot!Sorted(p.changes) \in [1..Cardinality(p.changes) -> p.changes]
  BY <1>1, <1>2, SortedIs
<1>4. Cardinality(p.changes) \in Nat
  BY FS_CardinalityType
<1>5. Bot!Sorted(p.changes) \in Seq(Bot!Packages)
  BY <1>1, <1>3, <1>4
<1> QED
  BY <1>5 DEF Bot!NameOf, Bot!Names

\* What BotTypes leaves open.
BotNames ==
  /\ bot_known \subseteq Bot!Packages
  /\ bot_now \in 0..BotMaxNow /\ bot_runs \in 0..BotMaxRuns
  /\ DOMAIN bot_remote \subseteq Bot!Names /\ DOMAIN bot_local \subseteq Bot!Names
  /\ bot_branch \in Bot!Names
  /\ bot_missed \subseteq Bot!Plan
  /\ bot_drafted = [b \in DOMAIN bot_drafted |-> bot_drafted[b]]

LEMMA BotWhole == BotTypes /\ BotNames => Bot!TypeOK
<1> SUFFICES ASSUME BotTypes, BotNames PROVE Bot!TypeOK
  OBVIOUS
<1> USE DEF BotTypes, HubTypes, RunTypes, BotNames, InHand
<1>1. bot_drafted \in [DOMAIN bot_drafted -> Bot!Tree]
  OBVIOUS
<1>2. bot_plans \subseteq Bot!Plan /\ bot_plan \in Bot!Plan \cup {Bot!NoPlan}
  OBVIOUS
<1> QED
  BY <1>1, <1>2 DEF Bot!TypeOK

LEMMA BotNamesStep ==
  ASSUME Bot!RemediationBotAssumption, BotTypes, BotNames, [Bot!Next]_(Bot!vars)
  PROVE  BotNames'
<1> USE DEF BotNames
<1>0. BotMaxNow \in Nat /\ BotMaxRuns \in Nat
  BY DEF Bot!RemediationBotAssumption
<1>m. Bot!Main \in Bot!Names
  BY <1>0 DEF Bot!Main, Bot!Names
<1>p. bot_pc \in InHand => bot_plan \in Bot!Plan /\ bot_plans \subseteq Bot!Plan
  BY DEF BotTypes, RunTypes
<1>1. CASE Bot!Tick
  BY <1>0, <1>1 DEF Bot!Tick, Bot!cloneVars, Bot!runVars, Bot!pastVars
<1>2. CASE Bot!Disclose
  BY <1>2 DEF Bot!Disclose, Bot!cloneVars, Bot!runVars, Bot!pastVars
<1>3. CASE Bot!Merge
  BY <1>3, <1>p DEF Bot!Merge, Bot!cloneVars, Bot!runVars, InHand
<1>4. CASE Bot!Clone
  BY <1>4, <1>m DEF Bot!Clone, Bot!hubVars, Bot!runVars, Bot!pastVars
<1>5. CASE Bot!Start
  BY <1>0, <1>5 DEF Bot!Start, Bot!hubVars, Bot!cloneVars
<1>6. CASE Bot!Choose
  <2>1. /\ bot_plan' \in bot_plans
        /\ bot_listed' \subseteq DOMAIN bot_remote
        /\ bot_branch' = Bot!NameOf(bot_plan') \/ bot_branch' \in bot_listed'
        /\ UNCHANGED <<bot_known, bot_now, bot_runs, bot_remote, bot_local,
             bot_missed, bot_drafted>>
    BY <1>6 DEF Bot!Choose, Bot!hubVars, Bot!cloneVars, Bot!pastVars,
       Bot!Matches, BotTypes, HubTypes
  <2>2. bot_plan' \in Bot!Plan /\ IsFiniteSet(bot_plan'.changes)
    BY <2>1 DEF BotTypes, RunTypes
  <2>3. bot_branch' \in Bot!Names
    BY <2>1, <2>2, NameIsName
  <2> QED
    BY <2>1, <2>3
<1>7. CASE Bot!Switch
  BY <1>7 DEF Bot!Switch, Bot!hubVars, Bot!pastVars
<1>8. CASE Bot!Track
  BY <1>8 DEF Bot!Track, Bot!hubVars, Bot!pastVars, Bot!Set
<1>9. CASE Bot!Create
  <2>1. UNCHANGED <<bot_known, bot_now, bot_runs, bot_remote, bot_drafted>>
        /\ bot_pc \in InHand
    BY <1>9 DEF Bot!Create, Bot!hubVars, InHand
  <2>2. CASE bot_branch \in DOMAIN bot_local
    BY <1>9, <1>m, <1>p, <2>1, <2>2 DEF Bot!Create, Bot!Abort, Bot!cloneVars
  <2>3. CASE bot_branch \notin DOMAIN bot_local
    BY <1>9, <2>1, <2>3 DEF Bot!Create, Bot!Set
  <2> QED
    BY <2>2, <2>3
<1>10. CASE Bot!Commit
  <2>1. DOMAIN bot_local' = DOMAIN bot_local
        /\ UNCHANGED <<bot_known, bot_now, bot_runs, bot_remote, bot_branch,
             bot_missed>>
    BY <1>10 DEF Bot!Commit, Bot!hubVars
  <2>2. bot_drafted' = [b \in DOMAIN bot_drafted' |-> bot_drafted'[b]]
    BY <1>10 DEF Bot!Commit, Bot!Set
  <2> QED
    BY <2>1, <2>2
<1>11. CASE Bot!CommitFails
  BY <1>11, <1>m, <1>p DEF Bot!CommitFails, Bot!Abort, Bot!hubVars, InHand
<1>12. CASE Bot!Push
  BY <1>12 DEF Bot!Push, Bot!pastVars, Bot!Set
<1>13. CASE Bot!PushFails
  BY <1>13, <1>m, <1>p DEF Bot!PushFails, Bot!Abort, Bot!hubVars,
     Bot!cloneVars, InHand
<1>14. CASE Bot!OpenPr
  BY <1>14, <1>p DEF Bot!OpenPr, Bot!cloneVars, InHand
<1>15. CASE Bot!Back
  BY <1>15, <1>m DEF Bot!Back, Bot!hubVars, Bot!pastVars
<1>16. CASE UNCHANGED Bot!vars
  BY <1>16 DEF Bot!vars, Bot!hubVars, Bot!cloneVars, Bot!runVars, Bot!pastVars
<1> QED
  BY <1>1, <1>2, <1>3, <1>4, <1>5, <1>6, <1>7, <1>8, <1>9, <1>10, <1>11, <1>12,
     <1>13, <1>14, <1>15, <1>16 DEF Bot!Next

\* Every variable of the bot keeps its type.
LEMMA BotTypesSafe ==
  Bot!RemediationBotAssumption => (Bot!Spec => []Bot!TypeOK)
<1> SUFFICES ASSUME Bot!RemediationBotAssumption
    PROVE  Bot!Spec => []Bot!TypeOK
  OBVIOUS
<1>1. Bot!Init => BotTypes /\ BotNames
  <2>1. Bot!Init => BotNames
    BY DEF Bot!Init, BotNames, Bot!Main, Bot!Names,
       Bot!RemediationBotAssumption
  <2> QED
    BY <2>1, BotTypesInit
<1>2. BotTypes /\ BotNames /\ [Bot!Next]_(Bot!vars) => BotTypes' /\ BotNames'
  BY BotTypesStep, BotNamesStep
<1>3. BotTypes /\ BotNames => Bot!TypeOK
  BY BotWhole
<1> QED
  BY <1>1, <1>2, <1>3, PTL DEF Bot!Spec

-----------------------------------------------------------------------------
(* The catalogue of the site and the cache of its matrix.                  *)

\* A revision counts changes; what is left to do has a passport, and the
\* advisories that were loaded are such.
SiteTypes ==
  /\ Site!TypeOK
  /\ \A p \in SitePackages : site_passports[p] <= site_changes + 1
  /\ \A p \in DOMAIN site_loaded : site_loaded[p] \subseteq SiteAdvisories
  /\ site_todo \subseteq Site!Listed
  /\ site_pc # "idle" => ~site_whole

LEMMA RecordTypes ==
  ASSUME Site!CatalogBuildAssumption, SiteTypes, NEW p \in SitePackages,
         NEW as \in SUBSET SiteAdvisories
  PROVE  /\ Site!Evaluated(p, as) \in Site!Record
         /\ site_items[p] # 0 => Site!KeyOf(p, as) \in Site!Key
         /\ \A a : Site!Synthesized(p, as, a) \in Site!Record
<1>1. site_items[p] \in 0..(SiteMaxChanges + 1) /\ SiteMaxChanges \in Nat
  BY DEF SiteTypes, Site!TypeOK, Site!CatalogBuildAssumption
<1>2. Site!Named(p, as) \subseteq SiteAdvisories
      /\ Site!Matching(p, as) \subseteq SiteAdvisories
  BY DEF Site!Named, Site!Matching
<1>3. (p \in site_malicious) \in BOOLEAN
  OBVIOUS
<1>4. Site!Evaluated(p, as) \in Site!Record
  BY <1>1, <1>2, <1>3 DEF Site!Evaluated, Site!Record
<1>5. ASSUME site_items[p] # 0 PROVE Site!KeyOf(p, as) \in Site!Key
  <2>1. site_items[p] \in 1..(SiteMaxChanges + 1)
    BY <1>1, <1>5
  <2>2. Site!Named(p, as) \in SUBSET SiteAdvisories
    BY <1>2
  <2> QED
    BY <2>1, <2>2 DEF Site!KeyOf, Site!Key
<1>6. ASSUME NEW a PROVE Site!Synthesized(p, as, a) \in Site!Record
  <2>1. (a.eco = SiteEco[p] /\ p \in site_quarantine) \in BOOLEAN
    OBVIOUS
  <2>2. Site!Named(p, as) \in SUBSET SiteAdvisories
    BY <1>2
  <2>3. 0 \in 0..(SiteMaxChanges + 1)
    BY <1>1
  <2> QED
    BY <2>1, <2>2, <2>3 DEF Site!Synthesized, Site!Record
<1> QED
  BY <1>4, <1>5, <1>6

LEMMA SiteTypesInit == Site!CatalogBuildAssumption /\ Site!Init => SiteTypes
<1> SUFFICES ASSUME Site!CatalogBuildAssumption, Site!Init PROVE SiteTypes
  OBVIOUS
<1>1. SiteMaxChanges \in Nat /\ SiteMaxBuilds \in Nat
  BY DEF Site!CatalogBuildAssumption
<1>2. site_passports \in [SitePackages -> 0..(SiteMaxChanges + 1)]
      /\ site_items \in [SitePackages -> 0..(SiteMaxChanges + 1)]
  BY <1>1 DEF Site!Init
<1>3. DOMAIN Site!Empty = {} /\ DOMAIN site_loaded = {}
  BY DEF Site!Empty, Site!Init
<1>4. /\ DOMAIN site_disk = {} /\ DOMAIN site_index = {} /\ DOMAIN site_shards = {}
         /\ DOMAIN site_catalog = {}
      /\ {site_errors, site_warned, site_whole, site_steady} \subseteq BOOLEAN
      /\ site_torn = {} /\ site_todo = {}
  BY <1>3 DEF Site!Init
<1>5. /\ site_advs \subseteq SiteAdvisories /\ site_buried = {}
         /\ site_malicious = {} /\ site_flipped = {} /\ site_vulns = {}
      /\ site_pc = "idle" /\ site_quarantine = {} /\ site_changes = 0
         /\ site_builds = 0
  BY DEF Site!Init
<1>6. Site!TypeOK
  BY <1>1, <1>2, <1>3, <1>4, <1>5 DEF Site!TypeOK, Site!IsCatalog
<1> QED
  BY <1>1, <1>3, <1>6 DEF Site!Init, SiteTypes, Site!Listed

LEMMA ChangeTypes == Site!CatalogBuildAssumption /\ SiteTypes /\ Site!Change
  => SiteTypes'
<1> SUFFICES ASSUME Site!CatalogBuildAssumption, SiteTypes, Site!Change
    PROVE  SiteTypes'
  OBVIOUS
<1>1. /\ site_changes < SiteMaxChanges /\ site_changes' = site_changes + 1
         /\ site_steady' = FALSE
      /\ UNCHANGED <<site_disk, site_torn, site_vulns, site_index, site_shards,
           site_errors, site_items, site_quarantine, site_loaded, site_todo,
             site_catalog, site_warned,
                     site_pc, site_builds, site_whole>>
  BY DEF Site!Change, Site!cacheVars, Site!siteVars, Site!buildVars
<1>2. site_advs' \subseteq SiteAdvisories /\ site_buried' \subseteq SitePackages
      /\ site_malicious' \subseteq SitePackages
      /\ site_flipped' \subseteq SitePackages
  BY DEF Site!Change, SiteTypes, Site!TypeOK
<1>3. site_passports' \in [SitePackages -> 0..(SiteMaxChanges + 1)]
      /\ \A p \in SitePackages : site_passports'[p] <= site_changes' + 1
  <2>1. site_passports' = site_passports
        \/ \E p \in SitePackages :
             site_passports' = [site_passports EXCEPT ![p] = @ + 1]
    BY DEF Site!Change
  <2>2. site_changes \in Nat /\ SiteMaxChanges \in Nat
        /\ site_passports \in [SitePackages -> 0..(SiteMaxChanges + 1)]
        /\ \A p \in SitePackages : site_passports[p] <= site_changes + 1
    BY DEF SiteTypes, Site!TypeOK, Site!CatalogBuildAssumption
  <2> QED
    BY <1>1, <2>1, <2>2
<1>4. site_changes' \in 0..SiteMaxChanges
  BY <1>1 DEF SiteTypes, Site!TypeOK, Site!CatalogBuildAssumption
<1> QED
  BY <1>1, <1>2, <1>3, <1>4 DEF SiteTypes, Site!TypeOK, Site!IsCatalog,
     Site!Listed

LEMMA MayTearTypes ==
  ASSUME Site!CatalogBuildAssumption, SiteTypes, Site!MayTear
  PROVE  site_torn' \subseteq Site!Key \ DOMAIN site_disk
<1>1. ASSUME NEW p \in site_todo \cap DOMAIN site_loaded
      PROVE  Site!KeyOf(p, site_loaded[p]) \in Site!Key
  BY RecordTypes DEF SiteTypes, Site!TypeOK, Site!Listed
<1> QED
  BY <1>1 DEF Site!MayTear, SiteTypes, Site!TypeOK

LEMMA SiteTypesStep == Site!CatalogBuildAssumption /\ SiteTypes
  /\ [Site!Next]_(Site!vars) => SiteTypes'
<1> SUFFICES ASSUME Site!CatalogBuildAssumption, SiteTypes, [Site!Next]_(Site!vars)
    PROVE  SiteTypes'
  OBVIOUS
<1> USE DEF SiteTypes, Site!TypeOK, Site!IsCatalog
<1>1. CASE Site!Change
  BY <1>1, ChangeTypes
<1>2. CASE Site!Start
  <2>1. /\ site_builds' = site_builds + 1 /\ site_builds < SiteMaxBuilds
           /\ site_pc' = "pool" /\ site_vulns' = site_advs
           /\ site_quarantine' = site_malicious
        /\ site_items' = [p \in SitePackages |-> IF p \in site_buried THEN 0
             ELSE site_passports[p]]
        /\ site_todo' = {p \in SitePackages : site_items'[p] # 0}
        /\ site_loaded' = [p \in {} |-> {}] /\ site_catalog' = Site!Empty
           /\ site_warned' = FALSE
        /\ site_whole' = FALSE /\ site_steady' = TRUE
        /\ UNCHANGED <<site_advs, site_passports, site_buried, site_malicious,
             site_changes, site_flipped, site_disk, site_torn, site_index,
               site_shards, site_errors>>
    BY <1>2 DEF Site!Start, Site!inputVars, Site!cacheVars
  <2>2. site_items' \in [SitePackages -> 0..(SiteMaxChanges + 1)]
        /\ site_builds' \in 0..SiteMaxBuilds
    BY <2>1 DEF Site!CatalogBuildAssumption
  <2>3. DOMAIN Site!Empty = {}
    BY DEF Site!Empty
  <2> QED
    BY <2>1, <2>2, <2>3 DEF Site!Listed
<1>3. ASSUME NEW p \in SitePackages, Site!Load(p) PROVE SiteTypes'
  <2>1. /\ site_loaded' = [q \in DOMAIN site_loaded \cup Site!Chunk(p) |-> IF q
             \in Site!Chunk(p) THEN site_advs ELSE site_loaded[q]]
        /\ site_pc = "pool"
        /\ UNCHANGED <<site_advs, site_passports, site_buried, site_malicious,
             site_changes, site_flipped, site_disk, site_torn, site_vulns,
               site_index, site_shards, site_errors,
                       site_pc, site_items, site_quarantine, site_todo,
                         site_catalog, site_warned, site_builds, site_whole,
                           site_steady>>
    BY <1>3 DEF Site!Load, Site!inputVars, Site!cacheVars, Site!siteVars
  <2>2. Site!Chunk(p) \subseteq SitePackages
    BY DEF Site!Chunk, Site!Listed
  <2>3. DOMAIN site_loaded' \subseteq SitePackages
        /\ \A q \in DOMAIN site_loaded' : site_loaded'[q] \subseteq SiteAdvisories
    BY <2>1, <2>2
  <2> QED
    BY <2>1, <2>3 DEF Site!Listed
<1>4. ASSUME NEW p \in SitePackages, Site!Evaluate(p) PROVE SiteTypes'
  <2> DEFINE k == Site!KeyOf(p, site_loaded[p])
             r == IF k \in DOMAIN site_disk THEN site_disk[k]
               ELSE Site!Evaluated(p, site_loaded[p])
  <2>1. /\ site_pc = "pool" /\ p \in site_todo \cap DOMAIN site_loaded
           /\ site_todo' = site_todo \ {p}
        /\ site_disk' = Site!With(site_disk, k, r) /\ site_torn' = site_torn \ {k}
           /\ site_catalog' = Site!With(site_catalog, p, r)
        /\ UNCHANGED <<site_advs, site_passports, site_buried, site_malicious,
             site_changes, site_flipped, site_vulns, site_index, site_shards,
               site_errors,
                       site_pc, site_items, site_quarantine, site_loaded,
                         site_warned, site_builds, site_whole, site_steady>>
    BY <1>4 DEF Site!Evaluate, Site!inputVars, Site!siteVars
  <2>2. k \in Site!Key /\ r \in Site!Record
    BY <2>1, RecordTypes DEF Site!Listed
  <2> HIDE DEF k, r
  <2>3. DOMAIN site_disk' = DOMAIN site_disk \cup {k}
        /\ \A y \in DOMAIN site_disk' : site_disk'[y] \in Site!Record
    BY <2>1, <2>2 DEF Site!With
  <2>4. DOMAIN site_catalog' = DOMAIN site_catalog \cup {p}
        /\ \A y \in DOMAIN site_catalog' : site_catalog'[y] \in Site!Record
    BY <2>1, <2>2 DEF Site!With
  <2> QED
    BY <2>1, <2>2, <2>3, <2>4 DEF Site!Listed
<1>5. ASSUME NEW p \in SitePackages, Site!EvaluateFails(p) PROVE SiteTypes'
  BY <1>5 DEF Site!EvaluateFails, Site!inputVars, Site!cacheVars,
     Site!siteVars, Site!Listed
<1>6. CASE Site!ProcessDies
  <2>1. /\ site_todo' \subseteq site_todo
           /\ DOMAIN site_catalog' \subseteq DOMAIN site_catalog
        /\ \A q \in DOMAIN site_catalog' : site_catalog'[q] = site_catalog[q]
        /\ site_warned' = TRUE /\ Site!MayTear
        /\ UNCHANGED <<site_advs, site_passports, site_buried, site_malicious,
             site_changes, site_flipped, site_disk, site_vulns, site_index,
               site_shards, site_errors,
                       site_pc, site_items, site_quarantine, site_loaded,
                         site_builds, site_whole, site_steady>>
    BY <1>6 DEF Site!ProcessDies, Site!inputVars, Site!siteVars
  <2> QED
    BY <2>1, MayTearTypes DEF Site!Listed
<1>7. CASE Site!AddRest
  <2>1. /\ site_pc = "pool" /\ site_pc' = "index"
           /\ site_errors' = (site_errors \/ site_warned) /\ site_todo = {}
        /\ UNCHANGED <<site_advs, site_passports, site_buried, site_malicious,
             site_changes, site_flipped, site_disk, site_torn, site_vulns,
               site_index, site_shards,
                       site_items, site_quarantine, site_loaded, site_todo,
                         site_warned, site_builds, site_whole, site_steady>>
    BY <1>7 DEF Site!AddRest, Site!inputVars, Site!cacheVars
  <2>2. Site!IsCatalog(site_catalog')
    <3>1. {a.pkg : a \in site_advs} \subseteq SitePackages
      BY DEF Site!CatalogBuildAssumption
    <3>2. PICK first :
            site_catalog' = [p \in DOMAIN site_catalog
              \cup ({a.pkg : a \in site_advs} \ Site!Listed) |->
                          IF p \in ({a.pkg : a \in site_advs} \ Site!Listed)
                            THEN Site!Synthesized(p, site_advs, first[p])
                              ELSE site_catalog[p]]
      BY <1>7 DEF Site!AddRest
    <3> QED
      BY <3>1, <3>2, RecordTypes
  <2>3. site_errors' \in BOOLEAN
    BY <2>1, Zenon
  <2> QED
    BY <2>1, <2>2, <2>3 DEF Site!Listed
<1>8. CASE Site!WriteIndex
  BY <1>8 DEF Site!WriteIndex, Site!inputVars, Site!cacheVars, Site!buildVars,
     Site!Listed
<1>9. CASE Site!WriteShards
  BY <1>9 DEF Site!WriteShards, Site!inputVars, Site!cacheVars, Site!buildVars,
     Site!Listed
<1>10. CASE Site!Die
  <2>1. /\ site_pc # "idle" /\ site_pc' = "idle" /\ site_todo' = {}
        /\ \/ Site!MayTear
           \/ site_torn' = site_torn
        /\ UNCHANGED <<site_advs, site_passports, site_buried, site_malicious,
             site_changes, site_flipped, site_disk, site_vulns, site_index,
               site_errors, site_items,
                       site_quarantine, site_loaded, site_catalog, site_warned,
                         site_builds, site_whole, site_steady>>
    BY <1>10 DEF Site!Die, Site!inputVars
  <2>2. PICK written \in SUBSET SitePackages :
          site_shards' = [p \in (DOMAIN site_shards \ written)
            \cup (DOMAIN site_catalog \cap written) |->
                       IF p \in written THEN site_catalog[p] ELSE site_shards[p]]
    BY <1>10 DEF Site!Die
  <2>3. Site!IsCatalog(site_shards')
    BY <2>2
  <2> QED
    BY <2>1, <2>3, MayTearTypes DEF Site!Listed
<1>11. CASE UNCHANGED Site!vars
  BY <1>11 DEF Site!vars, Site!inputVars, Site!cacheVars, Site!siteVars,
     Site!buildVars, Site!Listed
<1> QED
  BY <1>1, <1>2, <1>3, <1>4, <1>5, <1>6, <1>7, <1>8, <1>9, <1>10, <1>11 DEF
     Site!Next

-----------------------------------------------------------------------------

\* A record of the cache is what its key says, but for the mark.
CacheRight ==
  \A k \in DOMAIN site_disk :
    /\ site_disk[k].rev = k.rev
       /\ site_disk[k].advs = {a \in k.advs : a.eco \in {"", SiteEco[k.pkg]}}
    /\ site_disk[k].marked # (k.pkg \in site_malicious) => k.pkg \in site_flipped

\* Nothing changed since the build read it.
Fresh ==
  site_steady /\ (site_pc # "idle" \/ site_whole) =>
    /\ site_vulns = site_advs
    /\ \A p \in SitePackages : site_items[p] = IF p \in site_buried THEN 0
         ELSE site_passports[p]
    /\ \A p \in DOMAIN site_loaded : site_loaded[p] = site_advs

Right(p, r) ==
  r.rev = site_items[p] /\ r.advs = Site!Matching(p, site_advs)
  /\ (r.marked # (p \in site_malicious) => p \in site_flipped)

\* A package of the pool is still to do, or has its record, or something failed.
PoolRight ==
  site_pc = "pool" =>
    /\ \A p \in Site!Listed : p \in site_todo \/ p \in DOMAIN site_catalog
       \/ site_warned
    /\ DOMAIN site_catalog \subseteq Site!Listed
    /\ site_steady => \A p \in DOMAIN site_catalog : Right(p, site_catalog[p])

Complete(cat) ==
  /\ DOMAIN cat \subseteq Site!Listed \cup {a.pkg : a \in site_advs}
  /\ \A p \in Site!Listed : IF p \in DOMAIN cat THEN Right(p, cat[p])
       ELSE site_errors
  /\ \A p \in SitePackages \ Site!Listed : Site!Named(p, site_advs) # {}
       => p \in DOMAIN cat /\ cat[p].advs = Site!Named(p, site_advs)

WritesRight ==
  /\ site_pc \in {"index", "shards"} /\ site_steady => Complete(site_catalog)
  /\ site_pc = "shards" => site_index = site_catalog
  /\ site_pc = "idle" /\ site_whole => site_index = site_shards
     /\ (site_steady => Complete(site_index))

SiteInv == SiteTypes /\ CacheRight /\ Fresh /\ PoolRight /\ WritesRight

LEMMA CacheStep ==
  Site!CatalogBuildAssumption /\ SiteTypes /\ CacheRight /\ [Site!Next]_(Site!vars)
    => CacheRight'
<1> SUFFICES ASSUME Site!CatalogBuildAssumption, SiteTypes, CacheRight,
                    [Site!Next]_(Site!vars), NEW k \in DOMAIN site_disk'
             PROVE  (/\ site_disk[k].rev = k.rev /\ site_disk[k].advs
                          = {a \in k.advs : a.eco \in {"", SiteEco[k.pkg]}}
                     /\ site_disk[k].marked # (k.pkg \in site_malicious)
                          => k.pkg \in site_flipped)'
  BY DEF CacheRight
<1>1. CASE Site!Change
  <2>1. site_disk' = site_disk /\ k.pkg \in SitePackages
    BY <1>1 DEF Site!Change, Site!cacheVars, SiteTypes, Site!TypeOK, Site!Key
  <2>2. /\ site_flipped \subseteq site_flipped'
        /\ \A p \in SitePackages : p \in site_flipped'
           \/ (p \in site_malicious' <=> p \in site_malicious)
    BY <1>1 DEF Site!Change
  <2>3. CASE k.pkg \in site_flipped'
    BY <2>1, <2>3 DEF CacheRight
  <2>4. CASE k.pkg \notin site_flipped'
    <3>1. (k.pkg \in site_malicious') = (k.pkg \in site_malicious)
          /\ k.pkg \notin site_flipped
      BY <2>1, <2>2, <2>4
    <3> QED
      BY <2>1, <3>1 DEF CacheRight
  <2> QED
    BY <2>3, <2>4
<1>2. ASSUME NEW p \in SitePackages, Site!Evaluate(p)
      PROVE  (/\ site_disk[k].rev = k.rev /\ site_disk[k].advs
                   = {a \in k.advs : a.eco \in {"", SiteEco[k.pkg]}}
              /\ site_disk[k].marked # (k.pkg \in site_malicious)
                   => k.pkg \in site_flipped)'
  <2> DEFINE x == Site!KeyOf(p, site_loaded[p])
             r == IF x \in DOMAIN site_disk THEN site_disk[x]
               ELSE Site!Evaluated(p, site_loaded[p])
  <2>1. site_disk' = Site!With(site_disk, x, r)
        /\ UNCHANGED <<site_malicious, site_flipped>>
    BY <1>2 DEF Site!Evaluate, Site!inputVars
  <2>2. /\ x.rev = site_items[p] /\ x.pkg = p
        /\ {a \in x.advs : a.eco \in {"", SiteEco[p]}}
             = Site!Matching(p, site_loaded[p])
    BY DEF Site!KeyOf, Site!Matching
  <2>3. /\ r.rev = x.rev /\ r.advs = {a \in x.advs : a.eco \in {"", SiteEco[x.pkg]}}
        /\ r.marked # (x.pkg \in site_malicious) => x.pkg \in site_flipped
    <3>1. CASE x \in DOMAIN site_disk
      BY <3>1 DEF CacheRight
    <3>2. CASE x \notin DOMAIN site_disk
      <4>1. r = Site!Evaluated(p, site_loaded[p])
        BY <3>2
      <4>2. r.rev = site_items[p] /\ r.advs = Site!Matching(p, site_loaded[p])
            /\ r.marked = (p \in site_malicious)
        BY <4>1 DEF Site!Evaluated
      <4> QED
        BY <2>2, <4>2
    <3> QED
      BY <3>1, <3>2
  <2> HIDE DEF x, r
  <2>4. k \in DOMAIN site_disk \cup {x} /\ site_disk'[k] = IF k = x THEN r
          ELSE site_disk[k]
    BY <2>1 DEF Site!With
  <2> QED
    BY <2>1, <2>3, <2>4 DEF CacheRight
<1>3. CASE UNCHANGED <<site_disk, site_malicious, site_flipped>>
  BY <1>3 DEF CacheRight
<1>4. Site!Change \/ (\E p \in SitePackages : Site!Evaluate(p))
      \/ UNCHANGED <<site_disk, site_malicious, site_flipped>>
  BY DEF Site!Next, Site!Start, Site!Load, Site!EvaluateFails,
     Site!ProcessDies, Site!AddRest, Site!WriteIndex, Site!WriteShards,
     Site!Die, Site!vars, Site!inputVars, Site!cacheVars
<1> QED
  BY <1>1, <1>2, <1>3, <1>4

LEMMA FreshStep == SiteTypes /\ Fresh /\ [Site!Next]_(Site!vars) => Fresh'
<1> SUFFICES ASSUME SiteTypes, Fresh, [Site!Next]_(Site!vars) PROVE Fresh'
  OBVIOUS
<1>1. CASE Site!Change
  BY <1>1 DEF Site!Change, Fresh
<1>2. CASE Site!Start
  BY <1>2 DEF Site!Start, Fresh, Site!inputVars
<1>3. ASSUME NEW p \in SitePackages, Site!Load(p) PROVE Fresh'
  BY <1>3 DEF Site!Load, Fresh, Site!inputVars, Site!siteVars
<1>4. CASE Site!Die
  BY <1>4 DEF Site!Die, Fresh, SiteTypes
<1>5. CASE UNCHANGED <<site_steady, site_vulns, site_advs, site_items,
        site_buried, site_passports, site_loaded>> /\ site_pc # "idle"
  BY <1>5 DEF Fresh
<1>6. CASE UNCHANGED Site!vars
  BY <1>6 DEF Fresh, Site!vars, Site!inputVars, Site!siteVars, Site!buildVars
<1>7. \/ Site!Change \/ Site!Start \/ (\E p \in SitePackages : Site!Load(p))
         \/ Site!Die \/ UNCHANGED Site!vars
      \/ UNCHANGED <<site_steady, site_vulns, site_advs, site_items, site_buried,
           site_passports, site_loaded>> /\ site_pc # "idle"
  BY DEF Site!Next, Site!Evaluate, Site!EvaluateFails, Site!ProcessDies,
     Site!AddRest, Site!WriteIndex, Site!WriteShards, Site!inputVars,
     Site!siteVars, Site!buildVars
<1> QED
  BY <1>1, <1>2, <1>3, <1>4, <1>5, <1>6, <1>7

LEMMA PoolStep == SiteTypes /\ CacheRight /\ Fresh /\ PoolRight
  /\ [Site!Next]_(Site!vars) => PoolRight'
<1> SUFFICES ASSUME SiteTypes, CacheRight, Fresh, PoolRight, [Site!Next]_(Site!vars)
    PROVE  PoolRight'
  OBVIOUS
<1>1. CASE Site!Change
  BY <1>1 DEF Site!Change, PoolRight, Site!buildVars, Site!Listed
<1>2. CASE Site!Start
  BY <1>2 DEF Site!Start, PoolRight, Site!Listed, Site!Empty
<1>3. ASSUME NEW p \in SitePackages, Site!Load(p) PROVE PoolRight'
  BY <1>3 DEF Site!Load, PoolRight, Site!Listed, Right, Site!Matching,
     Site!Named, Site!inputVars
<1>4. ASSUME NEW p \in SitePackages, Site!Evaluate(p) PROVE PoolRight'
  <2> DEFINE x == Site!KeyOf(p, site_loaded[p])
             r == IF x \in DOMAIN site_disk THEN site_disk[x]
               ELSE Site!Evaluated(p, site_loaded[p])
  <2>1. /\ site_pc = "pool" /\ p \in site_todo \cap DOMAIN site_loaded
           /\ site_todo' = site_todo \ {p}
           /\ site_catalog' = Site!With(site_catalog, p, r)
        /\ UNCHANGED <<site_advs, site_malicious, site_flipped, site_pc,
             site_items, site_warned, site_steady>>
    BY <1>4 DEF Site!Evaluate, Site!inputVars
  <2>2. /\ x.rev = site_items[p] /\ x.pkg = p
        /\ {a \in x.advs : a.eco \in {"", SiteEco[p]}}
             = Site!Matching(p, site_loaded[p])
    BY DEF Site!KeyOf, Site!Matching
  <2>3. /\ r.rev = site_items[p] /\ r.advs = Site!Matching(p, site_loaded[p])
        /\ r.marked # (p \in site_malicious) => p \in site_flipped
    <3>1. CASE x \in DOMAIN site_disk
      BY <2>2, <3>1 DEF CacheRight
    <3>2. CASE x \notin DOMAIN site_disk
      <4>1. r = Site!Evaluated(p, site_loaded[p])
        BY <3>2
      <4> QED
        BY <4>1 DEF Site!Evaluated
    <3> QED
      BY <3>1, <3>2
  <2>4. site_steady => Right(p, r)
    BY <2>1, <2>3 DEF Fresh, Right
  <2> HIDE DEF x, r
  <2>5. /\ DOMAIN site_catalog' = DOMAIN site_catalog \cup {p}
        /\ \A q \in DOMAIN site_catalog' : site_catalog'[q] = IF q = p THEN r
             ELSE site_catalog[q]
    BY <2>1 DEF Site!With
  <2>6. Site!Listed' = Site!Listed /\ p \in Site!Listed
    BY <2>1 DEF Site!Listed, SiteTypes
  <2>7. \A q, y : Right(q, y)' <=> Right(q, y)
    BY <2>1 DEF Right, Site!Matching, Site!Named
  <2> QED
    BY <2>1, <2>4, <2>5, <2>6, <2>7 DEF PoolRight
<1>5. ASSUME NEW p \in SitePackages, Site!EvaluateFails(p) PROVE PoolRight'
  BY <1>5 DEF Site!EvaluateFails, PoolRight, Site!Listed, Right, Site!Matching,
     Site!Named, Site!inputVars
<1>6. CASE Site!ProcessDies
  <2>1. /\ site_todo' \subseteq site_todo
           /\ DOMAIN site_catalog' \subseteq DOMAIN site_catalog
        /\ \A q \in DOMAIN site_catalog' : site_catalog'[q] = site_catalog[q]
        /\ site_warned' = TRUE /\ UNCHANGED <<site_advs, site_malicious,
             site_flipped, site_pc, site_items, site_steady>>
    BY <1>6 DEF Site!ProcessDies, Site!inputVars
  <2>2. Site!Listed' = Site!Listed /\ \A q, y : Right(q, y)' <=> Right(q, y)
    BY <2>1 DEF Site!Listed, Right, Site!Matching, Site!Named
  <2> QED
    BY <2>1, <2>2 DEF PoolRight
<1>7. CASE Site!AddRest \/ Site!WriteIndex \/ Site!WriteShards \/ Site!Die
  BY <1>7 DEF Site!AddRest, Site!WriteIndex, Site!WriteShards, Site!Die,
     PoolRight
<1>8. CASE UNCHANGED Site!vars
  BY <1>8 DEF Site!vars, PoolRight, Site!Listed, Right, Site!Matching,
     Site!Named, Site!inputVars, Site!buildVars
<1> QED
  BY <1>1, <1>2, <1>3, <1>4, <1>5, <1>6, <1>7, <1>8 DEF Site!Next

LEMMA WritesStep ==
  Site!CatalogBuildAssumption /\ SiteTypes /\ PoolRight /\ WritesRight
  /\ [Site!Next]_(Site!vars) => WritesRight'
<1> SUFFICES ASSUME Site!CatalogBuildAssumption, SiteTypes, PoolRight,
                    WritesRight, [Site!Next]_(Site!vars)
    PROVE  WritesRight'
  OBVIOUS
<1>1. CASE Site!Change
  BY <1>1 DEF Site!Change, WritesRight, Site!siteVars, Site!buildVars
<1>2. CASE Site!Start
  BY <1>2 DEF Site!Start, WritesRight
<1>3. CASE \E p \in SitePackages : Site!Load(p) \/ Site!Evaluate(p)
      \/ Site!EvaluateFails(p)
  BY <1>3 DEF Site!Load, Site!Evaluate, Site!EvaluateFails, WritesRight
<1>4. CASE Site!ProcessDies
  BY <1>4 DEF Site!ProcessDies, WritesRight
<1>5. CASE Site!AddRest
  <2>1. /\ site_pc = "pool" /\ site_pc' = "index"
           /\ site_errors' = (site_errors \/ site_warned) /\ site_todo = {}
        /\ UNCHANGED <<site_advs, site_malicious, site_flipped, site_items,
             site_steady>>
    BY <1>5 DEF Site!AddRest, Site!inputVars
  <2>2. PICK first \in [{a.pkg : a \in site_advs} \ Site!Listed -> site_advs] :
          site_catalog' = [p \in DOMAIN site_catalog
            \cup ({a.pkg : a \in site_advs} \ Site!Listed) |->
                        IF p \in ({a.pkg : a \in site_advs} \ Site!Listed)
                          THEN Site!Synthesized(p, site_advs, first[p])
                            ELSE site_catalog[p]]
    BY <1>5 DEF Site!AddRest
  <2>3. /\ Site!Listed' = Site!Listed /\ \A q, y : Right(q, y)' <=> Right(q, y)
        /\ \A q : Site!Named(q, site_advs)' = Site!Named(q, site_advs)
    BY <2>1 DEF Site!Listed, Right, Site!Matching, Site!Named
  <2>4. site_steady => Complete(site_catalog)'
    <3> SUFFICES ASSUME site_steady PROVE Complete(site_catalog)'
      OBVIOUS
    <3>1. DOMAIN site_catalog' \subseteq Site!Listed'
            \cup {a.pkg : a \in site_advs'}
      BY <2>1, <2>2, <2>3 DEF PoolRight
    <3>2. ASSUME NEW p \in Site!Listed
          PROVE  IF p \in DOMAIN site_catalog' THEN Right(p, site_catalog'[p])
                   ELSE site_errors'
      <4>1. p \in DOMAIN site_catalog => site_catalog'[p] = site_catalog[p]
            /\ Right(p, site_catalog[p]) /\ p \in DOMAIN site_catalog'
        BY <2>1, <2>2 DEF PoolRight
      <4>2. p \notin DOMAIN site_catalog => site_errors'
        BY <2>1 DEF PoolRight
      <4> QED
        BY <2>2, <4>1, <4>2
    <3>3. ASSUME NEW p \in SitePackages \ Site!Listed, Site!Named(p, site_advs) # {}
          PROVE  p \in DOMAIN site_catalog'
                 /\ site_catalog'[p].advs = Site!Named(p, site_advs)
      <4>1. p \in {a.pkg : a \in site_advs} \ Site!Listed
        BY <3>3 DEF Site!Named
      <4>2. p \in DOMAIN site_catalog'
            /\ site_catalog'[p] = Site!Synthesized(p, site_advs, first[p])
        BY <2>2, <4>1
      <4> QED
        BY <4>2 DEF Site!Synthesized
    <3> QED
      BY <2>3, <3>1, <3>2, <3>3 DEF Complete
  <2> QED
    BY <2>1, <2>4 DEF WritesRight
<1>6. CASE Site!WriteIndex
  <2>1. /\ site_pc = "index" /\ site_pc' = "shards" /\ site_index' = site_catalog
        /\ UNCHANGED <<site_advs, site_malicious, site_flipped, site_items,
             site_steady, site_catalog, site_errors>>
    BY <1>6 DEF Site!WriteIndex, Site!inputVars, Site!buildVars
  <2>2. Complete(site_catalog)' <=> Complete(site_catalog)
    BY <2>1 DEF Complete, Site!Listed, Right, Site!Matching, Site!Named
  <2> QED
    BY <2>1, <2>2 DEF WritesRight
<1>7. CASE Site!WriteShards
  <2>1. /\ site_pc = "shards" /\ site_pc' = "idle" /\ site_shards' = site_catalog
           /\ site_index' = site_index
        /\ UNCHANGED <<site_advs, site_malicious, site_flipped, site_items,
             site_steady, site_errors>>
    BY <1>7 DEF Site!WriteShards, Site!inputVars, Site!buildVars
  <2>2. Complete(site_index)' <=> Complete(site_index)
    BY <2>1 DEF Complete, Site!Listed, Right, Site!Matching, Site!Named
  <2> QED
    BY <2>1, <2>2 DEF WritesRight
<1>8. CASE Site!Die
  BY <1>8 DEF Site!Die, WritesRight, SiteTypes
<1>9. CASE UNCHANGED Site!vars
  <2>1. UNCHANGED <<site_advs, site_malicious, site_flipped, site_items,
          site_steady, site_errors, site_index, site_shards, site_catalog,
            site_pc, site_whole>>
    BY <1>9 DEF Site!vars, Site!inputVars, Site!siteVars, Site!buildVars
  <2>2. (Complete(site_index)' <=> Complete(site_index))
        /\ (Complete(site_catalog)' <=> Complete(site_catalog))
    BY <2>1 DEF Complete, Site!Listed, Right, Site!Matching, Site!Named
  <2> QED
    BY <2>1, <2>2 DEF WritesRight
<1> QED
  BY <1>1, <1>2, <1>3, <1>4, <1>5, <1>6, <1>7, <1>8, <1>9 DEF Site!Next

LEMMA SiteInit == Site!CatalogBuildAssumption /\ Site!Init => SiteInv
<1> SUFFICES ASSUME Site!CatalogBuildAssumption, Site!Init PROVE SiteInv
  OBVIOUS
<1>1. SiteTypes
  BY SiteTypesInit
<1>2. DOMAIN site_disk = {}
  BY DEF Site!Init, Site!Empty
<1> QED
  BY <1>1, <1>2 DEF Site!Init, SiteInv, CacheRight, Fresh, PoolRight,
     WritesRight

LEMMA SiteIsCurrent == Site!CatalogBuildAssumption /\ SiteInv => Site!SiteCurrent
<1> SUFFICES ASSUME Site!CatalogBuildAssumption, SiteInv, site_pc = "idle",
                    site_whole
    PROVE  Site!SiteCurrent
  BY DEF Site!SiteCurrent
<1>1. site_index = site_shards
      /\ (site_steady => Complete(site_index) /\ site_vulns = site_advs)
  BY DEF SiteInv, WritesRight, Fresh
<1>2. site_steady => \A p \in Site!Listed : site_items[p] = site_passports[p]
  BY DEF SiteInv, Fresh, Site!Listed
<1>3. Site!Listed \subseteq SitePackages
  BY DEF Site!Listed
<1> QED
  BY <1>1, <1>2, <1>3 DEF Site!SiteCurrent, Complete, Right

\* The invariant holds of every behaviour of the part.
LEMMA SiteInductive == Site!CatalogBuildAssumption
  => (Site!Spec => []SiteInv)
<1> SUFFICES ASSUME Site!CatalogBuildAssumption
    PROVE  Site!Spec => []SiteInv
  OBVIOUS
<1>1. Site!Init => SiteInv
  BY SiteInit
<1>2. SiteInv /\ [Site!Next]_(Site!vars) => SiteInv'
  BY SiteTypesStep, CacheStep, FreshStep, PoolStep, WritesStep DEF SiteInv
<1> QED
  BY <1>1, <1>2, PTL DEF Site!Spec

\* A site that was built to its end is the current catalogue.
THEOREM SiteSafe == Site!CatalogBuildAssumption /\ Site!Spec => []Site!SiteCurrent
<1> SUFFICES ASSUME Site!CatalogBuildAssumption
    PROVE  Site!Spec => []Site!SiteCurrent
  OBVIOUS
<1>1. SiteInv => Site!SiteCurrent
  BY SiteIsCurrent
<1> QED
  BY <1>1, SiteInductive, PTL

-----------------------------------------------------------------------------
(* The snapshot, the feeds and the archives.                               *)

\* What an export makes goes with its step, and past the reading nothing is left
\* to read.
Stages ==
  /\ pub_pc \notin {"idle", "read"} => pub_todo = {}
  /\ pub_pc = "manifest" => pub_kind = "bucket"
  /\ pub_pc \in {"atom", "json"} => pub_kind = "snapshot"
  /\ pub_pc \in {"tar", "sum", "tidy"} => pub_kind \in Pub!Bundle

\* What was read is of some moment since the export began.
ReadRight ==
  pub_pc # "idle" =>
    \A i \in PubIds :
      /\ pub_got.base[i] <= pub_file[i]
      /\ pub_got.holds[i] = 0 \/ pub_got.holds[i] \in pub_got.base[i]..pub_file[i]
      /\ pub_got.holds[i] = 0 =>
           \/ pub_got.base[i] = 0 \/ i \in pub_got.gaps \/ i \in pub_todo
           \/ pub_kind = "bucket" /\ i \notin PubValid
      /\ pub_kind = "bucket" /\ i \notin PubValid => pub_got.holds[i] = 0

\* The snapshot there is, is not newer than the directory the export began with.
SnapBehind ==
  pub_pc = "read" /\ pub_snap.there = "whole"
    => \A i \in PubIds : pub_snap.of.holds[i] <= pub_got.base[i]

SnapWithin ==
  pub_snap.there = "whole" => \A i \in PubIds : pub_snap.of.holds[i] <= pub_file[i]

\* On its way an export has what its checksum and its feeds will name.
SumsComing ==
  /\ "bucket" \notin pub_died /\ pub_pc = "manifest" => pub_zip.there = "whole"
  /\ Pub!Bundle \cap pub_died = {} /\ pub_pc \in {"sum", "tidy"}
       => pub_tar.there = "whole"
  /\ Pub!Bundle \cap pub_died = {} /\ pub_pc = "tidy" => pub_sum = pub_tar

FeedsComing ==
  pub_died \cap {"snapshot", "beside"} = {} =>
    /\ pub_pc \in {"atom", "json"} => pub_snap = Pub!Whole(pub_got)
    /\ pub_pc = "json" => pub_atom = Pub!FeedOf(pub_got)

\* A version counts writes.
PubTypes == Pub!TypeOK /\ Stages /\ \A i \in PubIds : pub_file[i] <= pub_changes + 1
PubInv ==
  /\ PubTypes /\ ReadRight /\ SnapBehind /\ SnapWithin
  /\ Pub!CopiesFaithful /\ SumsComing /\ Pub!ChecksumsName /\ FeedsComing
     /\ Pub!FeedsFollow

LEMMA CopyTypes ==
  ASSUME Pub!PublicationAssumption
  PROVE  /\ Pub!Nothing \in Pub!Held /\ Pub!NoCopy \in Pub!Copy
            /\ Pub!TornCopy \in Pub!Copy
         /\ \A c \in Pub!Contents : Pub!Whole(c) \in Pub!Copy
            /\ Pub!FeedOf(c) \in Pub!Copy
         /\ \A c \in Pub!Copy : c.of \in Pub!Contents
         /\ \A c : Pub!Whole(c).there = "whole" /\ Pub!Whole(c).of = c
         /\ Pub!NoCopy.there = "none" /\ Pub!TornCopy.there = "torn"
         /\ Pub!NoCopy.of.holds = Pub!Nothing /\ Pub!TornCopy.of.holds = Pub!Nothing
         /\ Pub!NoCopy.of \in Pub!Contents
<1>1. Pub!Nothing \in Pub!Held
  BY DEF Pub!PublicationAssumption, Pub!Nothing, Pub!Held
<1>2. Pub!NoCopy \in Pub!Copy /\ Pub!TornCopy \in Pub!Copy
  BY <1>1 DEF Pub!NoCopy, Pub!TornCopy, Pub!Copy, Pub!Contents
<1>3. ASSUME NEW c \in Pub!Contents PROVE Pub!Whole(c) \in Pub!Copy
  BY DEF Pub!Whole, Pub!Copy
<1>4. ASSUME NEW c \in Pub!Contents PROVE Pub!FeedOf(c) \in Pub!Copy
  <2>1. Pub!Newest(c.holds) \in Pub!Held
    BY DEF Pub!Newest, Pub!Held, Pub!Contents, Pub!PublicationAssumption
  <2>2. [c EXCEPT !.holds = Pub!Newest(@)] \in Pub!Contents
    BY <2>1 DEF Pub!Contents
  <2> QED
    BY <2>2, <1>3 DEF Pub!FeedOf
<1>5. Pub!NoCopy.of \in Pub!Contents
  BY <1>1 DEF Pub!NoCopy, Pub!Contents
<1> QED
  BY <1>1, <1>2, <1>3, <1>4, <1>5 DEF Pub!Whole, Pub!NoCopy, Pub!TornCopy,
     Pub!Copy

LEMMA PubInit == Pub!PublicationAssumption /\ Pub!Init => PubInv
<1> SUFFICES ASSUME Pub!PublicationAssumption, Pub!Init PROVE PubInv
  OBVIOUS
<1>1. pub_file \in Pub!Held
  BY DEF Pub!Init, Pub!Held, Pub!PublicationAssumption
<1>2. Pub!TypeOK
  BY <1>1, CopyTypes DEF Pub!Init, Pub!TypeOK, Pub!Kinds,
     Pub!PublicationAssumption
<1>3. Pub!Nothing = [i \in PubIds |-> 0]
  BY DEF Pub!Nothing
<1>4. Pub!CopiesFaithful
  BY <1>3, CopyTypes DEF Pub!Init, Pub!CopiesFaithful, Pub!Faithful,
     Pub!PublicationAssumption
<1>5. Pub!ChecksumsName /\ Pub!FeedsFollow /\ SumsComing /\ FeedsComing
  BY DEF Pub!Init, Pub!ChecksumsName, Pub!FeedsFollow, SumsComing, FeedsComing,
     Pub!Bundle
<1> QED
  BY <1>2, <1>4, <1>5, CopyTypes DEF Pub!Init, PubInv, PubTypes, Stages,
     ReadRight, SnapBehind, SnapWithin

LEMMA PubTypesStep == Pub!PublicationAssumption /\ PubTypes
  /\ [Pub!Next]_(Pub!vars) => PubTypes'
<1> SUFFICES ASSUME Pub!PublicationAssumption, PubTypes, [Pub!Next]_(Pub!vars)
    PROVE  PubTypes'
  OBVIOUS
<1> USE DEF PubTypes, Pub!TypeOK, Stages, Pub!Kinds, Pub!Bundle
<1>0. PubMaxChanges \in Nat /\ PubMaxRuns \in Nat
  BY DEF Pub!PublicationAssumption
<1>1. ASSUME NEW i \in PubIds, Pub!Write(i) PROVE PubTypes'
  <2>1. /\ pub_changes < PubMaxChanges /\ pub_changes' = pub_changes + 1
           /\ pub_torn' = pub_torn \cup {i}
        /\ pub_file' = [pub_file EXCEPT ![i] = @ + 1]
        /\ UNCHANGED <<pub_snap, pub_atom, pub_json, pub_zip, pub_manifest,
             pub_tar, pub_sum, pub_pc, pub_kind, pub_todo, pub_got, pub_runs,
               pub_ended, pub_died>>
    BY <1>1 DEF Pub!Write, Pub!copyVars
  <2>2. \A j \in PubIds : pub_file'[j] \in 0..(pub_changes' + 1)
        /\ pub_file'[j] \in 0..(PubMaxChanges + 1)
    BY <1>0, <2>1 DEF Pub!Held
  <2>3. pub_file' \in Pub!Held
    BY <2>1, <2>2 DEF Pub!Held
  <2> QED
    BY <1>0, <2>1, <2>2, <2>3
<1>2. ASSUME NEW i \in PubIds, Pub!Written(i) PROVE PubTypes'
  BY <1>2 DEF Pub!Written, Pub!copyVars
<1>3. ASSUME NEW i \in PubIds, Pub!Read(i) PROVE PubTypes'
  <2>1. /\ pub_pc = "read" /\ pub_todo' = pub_todo \ {i}
        /\ UNCHANGED <<pub_file, pub_torn, pub_changes, pub_snap, pub_atom,
             pub_json, pub_zip, pub_manifest, pub_tar, pub_sum, pub_pc, pub_kind,
               pub_runs, pub_ended, pub_died>>
    BY <1>3 DEF Pub!Read, Pub!Keep, Pub!dirVars, Pub!copyVars
  <2>2. pub_got' \in {[pub_got EXCEPT !.gaps = @ \cup {i}], pub_got,
          [pub_got EXCEPT !.holds[i] = pub_file[i]]}
    BY <1>3 DEF Pub!Read
  <2>3. pub_got' \in Pub!Contents
    BY <2>2 DEF Pub!Contents, Pub!Held
  <2> QED
    BY <2>1, <2>3
<1>4. ASSUME NEW k \in Pub!Kinds, Pub!Start(k) PROVE PubTypes'
  <2>1. [holds |-> Pub!Nothing, base |-> pub_file, gaps |-> {}] \in Pub!Contents
    BY CopyTypes DEF Pub!Contents
  <2> QED
    BY <1>0, <1>4, <2>1, CopyTypes DEF Pub!Start, Pub!dirVars
<1>5. CASE Pub!WriteZip
  BY <1>5, CopyTypes DEF Pub!WriteZip, Pub!Keep, Pub!dirVars
<1>6. CASE Pub!WriteManifest
  BY <1>6, CopyTypes DEF Pub!WriteManifest, Pub!Keep, Pub!dirVars, Pub!Finish
<1>7. CASE Pub!WriteSnapshot
  BY <1>7, CopyTypes DEF Pub!WriteSnapshot, Pub!Keep, Pub!dirVars, Pub!Finish
<1>8. CASE Pub!WriteAtom
  BY <1>8, CopyTypes DEF Pub!WriteAtom, Pub!Keep, Pub!dirVars
<1>9. CASE Pub!WriteJson
  BY <1>9, CopyTypes DEF Pub!WriteJson, Pub!Keep, Pub!dirVars, Pub!Finish
<1>10. CASE Pub!WriteTar
  BY <1>10, CopyTypes DEF Pub!WriteTar, Pub!Keep, Pub!dirVars
<1>11. CASE Pub!WriteSum
  BY <1>11, CopyTypes DEF Pub!WriteSum, Pub!Keep, Pub!dirVars
<1>12. CASE Pub!Tidy
  BY <1>12, CopyTypes DEF Pub!Tidy, Pub!Keep, Pub!dirVars, Pub!Finish
<1>13. CASE Pub!Die
  BY <1>13, CopyTypes DEF Pub!Die, Pub!dirVars
<1>14. CASE UNCHANGED Pub!vars
  BY <1>14 DEF Pub!vars, Pub!dirVars, Pub!copyVars
<1> QED
  BY <1>1, <1>2, <1>3, <1>4, <1>5, <1>6, <1>7, <1>8, <1>9, <1>10, <1>11, <1>12,
     <1>13, <1>14 DEF Pub!Next

Readings == PubTypes /\ ReadRight /\ SnapBehind /\ SnapWithin /\ Pub!CopiesFaithful

\* An advisory only gets newer.
LEMMA FileGrows ==
  ASSUME Pub!PublicationAssumption, PubTypes, [Pub!Next]_(Pub!vars),
         NEW i \in PubIds
  PROVE  pub_file[i] \in Nat /\ pub_file'[i] \in Nat /\ pub_file[i] <= pub_file'[i]
<1>1. pub_file[i] \in Nat
  BY DEF PubTypes, Pub!TypeOK, Pub!Held
<1>2. CASE \E j \in PubIds : Pub!Write(j)
  BY <1>1, <1>2 DEF Pub!Write, PubTypes, Pub!TypeOK, Pub!Held
<1>3. CASE ~\E j \in PubIds : Pub!Write(j)
  BY <1>1, <1>3 DEF Pub!Next, Pub!Written, Pub!Read, Pub!Start, Pub!WriteZip,
     Pub!WriteManifest, Pub!WriteSnapshot, Pub!WriteAtom, Pub!WriteJson,
     Pub!WriteTar, Pub!WriteSum, Pub!Tidy, Pub!Die, Pub!Keep, Pub!dirVars,
     Pub!vars
<1> QED
  BY <1>2, <1>3

\* A copy stays faithful while the directory gets newer.
LEMMA StaysFaithful ==
  ASSUME Pub!PublicationAssumption, PubTypes, [Pub!Next]_(Pub!vars),
         NEW c \in Pub!Copy, NEW among \in SUBSET PubIds,
         Pub!Faithful(c, among)
  PROVE  c.there = "whole" =>
           \A i \in among :
             IF c.of.holds[i] = 0
               THEN c.of.base[i] = 0 \/ i \in c.of.gaps
               ELSE c.of.holds[i] \in c.of.base[i]..pub_file'[i]
<1> SUFFICES ASSUME c.there = "whole", NEW i \in among, c.of.holds[i] # 0
             PROVE  c.of.holds[i] \in c.of.base[i]..pub_file'[i]
  BY DEF Pub!Faithful
<1>1. c.of.holds[i] \in Nat /\ c.of.base[i] \in Nat
  BY DEF Pub!Copy, Pub!Contents, Pub!Held
<1>2. c.of.holds[i] \in c.of.base[i]..pub_file[i]
  BY DEF Pub!Faithful
<1> QED
  BY <1>1, <1>2, FileGrows

\* What an export that has read everything writes is faithful.
LEMMA GotFaithful ==
  ASSUME Pub!PublicationAssumption, PubTypes, ReadRight, pub_pc # "idle",
         pub_todo = {}
  PROVE  /\ pub_kind # "bucket" => Pub!Faithful(Pub!Whole(pub_got), PubIds)
         /\ pub_kind = "bucket" => Pub!Faithful(Pub!Whole(pub_got), PubValid)
            /\ \A i \in PubIds \ PubValid : pub_got.holds[i] = 0
BY CopyTypes DEF Pub!Faithful, ReadRight, Pub!PublicationAssumption, PubTypes,
   Pub!TypeOK, Pub!Contents, Pub!Held

LEMMA ReadRightStep ==
  Pub!PublicationAssumption /\ PubTypes /\ ReadRight /\ [Pub!Next]_(Pub!vars)
    => ReadRight'
<1> SUFFICES ASSUME Pub!PublicationAssumption, PubTypes, ReadRight,
                    [Pub!Next]_(Pub!vars), pub_pc' # "idle", NEW i \in PubIds
             PROVE  (/\ pub_got.base[i] <= pub_file[i]
                     /\ pub_got.holds[i] = 0
                        \/ pub_got.holds[i] \in pub_got.base[i]..pub_file[i]
                     /\ pub_got.holds[i] = 0 =>
                          \/ pub_got.base[i] = 0 \/ i \in pub_got.gaps
                             \/ i \in pub_todo
                          \/ pub_kind = "bucket" /\ i \notin PubValid
                     /\ pub_kind = "bucket" /\ i \notin PubValid
                          => pub_got.holds[i] = 0)'
  BY DEF ReadRight
<1>1. /\ pub_file[i] \in Nat /\ pub_file'[i] \in Nat /\ pub_file[i] <= pub_file'[i]
      /\ pub_got \in Pub!Contents /\ pub_got.base[i] \in Nat
         /\ pub_got.holds[i] \in Nat
  BY FileGrows DEF PubTypes, Pub!TypeOK, Pub!Contents, Pub!Held
<1>2. CASE \E k \in Pub!Kinds : Pub!Start(k)
  BY <1>1, <1>2 DEF Pub!Start, Pub!dirVars, Pub!Nothing
<1>4. ASSUME NEW j \in PubIds, Pub!Read(j)
      PROVE  (/\ pub_got.base[i] <= pub_file[i]
              /\ pub_got.holds[i] = 0
                 \/ pub_got.holds[i] \in pub_got.base[i]..pub_file[i]
              /\ pub_got.holds[i] = 0 =>
                   \/ pub_got.base[i] = 0 \/ i \in pub_got.gaps \/ i \in pub_todo
                   \/ pub_kind = "bucket" /\ i \notin PubValid
              /\ pub_kind = "bucket" /\ i \notin PubValid => pub_got.holds[i] = 0)'
  <2>1. /\ pub_pc = "read" /\ pub_todo' = pub_todo \ {j}
           /\ UNCHANGED <<pub_file, pub_kind, pub_pc>>
    BY <1>4 DEF Pub!Read, Pub!Keep, Pub!dirVars
  <2>2. /\ pub_got.base[i] <= pub_file[i]
        /\ pub_got.holds[i] = 0 \/ pub_got.holds[i] \in pub_got.base[i]..pub_file[i]
        /\ pub_got.holds[i] = 0 =>
             \/ pub_got.base[i] = 0 \/ i \in pub_got.gaps \/ i \in pub_todo
             \/ pub_kind = "bucket" /\ i \notin PubValid
        /\ pub_kind = "bucket" /\ i \notin PubValid => pub_got.holds[i] = 0
    BY <2>1 DEF ReadRight
  <2>3. CASE j \in pub_torn
    <3>1. pub_got' = [pub_got EXCEPT !.gaps = @ \cup {j}]
      BY <1>4, <2>3 DEF Pub!Read
    <3>2. pub_got'.base = pub_got.base /\ pub_got'.holds = pub_got.holds
          /\ pub_got'.gaps = pub_got.gaps \cup {j}
      BY <3>1 DEF PubTypes, Pub!TypeOK, Pub!Contents
    <3> QED
      BY <2>1, <2>2, <3>2
  <2>4. CASE j \notin pub_torn /\ pub_kind = "bucket" /\ j \notin PubValid
    <3>1. pub_got' = pub_got
      BY <1>4, <2>4 DEF Pub!Read
    <3> QED
      BY <2>1, <2>2, <2>4, <3>1
  <2>5. CASE j \notin pub_torn /\ ~(pub_kind = "bucket" /\ j \notin PubValid)
    <3>1. pub_got' = [pub_got EXCEPT !.holds[j] = pub_file[j]]
      BY <1>4, <2>5 DEF Pub!Read
    <3>2. /\ pub_got'.base = pub_got.base /\ pub_got'.gaps = pub_got.gaps
          /\ pub_got'.holds = [pub_got.holds EXCEPT ![j] = pub_file[j]]
      BY <3>1 DEF PubTypes, Pub!TypeOK, Pub!Contents
    <3>3. pub_got'.holds[i] = IF i = j THEN pub_file[i] ELSE pub_got.holds[i]
      BY <3>2 DEF PubTypes, Pub!TypeOK, Pub!Contents, Pub!Held
    <3> QED
      BY <1>1, <2>1, <2>2, <2>5, <3>2, <3>3
  <2> QED
    BY <2>3, <2>4, <2>5
<1>5. CASE UNCHANGED <<pub_got, pub_todo, pub_kind>> /\ pub_pc # "idle"
  BY <1>1, <1>5 DEF ReadRight
<1>6. (\E k \in Pub!Kinds : Pub!Start(k)) \/ (\E j \in PubIds : Pub!Read(j))
      \/ (UNCHANGED <<pub_got, pub_todo, pub_kind>> /\ pub_pc # "idle")
  BY DEF Pub!Next, Pub!Write, Pub!Written, Pub!WriteZip, Pub!WriteManifest,
     Pub!WriteSnapshot, Pub!WriteAtom, Pub!WriteJson, Pub!WriteTar,
     Pub!WriteSum, Pub!Tidy, Pub!Die, Pub!Keep, Pub!dirVars, Pub!vars,
     Pub!Finish
<1> QED
  BY <1>2, <1>4, <1>5, <1>6

\* Where the snapshot, the bundle and the bucket can come from.
LEMMA CopiesFrom ==
  ASSUME PubTypes, [Pub!Next]_(Pub!vars)
  PROVE  /\ \/ pub_snap' \in {pub_snap, Pub!NoCopy, Pub!TornCopy}
            \/ pub_pc = "read" /\ pub_todo = {} /\ pub_kind # "bucket"
               /\ pub_snap' = Pub!Whole(pub_got)
         /\ \/ pub_tar' \in {pub_tar, Pub!TornCopy}
            \/ pub_pc = "tar" /\ pub_tar' = Pub!Whole(pub_got)
         /\ \/ pub_zip' \in {pub_zip, Pub!TornCopy}
            \/ pub_pc = "read" /\ pub_todo = {} /\ pub_kind = "bucket"
               /\ pub_zip' = Pub!Whole(pub_got)
<1>1. CASE \E i \in PubIds : Pub!Write(i) \/ Pub!Written(i) \/ Pub!Read(i)
  BY <1>1 DEF Pub!Write, Pub!Written, Pub!Read, Pub!Keep, Pub!copyVars
<1>2. CASE \E k \in Pub!Kinds : Pub!Start(k)
  BY <1>2 DEF Pub!Start
<1>3. CASE Pub!WriteZip \/ Pub!WriteManifest \/ Pub!WriteSnapshot \/ Pub!WriteAtom
      \/ Pub!WriteJson \/ Pub!WriteTar \/ Pub!WriteSum \/ Pub!Tidy
  BY <1>3 DEF Pub!WriteZip, Pub!WriteManifest, Pub!WriteSnapshot,
     Pub!WriteAtom, Pub!WriteJson, Pub!WriteTar, Pub!WriteSum, Pub!Tidy,
     Pub!Keep
<1>4. CASE Pub!Die
  BY <1>4 DEF Pub!Die
<1>5. CASE UNCHANGED Pub!vars
  BY <1>5 DEF Pub!vars, Pub!copyVars
<1> QED
  BY <1>1, <1>2, <1>3, <1>4, <1>5 DEF Pub!Next

LEMMA CopiesStep ==
  Pub!PublicationAssumption /\ PubTypes /\ ReadRight /\ Pub!CopiesFaithful
  /\ [Pub!Next]_(Pub!vars) => Pub!CopiesFaithful'
<1> SUFFICES ASSUME Pub!PublicationAssumption, PubTypes, ReadRight,
                    Pub!CopiesFaithful, [Pub!Next]_(Pub!vars)
             PROVE  Pub!CopiesFaithful'
  OBVIOUS
<1> DEFINE Later(c, among) ==
      c.there = "whole" =>
        \A i \in among : IF c.of.holds[i] = 0 THEN c.of.base[i] = 0
        \/ i \in c.of.gaps
                                              ELSE c.of.holds[i]
                                                \in c.of.base[i]..pub_file'[i]
<1>1. {pub_snap, pub_tar, pub_zip, Pub!NoCopy, Pub!TornCopy, Pub!Whole(pub_got)}
        \subseteq Pub!Copy /\ PubValid \subseteq PubIds
  BY CopyTypes DEF PubTypes, Pub!TypeOK, Pub!PublicationAssumption
<1>2. \A among \in SUBSET PubIds : Pub!Faithful(Pub!NoCopy, among)
      /\ Pub!Faithful(Pub!TornCopy, among)
  BY CopyTypes DEF Pub!Faithful
<1>3. \A c \in Pub!Copy : \A among \in SUBSET PubIds : Pub!Faithful(c, among)
        => Later(c, among)
  BY StaysFaithful
<1>4. Pub!Faithful(pub_snap, PubIds) /\ Pub!Faithful(pub_tar, PubIds)
      /\ Pub!Faithful(pub_zip, PubValid)
  BY DEF Pub!CopiesFaithful
<1>5. Later(pub_snap', PubIds)
  <2>1. Later(pub_snap, PubIds) /\ Later(Pub!NoCopy, PubIds)
        /\ Later(Pub!TornCopy, PubIds)
    BY <1>1, <1>2, <1>3, <1>4
  <2>2. CASE pub_snap' \in {pub_snap, Pub!NoCopy, Pub!TornCopy}
    BY <2>1, <2>2
  <2>3. CASE pub_pc = "read" /\ pub_todo = {} /\ pub_kind # "bucket"
        /\ pub_snap' = Pub!Whole(pub_got)
    BY <1>1, <1>3, <2>3, GotFaithful
  <2> QED
    BY <2>2, <2>3, CopiesFrom
<1>6. Later(pub_tar', PubIds)
  <2>1. Later(pub_tar, PubIds) /\ Later(Pub!TornCopy, PubIds)
    BY <1>1, <1>2, <1>3, <1>4
  <2>2. CASE pub_tar' \in {pub_tar, Pub!TornCopy}
    BY <2>1, <2>2
  <2>3. CASE pub_pc = "tar" /\ pub_tar' = Pub!Whole(pub_got)
    BY <1>1, <1>3, <2>3, GotFaithful DEF PubTypes, Stages, Pub!Bundle
  <2> QED
    BY <2>2, <2>3, CopiesFrom
<1>7. Later(pub_zip', PubValid)
      /\ \A i \in PubIds \ PubValid : pub_zip'.of.holds[i] = 0
  <2>1. Later(pub_zip, PubValid) /\ Later(Pub!TornCopy, PubValid)
    BY <1>1, <1>2, <1>3, <1>4
  <2>2. CASE pub_zip' \in {pub_zip, Pub!TornCopy}
    BY <2>1, <2>2, CopyTypes DEF Pub!CopiesFaithful, Pub!Nothing
  <2>3. CASE pub_pc = "read" /\ pub_todo = {} /\ pub_kind = "bucket"
        /\ pub_zip' = Pub!Whole(pub_got)
    BY <1>1, <1>3, <2>3, GotFaithful, CopyTypes
  <2> QED
    BY <2>2, <2>3, CopiesFrom
<1> QED
  BY <1>5, <1>6, <1>7 DEF Pub!CopiesFaithful, Pub!Faithful

LEMMA SnapStep ==
  ASSUME Pub!PublicationAssumption, PubTypes, ReadRight, SnapBehind, SnapWithin,
         [Pub!Next]_(Pub!vars)
  PROVE  SnapBehind' /\ SnapWithin' /\ Pub!SnapshotAdvances
<1>1. CASE pub_snap' = pub_snap
  <2>1. SnapWithin'
    <3>1. ASSUME NEW i \in PubIds PROVE pub_snap.of.holds[i] \in Nat
      BY DEF PubTypes, Pub!TypeOK, Pub!Copy, Pub!Contents, Pub!Held
    <3> QED
      BY <1>1, <3>1, FileGrows DEF SnapWithin
  <2>2. SnapBehind'
    <3>1. CASE \E k \in Pub!Kinds : Pub!Start(k)
      BY <1>1, <3>1 DEF Pub!Start, SnapBehind, SnapWithin
    <3>2. ASSUME NEW j \in PubIds, Pub!Read(j) PROVE SnapBehind'
      <4>1. pub_got'.base = pub_got.base /\ pub_pc = "read"
        BY <3>2 DEF Pub!Read, PubTypes, Pub!TypeOK, Pub!Contents
      <4> QED
        BY <1>1, <4>1 DEF SnapBehind
    <3>3. CASE pub_pc' # "read"
      BY <3>3 DEF SnapBehind
    <3>4. CASE UNCHANGED <<pub_pc, pub_got>>
      BY <1>1, <3>4 DEF SnapBehind
    <3>5. \/ \E k \in Pub!Kinds : Pub!Start(k)
          \/ \E j \in PubIds : Pub!Read(j)
          \/ pub_pc' # "read"
          \/ UNCHANGED <<pub_pc, pub_got>>
      BY DEF Pub!Next, Pub!Write, Pub!Written, Pub!WriteZip, Pub!WriteManifest,
         Pub!WriteSnapshot, Pub!WriteAtom, Pub!WriteJson, Pub!WriteTar,
         Pub!WriteSum, Pub!Tidy, Pub!Die, Pub!Keep, Pub!vars, Pub!Finish
    <3> QED
      BY <3>1, <3>2, <3>3, <3>4, <3>5
  <2>3. Pub!SnapshotAdvances
    BY <1>1 DEF Pub!SnapshotAdvances, PubTypes, Pub!TypeOK, Pub!Copy,
       Pub!Contents, Pub!Held
  <2> QED
    BY <2>1, <2>2, <2>3
<1>2. CASE pub_snap' \in {Pub!NoCopy, Pub!TornCopy}
  BY <1>2, CopyTypes DEF SnapBehind, SnapWithin, Pub!SnapshotAdvances
<1>3. CASE pub_snap' # pub_snap /\ pub_pc = "read" /\ pub_todo = {}
      /\ pub_kind # "bucket" /\ pub_snap' = Pub!Whole(pub_got)
  <2>1. pub_snap'.there = "whole" /\ pub_snap'.of = pub_got
    BY <1>3, CopyTypes
  <2>2. pub_pc' # "read" \/ pub_snap'.there = "torn"
    BY <1>3, CopyTypes DEF Pub!Next, Pub!Write, Pub!Written, Pub!Read,
       Pub!Start, Pub!WriteZip, Pub!WriteManifest, Pub!WriteSnapshot,
       Pub!WriteAtom, Pub!WriteJson, Pub!WriteTar, Pub!WriteSum, Pub!Tidy,
       Pub!Die, Pub!Keep, Pub!vars, Pub!copyVars, Pub!Finish
  <2>3. SnapBehind'
    BY <2>1, <2>2 DEF SnapBehind
  <2>4. ASSUME NEW i \in PubIds
        PROVE  /\ pub_got.holds[i] <= pub_file'[i]
               /\ pub_snap.there = "whole" =>
                    \/ pub_got.holds[i] >= pub_snap.of.holds[i]
                    \/ pub_got.holds[i] = 0 /\ i \in pub_got.gaps
    <3>1. /\ pub_got.holds[i] \in Nat /\ pub_got.base[i] \in Nat
             /\ pub_snap.of.holds[i] \in Nat
          /\ pub_file[i] \in Nat /\ pub_file'[i] \in Nat
             /\ pub_file[i] <= pub_file'[i]
      BY FileGrows DEF PubTypes, Pub!TypeOK, Pub!Copy, Pub!Contents, Pub!Held
    <3>2. /\ pub_got.holds[i] = 0
             \/ pub_got.holds[i] \in pub_got.base[i]..pub_file[i]
          /\ pub_got.holds[i] = 0 => pub_got.base[i] = 0 \/ i \in pub_got.gaps
      BY <1>3 DEF ReadRight
    <3>3. pub_snap.there = "whole" => pub_snap.of.holds[i] <= pub_got.base[i]
      BY <1>3 DEF SnapBehind
    <3> QED
      BY <3>1, <3>2, <3>3
  <2> QED
    BY <2>1, <2>3, <2>4 DEF SnapWithin, Pub!SnapshotAdvances
<1> QED
  BY <1>1, <1>2, <1>3, CopiesFrom

LEMMA SumsStep == PubTypes /\ SumsComing /\ Pub!ChecksumsName
  /\ [Pub!Next]_(Pub!vars) => SumsComing' /\ Pub!ChecksumsName'
<1> SUFFICES ASSUME PubTypes, SumsComing, Pub!ChecksumsName, [Pub!Next]_(Pub!vars)
    PROVE  SumsComing' /\ Pub!ChecksumsName'
  OBVIOUS
<1> USE DEF SumsComing, Pub!ChecksumsName, Pub!Idle, Pub!Names, Pub!Bundle
<1>1. CASE \E i \in PubIds : Pub!Write(i) \/ Pub!Written(i) \/ Pub!Read(i)
  BY <1>1 DEF Pub!Write, Pub!Written, Pub!Read, Pub!Keep, Pub!copyVars
<1>2. CASE \E k \in Pub!Kinds : Pub!Start(k)
  BY <1>2 DEF Pub!Start, Pub!Kinds
<1>3. CASE Pub!WriteZip
  BY <1>3 DEF Pub!WriteZip, Pub!Keep, Pub!Whole
<1>4. CASE Pub!WriteManifest
  BY <1>4 DEF Pub!WriteManifest, Pub!Keep, Pub!Finish, PubTypes, Stages
<1>5. CASE Pub!WriteSnapshot
  BY <1>5 DEF Pub!WriteSnapshot, Pub!Keep, Pub!Finish, PubTypes, Pub!TypeOK,
     Pub!Kinds
<1>6. CASE Pub!WriteAtom \/ Pub!WriteJson
  BY <1>6 DEF Pub!WriteAtom, Pub!WriteJson, Pub!Keep, Pub!Finish, PubTypes,
     Stages
<1>7. CASE Pub!WriteTar
  BY <1>7 DEF Pub!WriteTar, Pub!Keep, Pub!Whole, PubTypes, Stages
<1>8. CASE Pub!WriteSum
  BY <1>8 DEF Pub!WriteSum, Pub!Keep, PubTypes, Stages
<1>9. CASE Pub!Tidy
  BY <1>9 DEF Pub!Tidy, Pub!Keep, Pub!Finish, PubTypes, Stages
<1>10. CASE Pub!Die
  BY <1>10 DEF Pub!Die, PubTypes, Stages
<1>11. CASE UNCHANGED Pub!vars
  BY <1>11 DEF Pub!vars, Pub!copyVars
<1> QED
  BY <1>1, <1>2, <1>3, <1>4, <1>5, <1>6, <1>7, <1>8, <1>9, <1>10, <1>11 DEF
     Pub!Next

LEMMA FeedsStep == PubTypes /\ FeedsComing /\ Pub!FeedsFollow
  /\ [Pub!Next]_(Pub!vars) => FeedsComing' /\ Pub!FeedsFollow'
<1> SUFFICES ASSUME PubTypes, FeedsComing, Pub!FeedsFollow, [Pub!Next]_(Pub!vars)
    PROVE  FeedsComing' /\ Pub!FeedsFollow'
  OBVIOUS
<1> USE DEF FeedsComing, Pub!FeedsFollow, Pub!Idle
<1>1. ASSUME NEW i \in PubIds, Pub!Write(i) \/ Pub!Written(i)
      PROVE  FeedsComing' /\ Pub!FeedsFollow'
  BY <1>1 DEF Pub!Write, Pub!Written, Pub!copyVars
<1>2. ASSUME NEW i \in PubIds, Pub!Read(i) PROVE FeedsComing' /\ Pub!FeedsFollow'
  BY <1>2 DEF Pub!Read, Pub!Keep, Pub!copyVars
<1>3. CASE \E k \in Pub!Kinds : Pub!Start(k)
  BY <1>3 DEF Pub!Start
<1>4. CASE Pub!WriteZip \/ Pub!WriteManifest
  BY <1>4 DEF Pub!WriteZip, Pub!WriteManifest, Pub!Keep, Pub!Finish, PubTypes,
     Stages
<1>5. CASE Pub!WriteSnapshot
  <2>1. UNCHANGED <<pub_got, pub_atom, pub_json, pub_died, pub_kind>>
    BY <1>5 DEF Pub!WriteSnapshot, Pub!Keep
  <2>2. CASE pub_kind = "away"
    BY <1>5, <2>1, <2>2 DEF Pub!WriteSnapshot, Pub!Bundle
  <2>3. CASE pub_kind # "away"
    <3>1. pub_snap' = Pub!Whole(pub_got) /\ pub_snap'.there = "whole"
          /\ pub_snap'.of = pub_got
      BY <1>5, <2>3 DEF Pub!WriteSnapshot, Pub!Whole
    <3>2. \/ pub_pc' = "tar" /\ pub_kind = "beside"
          \/ pub_pc' = "atom" /\ pub_kind = "snapshot"
          \/ pub_pc' = "idle" /\ pub_got.holds = Pub!Nothing
             /\ pub_kind = "snapshot"
      BY <1>5, <2>3 DEF Pub!WriteSnapshot, Pub!Finish, Pub!Bundle, PubTypes,
         Pub!TypeOK, Pub!Kinds
    <3> QED
      BY <2>1, <3>1, <3>2
  <2> QED
    BY <2>2, <2>3
<1>6. CASE Pub!WriteAtom
  BY <1>6 DEF Pub!WriteAtom, Pub!Keep, PubTypes, Stages
<1>7. CASE Pub!WriteJson
  <2>1. /\ pub_json' = Pub!FeedOf(pub_got) /\ pub_pc = "json" /\ pub_pc' = "idle"
        /\ UNCHANGED <<pub_snap, pub_atom, pub_died, pub_kind>>
    BY <1>7 DEF Pub!WriteJson, Pub!Keep, Pub!Finish
  <2>2. pub_died \cap {"snapshot", "beside"} = {} => pub_snap = Pub!Whole(pub_got)
        /\ pub_atom = Pub!FeedOf(pub_got)
    BY <2>1
  <2>3. Pub!Whole(pub_got).there = "whole" /\ Pub!Whole(pub_got).of = pub_got
    BY DEF Pub!Whole
  <2> QED
    BY <2>1, <2>2, <2>3
<1>8. CASE Pub!WriteTar \/ Pub!WriteSum
  BY <1>8 DEF Pub!WriteTar, Pub!WriteSum, Pub!Keep, PubTypes, Stages,
     Pub!Bundle
<1>9. CASE Pub!Tidy
  BY <1>9 DEF Pub!Tidy, Pub!Keep, Pub!Finish, PubTypes, Stages, Pub!Bundle,
     Pub!NoCopy
<1>10. CASE Pub!Die
  BY <1>10 DEF Pub!Die, PubTypes, Stages
<1>11. CASE UNCHANGED Pub!vars
  BY <1>11 DEF Pub!vars, Pub!copyVars
<1> QED
  BY <1>1, <1>2, <1>3, <1>4, <1>5, <1>6, <1>7, <1>8, <1>9, <1>10, <1>11 DEF
     Pub!Next

LEMMA PubStep == Pub!PublicationAssumption /\ PubInv /\ [Pub!Next]_(Pub!vars)
  => PubInv'
BY PubTypesStep, ReadRightStep, CopiesStep, SnapStep, SumsStep, FeedsStep DEF
   PubInv

\* What is exported is of a moment since the export began, and never newer than
\* the directory.
THEOREM PubInductive == Pub!PublicationAssumption /\ Pub!Spec => []PubInv
<1> SUFFICES ASSUME Pub!PublicationAssumption PROVE Pub!Spec => []PubInv
  OBVIOUS
<1>1. Pub!Init => PubInv
  BY PubInit
<1>2. PubInv /\ [Pub!Next]_(Pub!vars) => PubInv'
  BY PubStep
<1> QED
  BY <1>1, <1>2, PTL DEF Pub!Spec

\* Whole copies are faithful, checksums name them and feeds follow the snapshot.
THEOREM PubSafe == Pub!PublicationAssumption /\ Pub!Spec
  => [](Pub!CopiesFaithful /\ Pub!ChecksumsName /\ Pub!FeedsFollow)
<1> SUFFICES ASSUME Pub!PublicationAssumption
    PROVE  Pub!Spec
             => [](Pub!CopiesFaithful /\ Pub!ChecksumsName /\ Pub!FeedsFollow)
  OBVIOUS
<1>1. Pub!Spec => []PubInv
  BY PubInductive
<1>2. PubInv => Pub!CopiesFaithful /\ Pub!ChecksumsName /\ Pub!FeedsFollow
  BY DEF PubInv
<1> QED
  BY <1>1, <1>2, PTL

\* A snapshot never goes back.
THEOREM AdvancesSafe == Pub!PublicationAssumption /\ Pub!Spec
  => [][Pub!SnapshotAdvances]_(Pub!vars)
<1> SUFFICES ASSUME Pub!PublicationAssumption
    PROVE  Pub!Spec => [][Pub!SnapshotAdvances]_(Pub!vars)
  OBVIOUS
<1>1. Pub!Spec => []PubInv
  BY PubInductive
<1>2. PubInv /\ [Pub!Next]_(Pub!vars) => [Pub!SnapshotAdvances]_(Pub!vars)
  BY SnapStep DEF PubInv
<1> QED
  BY <1>1, <1>2, PTL DEF Pub!Spec

-----------------------------------------------------------------------------
(* The parts side by side: each takes its own steps, or none.              *)

LEMMA FoundRuns == Spec => Found!Spec
<1>1. Init => Found!Init
  BY DEF Init
<1>2. [Next]_vars => [Found!Next]_(Found!vars)
  BY DEF Next, vars, foundVars, Found!vars, Found!upstream, Found!files,
     Found!pass, Found!enricher, CveNext, KevNext, EpssNext, FoundNext,
     FixerNext, PassportsNext, MalwareNext, PypaNext, GitlabNext, UpdatesNext,
     GraphNext, StoreNext, ProbeNext, SandboxNext, BridgeNext, BotNext,
     SiteNext, PubNext
<1> QED
  BY <1>1, <1>2, PTL DEF Spec, Found!Spec

LEMMA FixerRuns == Spec => Fixer!Spec
<1>1. Init => Fixer!Init
  BY DEF Init
<1>2. [Next]_vars => [Fixer!Next]_(Fixer!vars)
  BY DEF Next, vars, fixerVars, Fixer!vars, CveNext, KevNext, EpssNext,
     FoundNext, FixerNext, PassportsNext, MalwareNext, PypaNext, GitlabNext,
     UpdatesNext, GraphNext, StoreNext, ProbeNext, SandboxNext, BridgeNext,
     BotNext, SiteNext, PubNext
<1> QED
  BY <1>1, <1>2, PTL DEF Spec, Fixer!Spec

LEMMA PassportsRuns == Spec => Passports!Spec
<1>1. Init => Passports!Init
  BY DEF Init
<1>2. [Next]_vars => [Passports!Next]_(Passports!vars)
  BY DEF Next, vars, passportsVars, Passports!vars, Passports!upstream,
     CveNext, KevNext, EpssNext, FoundNext, FixerNext, PassportsNext,
     MalwareNext, PypaNext, GitlabNext, UpdatesNext, GraphNext, StoreNext,
     ProbeNext, SandboxNext, BridgeNext, BotNext, SiteNext, PubNext
<1> QED
  BY <1>1, <1>2, PTL DEF Spec, Passports!Spec

LEMMA MalwareRuns == Spec => Malware!Spec
<1>1. Init => Malware!Init
  BY DEF Init
<1>2. [Next]_vars => [Malware!Next]_(Malware!vars)
  BY DEF Next, vars, malwareVars, Malware!vars, CveNext, KevNext, EpssNext,
     FoundNext, FixerNext, PassportsNext, MalwareNext, PypaNext, GitlabNext,
     UpdatesNext, GraphNext, StoreNext, ProbeNext, SandboxNext, BridgeNext,
     BotNext, SiteNext, PubNext
<1> QED
  BY <1>1, <1>2, PTL DEF Spec, Malware!Spec

LEMMA GitlabRuns == Spec => Gitlab!Spec
<1>1. Init => Gitlab!Init
  BY DEF Init
<1>2. [Next]_vars => [Gitlab!Next]_(Gitlab!vars)
  BY DEF Next, vars, gitlabVars, Gitlab!vars, CveNext, KevNext, EpssNext,
     FoundNext, FixerNext, PassportsNext, MalwareNext, PypaNext, GitlabNext,
     UpdatesNext, GraphNext, StoreNext, ProbeNext, SandboxNext, BridgeNext,
     BotNext, SiteNext, PubNext
<1> QED
  BY <1>1, <1>2, PTL DEF Spec, Gitlab!Spec

LEMMA UpdatesRuns == Spec => Updates!Spec
<1>1. Init => Updates!Init
  BY DEF Init
<1>2. [Next]_vars => [Updates!Next]_(Updates!vars)
  BY DEF Next, vars, updatesVars, Updates!vars, CveNext, KevNext, EpssNext,
     FoundNext, FixerNext, PassportsNext, MalwareNext, PypaNext, GitlabNext,
     UpdatesNext, GraphNext, StoreNext, ProbeNext, SandboxNext, BridgeNext,
     BotNext, SiteNext, PubNext
<1> QED
  BY <1>1, <1>2, PTL DEF Spec, Updates!Spec

LEMMA BotRuns == Spec => Bot!Spec
<1>1. Init => Bot!Init
  BY DEF Init
<1>2. [Next]_vars => [Bot!Next]_(Bot!vars)
  BY DEF Next, vars, botVars, Bot!vars, Bot!hubVars, Bot!cloneVars,
     Bot!runVars, Bot!pastVars, CveNext, KevNext, EpssNext, FoundNext,
     FixerNext, PassportsNext, MalwareNext, PypaNext, GitlabNext, UpdatesNext,
     GraphNext, StoreNext, ProbeNext, SandboxNext, BridgeNext, BotNext,
     SiteNext, PubNext
<1> QED
  BY <1>1, <1>2, PTL DEF Spec, Bot!Spec

LEMMA SiteRuns == Spec => Site!Spec
<1>1. Init => Site!Init
  BY DEF Init
<1>2. [Next]_vars => [Site!Next]_(Site!vars)
  BY DEF Next, vars, siteVars, Site!vars, Site!inputVars, Site!cacheVars,
     Site!siteVars, Site!buildVars, CveNext, KevNext, EpssNext, FoundNext,
     FixerNext, PassportsNext, MalwareNext, PypaNext, GitlabNext, UpdatesNext,
     GraphNext, StoreNext, ProbeNext, SandboxNext, BridgeNext, BotNext,
     SiteNext, PubNext
<1> QED
  BY <1>1, <1>2, PTL DEF Spec, Site!Spec

LEMMA PubRuns == Spec => Pub!Spec
<1>1. Init => Pub!Init
  BY DEF Init
<1>2. [Next]_vars => [Pub!Next]_(Pub!vars)
  BY DEF Next, vars, pubVars, Pub!vars, Pub!dirVars, Pub!copyVars, CveNext,
     KevNext, EpssNext, FoundNext, FixerNext, PassportsNext, MalwareNext,
     PypaNext, GitlabNext, UpdatesNext, GraphNext, StoreNext, ProbeNext,
     SandboxNext, BridgeNext, BotNext, SiteNext, PubNext
<1> QED
  BY <1>1, <1>2, PTL DEF Spec, Pub!Spec

\* What is on disk is complete and belongs together, in every part and for
\* every value of its constants.
THEOREM CopiesSafe == Spec => []CopiesComplete
<1>1. /\ Found!DiscoveryAssumption /\ Fixer!ConfigFixerAssumption
      /\ Passports!PassportSyncAssumption /\ Malware!MalwareFeedAssumption
      /\ Gitlab!GitLabMirrorAssumption /\ Updates!UpdateHistoryAssumption
      /\ Bot!RemediationBotAssumption /\ Site!CatalogBuildAssumption
      /\ Pub!PublicationAssumption
  BY PartsAssumption DEF PartsAssumption
<1>2. (/\ Found!ListedAudited /\ Fixer!ReplacedIsBackedUp
       /\ Passports!NewIsComplete /\ Passports!LostToBrokenBody
       /\ Malware!QuarantineExact
       /\ Gitlab!SyncedIsCurrent /\ Gitlab!OfflineKeepsData
       /\ Updates!CountsAddUp /\ Updates!EntriesHaveBundles
       /\ Bot!PlansArePublished /\ Bot!BranchesHoldTheirOwn
       /\ Site!SiteCurrent
       /\ Pub!CopiesFaithful /\ Pub!ChecksumsName /\ Pub!FeedsFollow)
      => CopiesComplete
  BY DEF CopiesComplete
<1>3. Spec => []Found!ListedAudited
  BY <1>1, FoundRuns, FoundSafe
<1>4. Spec => []Fixer!ReplacedIsBackedUp
  BY <1>1, FixerRuns, FixerSafe
<1>5. Spec => [](Passports!NewIsComplete /\ Passports!LostToBrokenBody)
  BY <1>1, PassportsRuns, PassportsSafe
<1>6. Spec => []Malware!QuarantineExact
  BY <1>1, MalwareRuns, MalwareSafe
<1>7. Spec => []Gitlab!SyncedIsCurrent
  BY <1>1, GitlabRuns, SyncedSafe
<1>8. Spec => []Gitlab!OfflineKeepsData
  BY <1>1, GitlabRuns, OfflineSafe
<1>9. Spec => [](Updates!CountsAddUp /\ Updates!EntriesHaveBundles)
  BY <1>1, UpdatesRuns, UpdatesSafe
<1>10. Spec => [](Bot!PlansArePublished /\ Bot!BranchesHoldTheirOwn)
  BY <1>1, BotRuns, BotSafe
<1>11. Spec => []Site!SiteCurrent
  BY <1>1, SiteRuns, SiteSafe
<1>12. Spec => [](Pub!CopiesFaithful /\ Pub!ChecksumsName /\ Pub!FeedsFollow)
  BY <1>1, PubRuns, PubSafe
<1> QED
  BY <1>2, <1>3, <1>4, <1>5, <1>6, <1>7, <1>8, <1>9, <1>10, <1>11, <1>12, PTL

=============================================================================

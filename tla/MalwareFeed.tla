---------------------------- MODULE MalwareFeed ----------------------------
(***************************************************************************)
(* OpenSsfMaliciousSync (threat_intel/openssf_malicious.py): the archives  *)
(* of malicious packages, merged into one record per package, and the      *)
(* check that quarantines a package.                                       *)
(*                                                                         *)
(* An advisory names a package and the versions that are malicious; no     *)
(* versions at all means every version.                                    *)
(***************************************************************************)
EXTENDS FiniteSets, Naturals

CONSTANTS
  Feeds,           \* the archives, in the order they are read: 1, 2, ...
  Packages,        \* feed -> the packages of its ecosystem
  Versions,        \* positive numbers
  MaxChanges       \* bound: advisories published or withdrawn

MalwareFeedAssumption ==
  /\ IsFiniteSet(Feeds) /\ Feeds = 1..Cardinality(Feeds)
  /\ Versions \subseteq Nat \ {0} /\ MaxChanges \in Nat

VARIABLES
  upstream,        \* advisories [pkg, versions] of all archives
  changes,
  records, disk,   \* package -> versions of its one record; NoRecord
  next,            \* feed sync_upstream reads next, 0 between calls
  new,             \* new_records > 0
  saved,           \* history: advisories merged into what is on disk
  merged           \* history: those merged into memory, since it was loaded

vars == <<upstream, changes, records, disk, next, new, saved, merged>>

AllPackages == UNION {Packages[f] : f \in Feeds}
NoRecord    == {0}
NoRecords   == [p \in AllPackages |-> NoRecord]
Advisories  == [pkg : AllPackages, versions : SUBSET Versions]
Records     == [AllPackages -> (SUBSET Versions) \cup {NoRecord}]
Of(f)       == {a \in upstream : a.pkg \in Packages[f]}

TypeOK ==
  /\ upstream \subseteq Advisories /\ changes \in 0..MaxChanges
  /\ records \in Records /\ disk \in Records
  /\ next \in 0..Cardinality(Feeds) + 1 /\ new \in BOOLEAN
  /\ saved \subseteq Advisories /\ merged \subseteq Advisories

Init ==
  /\ upstream = {} /\ changes = 0 /\ records = NoRecords /\ disk = NoRecords
  /\ next = 0 /\ new = FALSE /\ saved = {} /\ merged = {}

PublishOrWithdraw(a) ==
  /\ changes < MaxChanges /\ changes' = changes + 1
  /\ upstream' = IF a \in upstream THEN upstream \ {a} ELSE upstream \cup {a}
  /\ UNCHANGED <<records, disk, next, new, saved, merged>>

\* Of two advisories for one package the later in the archive is kept.
Merge(advisories, r) ==
  \A p \in AllPackages :
    LET mine == {a \in advisories : a.pkg = p}
    IN  IF mine = {} THEN r[p] = records[p] ELSE r[p] \in {a.versions : a \in mine}

SyncStart ==
  /\ next = 0 /\ next' = 1 /\ new' = FALSE
  /\ UNCHANGED <<upstream, changes, records, disk, saved, merged>>

\* Mutant: the records of an archive take the place of all the others.
ReadFeedReplaces(f, good) ==
  /\ next = f /\ f \in Feeds /\ good \subseteq Of(f)
  /\ \E r \in Records :
       /\ Merge(good, r)
       /\ records' = [p \in AllPackages |-> IF \E a \in good : a.pkg = p THEN r[p] ELSE NoRecord]
  /\ new' = (new \/ good # {}) /\ merged' = merged \cup good
  /\ next' = IF f + 1 \in Feeds THEN f + 1 ELSE Cardinality(Feeds) + 1
  /\ UNCHANGED <<upstream, changes, disk, saved>>

\* `good' are the advisories whose file parses; the others are passed over.
ReadFeed(f, good) ==
  /\ next = f /\ f \in Feeds /\ good \subseteq Of(f)
  /\ \E r \in Records : Merge(good, r) /\ records' = r
  /\ new' = (new \/ good # {}) /\ merged' = merged \cup good
  /\ next' = IF f + 1 \in Feeds THEN f + 1 ELSE Cardinality(Feeds) + 1
  /\ UNCHANGED <<upstream, changes, disk, saved>>

\* The archive is not reached: the next one is read.
SkipFeed(f) ==
  /\ next = f /\ f \in Feeds
  /\ next' = IF f + 1 \in Feeds THEN f + 1 ELSE Cardinality(Feeds) + 1
  /\ UNCHANGED <<upstream, changes, records, disk, new, saved, merged>>

\* Any other error (a body cut short, not an archive) ends the call, unsaved.
FeedBreaks(f) ==
  /\ next = f /\ f \in Feeds /\ next' = 0
  /\ UNCHANGED <<upstream, changes, records, disk, new, saved, merged>>

\* A save that fails or dies half-way leaves a file that loads as no records.
Save ==
  /\ next = Cardinality(Feeds) + 1 /\ next' = 0
  /\ IF new THEN \/ disk' = records /\ saved' = saved \cup merged
                 \/ disk' = NoRecords /\ saved' = {}
            ELSE UNCHANGED <<disk, saved>>
  /\ UNCHANGED <<upstream, changes, records, new, merged>>

\* A new process loads the file.
Restart ==
  /\ next' = 0 /\ records' = disk /\ merged' = {}
  /\ UNCHANGED <<upstream, changes, disk, new, saved>>

\* get_malicious_record.
Malicious(r, p, v) == r[p] # NoRecord /\ (r[p] = {} \/ v \in r[p])

Next ==
  \/ \E a \in Advisories : PublishOrWithdraw(a)
  \/ SyncStart \/ Save \/ Restart
  \/ \E f \in Feeds : SkipFeed(f) \/ FeedBreaks(f) \/ \E good \in SUBSET Of(f) : ReadFeed(f, good)

Spec == Init /\ [][Next]_vars

-----------------------------------------------------------------------------

\* A package with one advisory is quarantined at exactly the versions that
\* names, whatever archives failed, parsed in part or were read again, and
\* after a restart.  Of several only one counts, and a withdrawn one stays.
QuarantineExact ==
  \A p \in AllPackages :
    LET mine == {a \in saved : a.pkg = p}
    IN  Cardinality(mine) = 1 =>
          \A v \in Versions : \A a \in mine :
            Malicious(disk, p, v) <=> v \in a.versions \/ a.versions = {}

=============================================================================

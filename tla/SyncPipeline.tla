--------------------------- MODULE SyncPipeline ---------------------------
(***************************************************************************)
(* One `mcp-vuln sync` after another: McpVulnerabilityPipeline.run, the    *)
(* checkpoint file it resumes from (SyncStateManager) and the audit cache  *)
(* it consults (McpCatalogState).                                          *)
(*                                                                         *)
(* A run reads three persisted things (advisory files, sync_state.json,    *)
(* mcp_catalog_state.json), walks its feeds in a fixed order, fuses what   *)
(* it collected, rewrites every advisory file, replaces index.json and     *)
(* saves the checkpoints last.  The process may die between any two steps; *)
(* the upstream feeds move on while it runs.                               *)
(*                                                                         *)
(* An advisory record is the set of upstream revisions <<id, rev>> it was  *)
(* fused from; rev is the upstream `updated_at` clock value.               *)
(***************************************************************************)
EXTENDS Integers, FiniteSets

CONSTANTS
  Ids,         \* advisory identifiers
  Canon,       \* Canon[i]: the canonical id of i's alias cluster
  Ghsa,        \* ids the GHSA REST feed publishes
  Local,       \* ids of the re-read local sources (Verity, Markdown)
  Rescan,      \* ids of the feeds without a marker (NVD, GitLab, PyPA)
  Packages,    \* packages of mcp_servers.json and KNOWN_MCP_PACKAGES
  Affects,     \* Affects[i]: the packages advisory i names
  Malicious,   \* packages with an OpenSSF malicious record
  Relevant,    \* ids McpRelevanceFilter accepts and the converter parses
  Valid,       \* canonical ids whose fused record OsvValidator accepts
  Poison,      \* GHSA advisories the page loop raises on (no "vulnerabilities")
  PageSize,    \* per_page of the GHSA query
  MaxPages,    \* max_pages of the GHSA loop
  BatchSize,   \* batch_size of the OSV loop
  TTL,         \* ttl_days of should_query
  MaxClock,    \* bound: upstream publications
  OsvChoices,  \* include_osv_api: the values a run may be started with
  RateLimits, ApiErrors,            \* may GitHub answer 403/429, or fail?
  SaveFaults,                       \* may writing the catalog temp file fail?
  Crashes, Resets                   \* may the process die, --reset-state?

ASSUME SetsAssumption ==
  /\ IsFiniteSet(Ids)
  /\ Ghsa \subseteq Ids /\ Local \subseteq Ids /\ Rescan \subseteq Ids
  /\ Relevant \subseteq Ids /\ Valid \subseteq Ids /\ Poison \subseteq Ghsa
  /\ Malicious \subseteq Packages
  /\ Affects \in [Ids -> SUBSET Packages]
ASSUME CanonAssumption ==
  /\ Canon \in [Ids -> Ids]
  /\ \A i \in Ids : Canon[Canon[i]] = Canon[i]
ASSUME BoundAssumption ==
  /\ MaxClock \in Nat \ {0} /\ TTL \in Nat
  /\ PageSize \in Nat \ {0} /\ MaxPages \in Nat \ {0}
  /\ BatchSize \in Nat \ {0}
ASSUME SwitchAssumption ==
  /\ OsvChoices \subseteq BOOLEAN
  /\ RateLimits \in BOOLEAN /\ ApiErrors \in BOOLEAN
  /\ SaveFaults \in BOOLEAN /\ Crashes \in BOOLEAN /\ Resets \in BOOLEAN

Clock == 0 .. MaxClock
Part  == Ids \X Clock
Page  == 0 .. (MaxClock + 1)        \* cursor values; MaxClock+1: first page

VARIABLES
  clock, upd, mirror,   \* upstream: time, GHSA/NVD revision, OSV.dev's copy
  files,                \* <output_dir>/<id>.json
  index,                \* ids listed in index.json
  stateFile,            \* sync_state.json: torn?, ghsa marker
  catFile,              \* mcp_catalog_state.json "servers"
  tombFile,             \* mcp_catalog_state.json "tombstones"
  quarantine,           \* quarantined_malicious_servers.json
  pc, reset, osv,       \* step of the run; reset_checkpoints, include_osv_api
  collected,            \* id -> revisions, what fuse_all will see
  marker,               \* state_manager's ghsa_api.last_updated_at
  catalog, tombs,       \* catalog_state.records and .tombstones
  newest, cursor, pages,\* newest_advisory_updated_at, next_url, pages_fetched
  todo,                 \* candidates_to_query not yet queried
  queue, cur,           \* fused records to write, and the one being written
  emitted,              \* emitted_ids
  lost                  \* history: revisions a run saw listed and let go

upstream == <<clock, upd, mirror>>
disk     == <<files, index, stateFile, catFile, tombFile, quarantine>>
control  == <<reset, osv>>
memory   == <<control, collected, marker, catalog, tombs, newest, cursor, pages,
              todo, queue, cur, emitted>>
vars     == <<upstream, disk, pc, memory, lost>>

NoRecord == [at |-> -1, known |-> {}]
Absent   == [st |-> "absent", parts |-> {}]

FileType    == [st : {"absent", "torn", "ok"}, parts : SUBSET Part]
CatalogType == [Packages -> [at : -1 .. MaxClock, known : SUBSET Ids]]

Steps == {"idle", "preload", "local", "ghsa", "osvSelect", "osvBatch",
          "osvSave", "rescan", "fuse", "emit", "write", "index",
          "saveOpen", "saveWrite"}

TypeOK ==
  /\ clock \in Clock /\ upd \in [Ids -> Clock] /\ mirror \in [Ids -> Clock]
  /\ files \in [Ids -> FileType]
  /\ index \in SUBSET Ids
  /\ stateFile \in [torn : BOOLEAN, ghsa : Clock]
  /\ catFile \in CatalogType /\ tombFile \in SUBSET Packages
  /\ quarantine \in SUBSET Packages
  /\ pc \in Steps /\ reset \in BOOLEAN /\ osv \in BOOLEAN
  /\ collected \in [Ids -> SUBSET Part]
  /\ marker \in Clock /\ newest \in Clock /\ cursor \in Page
  /\ pages \in 0 .. MaxPages
  /\ catalog \in CatalogType /\ tombs \in SUBSET Packages
  /\ todo \in SUBSET Packages /\ queue \in SUBSET Ids
  /\ cur \in SUBSET Ids /\ emitted \in SUBSET Ids
  /\ lost \in SUBSET Part

Blank == /\ reset' = FALSE /\ osv' = FALSE
         /\ collected' = [i \in Ids |-> {}] /\ marker' = 0
         /\ catalog' = [p \in Packages |-> NoRecord] /\ tombs' = {}
         /\ newest' = 0 /\ cursor' = MaxClock + 1 /\ pages' = 0
         /\ todo' = {} /\ queue' = {} /\ cur' = {} /\ emitted' = {}

Init ==
  /\ clock = 1 /\ upd = [i \in Ids |-> 0] /\ mirror = [i \in Ids |-> 0]
  /\ files = [i \in Ids |-> Absent] /\ index = {}
  /\ stateFile = [torn |-> FALSE, ghsa |-> 0]
  /\ catFile = [p \in Packages |-> NoRecord] /\ tombFile = {}
  /\ quarantine = {}
  /\ pc = "idle" /\ reset = FALSE /\ osv = FALSE
  /\ collected = [i \in Ids |-> {}] /\ marker = 0
  /\ catalog = [p \in Packages |-> NoRecord] /\ tombs = {}
  /\ newest = 0 /\ cursor = MaxClock + 1 /\ pages = 0
  /\ todo = {} /\ queue = {} /\ cur = {} /\ emitted = {} /\ lost = {}

-----------------------------------------------------------------------------
(* Upstream: an advisory is published or revised; OSV.dev copies it later. *)
Publish(i) ==
  /\ clock < MaxClock
  /\ clock' = clock + 1
  /\ upd' = [upd EXCEPT ![i] = clock + 1]
  /\ UNCHANGED <<mirror, disk, pc, memory, lost>>

Mirror(i) ==
  /\ Affects[i] # {} /\ mirror[i] # upd[i]
  /\ mirror' = [mirror EXCEPT ![i] = upd[i]]
  /\ UNCHANGED <<clock, upd, disk, pc, memory, lost>>

-----------------------------------------------------------------------------
\* Mutant: the first record of an id wins, later ones are skipped.
CollectFirstWins(new) ==
  /\ collected' = [i \in Ids |-> IF i \in DOMAIN new /\ collected[i] = {}
                                    THEN new[i] ELSE collected[i]]
  /\ lost' = lost

(* `collected` is a list; fuse_all indexes it by id, so of two records with *)
(* the same id only the one appended last takes part in the fusion.         *)
Collect(new) ==
  /\ collected' = [i \in Ids |-> IF i \in DOMAIN new THEN new[i]
                                                     ELSE collected[i]]
  /\ lost' = lost \cup UNION {collected[i] \ new[i] : i \in DOMAIN new}

Records(S, rev) == [i \in S |-> {<<i, rev[i]>>}]

Fused(c) == UNION {collected[i] : i \in {j \in Ids : Canon[j] = c}}

\* Starting the process: the constructor reads both state files; a torn
\* sync_state.json is read as a fresh state.
Start(r, o) ==
  /\ pc = "idle" /\ (r => Resets) /\ o \in OsvChoices
  /\ reset' = r /\ osv' = o
  /\ marker' = IF r \/ stateFile.torn THEN 0 ELSE stateFile.ghsa
  /\ catalog' = IF r THEN [p \in Packages |-> NoRecord] ELSE catFile
  /\ tombs' = tombFile
  /\ pc' = "preload"
  /\ UNCHANGED <<upstream, disk, collected, newest, cursor, pages, todo,
                 queue, cur, emitted, lost>>

\* An unreadable advisory file is reported and left out of the fusion; after
\* --reset-state nothing is pre-loaded at all.
Preload ==
  /\ pc = "preload"
  /\ collected' = [i \in Ids |-> IF ~reset /\ files[i].st = "ok"
                                   THEN files[i].parts ELSE {}]
  /\ lost' = IF reset THEN lost \cup UNION {files[i].parts : i \in Ids}
                      ELSE lost
  /\ pc' = "local"
  /\ UNCHANGED <<upstream, disk, control, marker, catalog, tombs, newest,
                 cursor, pages, todo, queue, cur, emitted>>

AfterGhsa == IF osv THEN "osvSelect" ELSE "rescan"

IngestLocal ==
  /\ pc = "local"
  /\ Collect(Records({i \in Local \cap Relevant : upd[i] > 0}, upd))
  /\ newest' = marker
  /\ pc' = "ghsa"
  /\ UNCHANGED <<upstream, disk, control, marker, catalog, tombs,
                 cursor, pages, todo, queue, cur, emitted>>

-----------------------------------------------------------------------------
(* Stage 4, the GHSA feed: newest first, one page per request, resumed with *)
(* since=<marker>.  cursor is the revision the next page starts below; 0    *)
(* stands for a response without a rel="next" link.                         *)
Listing == {a \in Ghsa : upd[a] > 0 /\ marker <= upd[a] /\ upd[a] < cursor}

Newest(n) ==
  {a \in Listing : Cardinality({b \in Listing : upd[b] > upd[a]}) < n}

\* Mutant: the key looked up is not the one the record is filed under.
MarkStaleMissed(S) == catalog

MarkStale(S) ==
  [p \in Packages |->
     IF catalog[p].at # -1 /\ \E a \in S : p \in Affects[a]
       THEN [catalog[p] EXCEPT !.at = 0] ELSE catalog[p]]

IngestAdvisories(S) ==
  /\ Collect(Records(S \cap Relevant, upd))
  /\ catalog' = MarkStale(S \cap Relevant)

\* Mutant: while pages_fetched <= max_pages.
MoreToFetchOffByOne == pages <= MaxPages /\ cursor > 0

MoreToFetch == pages < MaxPages /\ cursor > 0

GhsaPage ==
  LET page == Newest(PageSize) IN
  /\ pc = "ghsa" /\ MoreToFetch /\ page \cap Poison = {}
  /\ IngestAdvisories(page)
  /\ \E m \in Clock : /\ m = newest \/ \E a \in page : upd[a] = m
                      /\ newest <= m /\ \A a \in page : upd[a] <= m
                      /\ newest' = m
  /\ \/ Listing = page /\ cursor' = 0
     \/ /\ Listing # page
        /\ \E last \in page : /\ \A a \in page : upd[last] <= upd[a]
                              /\ cursor' = upd[last]
  /\ pages' = pages + 1
  /\ UNCHANGED <<upstream, disk, pc, control, marker, tombs, todo, queue,
                 cur, emitted>>

\* The revisions at or below the new marker that no page delivered.
Unread == {<<a, upd[a]>> : a \in {b \in Ghsa \cap Relevant :
             marker < upd[b] /\ upd[b] < cursor /\ upd[b] <= newest}}

\* Mutant: the checkpoint takes the current time, not the newest revision seen.
GhsaDoneNow ==
  /\ pc = "ghsa"
  /\ ~MoreToFetch \/ RateLimits
  /\ marker' = clock
  /\ lost' = lost \cup Unread
  /\ pc' = AfterGhsa
  /\ UNCHANGED <<upstream, disk, control, collected, catalog, tombs,
                 newest, cursor, pages, todo, queue, cur, emitted>>

\* The loop ends (no next link, page cap, or break on HTTP 403/429) and the
\* checkpoint takes the newest revision seen on any page.
GhsaDone ==
  /\ pc = "ghsa"
  /\ ~MoreToFetch \/ RateLimits
  /\ marker' = newest
  /\ lost' = lost \cup Unread
  /\ pc' = AfterGhsa
  /\ UNCHANGED <<upstream, disk, control, collected, catalog, tombs,
                 newest, cursor, pages, todo, queue, cur, emitted>>

\* A failed request, or an advisory whose fields the loop body trips over,
\* ends the feed for this run: what was appended before stays, the checkpoint
\* is not touched.
GhsaFail ==
  /\ pc = "ghsa" /\ MoreToFetch
  /\ \/ ApiErrors /\ UNCHANGED <<collected, lost, catalog>>
     \/ \E bad \in Newest(PageSize) \cap Poison :
          /\ \A b \in Listing \cap Poison : upd[b] <= upd[bad]
          /\ IngestAdvisories({a \in Listing : upd[a] > upd[bad]})
  /\ pc' = AfterGhsa
  /\ UNCHANGED <<upstream, disk, control, marker, tombs, newest, cursor,
                 pages, todo, queue, cur, emitted>>

-----------------------------------------------------------------------------
(* Stage 6, OSV.dev: packages with a malicious record become tombstones,    *)
(* the rest are queried in batches when should_query says so.               *)
ShouldQuery(p, moved) ==
  \/ catalog[p].at \in {-1, 0}
  \/ p \in moved
  \/ clock - catalog[p].at > TTL

\* moved: the packages whose catalogued version differs from the one audited.
OsvSelect ==
  /\ pc = "osvSelect"
  /\ tombs' = tombs \cup Malicious
  /\ quarantine' = quarantine \cup Malicious
  /\ catalog' = [p \in Packages |-> IF p \in Malicious THEN NoRecord
                                                       ELSE catalog[p]]
  /\ \E moved \in SUBSET Packages :
       todo' = {p \in Packages \ (tombs \cup Malicious) :
                  ShouldQuery(p, moved)}
  /\ pc' = "osvBatch"
  /\ UNCHANGED <<upstream, files, index, stateFile,
                 catFile, tombFile, control, collected, marker, newest,
                 cursor, pages, queue, cur, emitted, lost>>

Chunk(S) == /\ S \subseteq todo /\ S # {}
            /\ S = todo \/ Cardinality(S) = BatchSize
            /\ Cardinality(S) <= BatchSize

Found(p) == {a \in Relevant : p \in Affects[a] /\ mirror[a] > 0}

\* Mutant: the findings are noted in the catalog but not collected.
OsvBatchNotCollected(S) ==
  /\ pc = "osvBatch" /\ Chunk(S)
  /\ catalog' = [p \in Packages |->
       IF p \in S THEN [at |-> clock, known |-> catalog[p].known \cup Found(p)]
                  ELSE catalog[p]]
  /\ todo' = todo \ S
  /\ UNCHANGED <<upstream, disk, pc, control, collected, marker, tombs,
                 newest, cursor, pages, queue, cur, emitted, lost>>

OsvBatch(S) ==
  /\ pc = "osvBatch" /\ Chunk(S)
  /\ Collect(Records(UNION {Found(p) : p \in S}, mirror))
  /\ catalog' = [p \in Packages |->
       IF p \in S THEN [at |-> clock, known |-> catalog[p].known \cup Found(p)]
                  ELSE catalog[p]]
  /\ todo' = todo \ S
  /\ UNCHANGED <<upstream, disk, pc, control, marker, tombs, newest,
                 cursor, pages, queue, cur, emitted>>

OsvBatchFail(S) ==
  /\ pc = "osvBatch" /\ Chunk(S) /\ ApiErrors
  /\ todo' = todo \ S
  /\ UNCHANGED <<upstream, disk, pc, control, collected, marker, catalog,
                 tombs, newest, cursor, pages, queue, cur, emitted, lost>>

OsvBatchesDone ==
  /\ pc = "osvBatch" /\ todo = {}
  /\ pc' = "osvSave"
  /\ UNCHANGED <<upstream, disk, memory, lost>>

\* McpCatalogState.save: temp file and os.replace; any exception is swallowed.
CatalogSave ==
  /\ pc = "osvSave"
  /\ \/ catFile' = catalog /\ tombFile' = tombs
     \/ SaveFaults /\ UNCHANGED <<catFile, tombFile>>
  /\ pc' = "rescan"
  /\ UNCHANGED <<upstream, files, index, stateFile,
                 quarantine, memory, lost>>

-----------------------------------------------------------------------------
\* Feeds without a marker are read whole in every run; a failing one
\* delivers only part of what it has.
IngestRescan ==
  /\ pc = "rescan"
  /\ LET all == {i \in Rescan \cap Relevant : upd[i] > 0} IN
     \E got \in SUBSET all : /\ got = all \/ ApiErrors
                             /\ Collect(Records(got, upd))
  /\ pc' = "fuse"
  /\ UNCHANGED <<upstream, disk, control, marker, catalog, tombs, newest,
                 cursor, pages, todo, queue, cur, emitted>>

Fuse ==
  /\ pc = "fuse"
  /\ queue' = {c \in Ids : Fused(c) # {}}
  /\ pc' = "emit"
  /\ UNCHANGED <<upstream, disk, control, collected, marker, catalog,
                 tombs, newest, cursor, pages, todo, cur, emitted, lost>>

\* write_text truncates the file when it opens it and fills it when it closes.
OpenAdvisory(c) ==
  /\ pc = "emit" /\ c \in queue \cap Valid
  /\ files' = [files EXCEPT ![c].st = "torn"]
  /\ cur' = {c}
  /\ pc' = "write"
  /\ UNCHANGED <<upstream, index, stateFile, catFile,
                 tombFile, quarantine, control, collected, marker, catalog,
                 tombs, newest, cursor, pages, todo, queue, emitted, lost>>

WriteAdvisory ==
  /\ pc = "write"
  /\ files' = [c \in Ids |-> IF c \in cur
                              THEN [st |-> "ok", parts |-> Fused(c)]
                              ELSE files[c]]
  /\ emitted' = emitted \cup cur
  /\ queue' = queue \ cur
  /\ cur' = {}
  /\ pc' = "emit"
  /\ UNCHANGED <<upstream, index, stateFile, catFile, tombFile, quarantine,
                 control, collected, marker, catalog, tombs, newest, cursor,
                 pages, todo, lost>>

RejectAdvisory(c) ==
  /\ pc = "emit" /\ c \in queue \ Valid
  /\ queue' = queue \ {c}
  /\ lost' = lost \cup Fused(c)
  /\ UNCHANGED <<upstream, disk, pc, control, collected, marker, catalog,
                 tombs, newest, cursor, pages, todo, cur, emitted>>

\* Mutant: the checkpoints are saved without replacing the index.
EmitDoneNoIndex ==
  /\ pc = "emit" /\ queue = {}
  /\ pc' = "saveOpen"
  /\ UNCHANGED <<upstream, disk, memory, lost>>

EmitDone ==
  /\ pc = "emit" /\ queue = {}
  /\ pc' = "index"
  /\ UNCHANGED <<upstream, disk, memory, lost>>

\* index.json.tmp is written and renamed over index.json.
WriteIndex ==
  /\ pc = "index"
  /\ index' = emitted
  /\ pc' = "saveOpen"
  /\ UNCHANGED <<upstream, files, stateFile, catFile, tombFile,
                 quarantine, memory, lost>>

\* SyncStateManager.save: write_text again, so the old checkpoints are gone
\* before the new ones are there.
OpenState ==
  /\ pc = "saveOpen"
  /\ stateFile' = [stateFile EXCEPT !.torn = TRUE]
  /\ pc' = "saveWrite"
  /\ UNCHANGED <<upstream, files, index, catFile,
                 tombFile, quarantine, memory, lost>>

WriteState ==
  /\ pc = "saveWrite"
  /\ stateFile' = [torn |-> FALSE, ghsa |-> marker]
  /\ pc' = "idle" /\ Blank
  /\ UNCHANGED <<upstream, files, index, catFile, tombFile,
                 quarantine, lost>>

\* The process dies; what only memory held is gone, and the file it had open
\* stays truncated.
Crash ==
  /\ Crashes /\ pc # "idle"
  /\ lost' = lost \cup UNION {files[c].parts : c \in cur}
  /\ pc' = "idle" /\ Blank
  /\ UNCHANGED <<upstream, disk>>

Run == \/ Preload \/ IngestLocal
       \/ GhsaPage \/ GhsaDone \/ GhsaFail
       \/ OsvSelect \/ OsvBatchesDone \/ CatalogSave
       \/ \E S \in SUBSET Packages : OsvBatch(S) \/ OsvBatchFail(S)
       \/ IngestRescan \/ Fuse
       \/ \E c \in Ids : OpenAdvisory(c) \/ RejectAdvisory(c)
       \/ WriteAdvisory \/ EmitDone
       \/ WriteIndex \/ OpenState \/ WriteState

Next == \/ \E i \in Ids : Publish(i) \/ Mirror(i)
        \/ \E r, o \in BOOLEAN : Start(r, o)
        \/ Run
        \/ Crash

Spec == Init /\ [][Next]_vars

\* cron restarts the sync, the process does not hang, and GitHub answers some
\* of the requests it gets.
Fairness == /\ WF_vars(\E o \in BOOLEAN : Start(FALSE, o)) /\ WF_vars(Run)
            /\ SF_vars(GhsaPage)

FairSpec == Spec /\ Fairness

-----------------------------------------------------------------------------
DurableMarker == IF stateFile.torn THEN 0 ELSE stateFile.ghsa

OnDisk(a) == /\ files[Canon[a]].st = "ok"
             /\ <<a, upd[a]>> \in files[Canon[a]].parts

\* The GHSA advisories the saved checkpoint tells later runs not to fetch.
Checkpointed == {a \in Ghsa \cap Relevant :
                   0 < upd[a] /\ upd[a] < DurableMarker}

(* Every revision the saved GHSA checkpoint skips is in its advisory file,  *)
(* unless a run listed it and let it go: pages cut short, a same-id record  *)
(* from another feed, a failed validation, a reset, or a file torn by a     *)
(* crash.  No crash point makes the checkpoint run ahead of the files       *)
(* (pipeline.py writes every advisory before state_manager.save()).         *)
CheckpointAccounted ==
  pc = "idle" =>
    \A a \in Checkpointed : OnDisk(a) \/ <<a, upd[a]>> \in lost

(* The same without the excuses: what the checkpoint skips is stored.       *)
CheckpointStored == pc = "idle" => \A a \in Checkpointed : OnDisk(a)

(* A catalog record that still counts as audited was queried after every    *)
(* GHSA revision of its package that the checkpoint skips: mark_stale in    *)
(* one file and the marker in the other survive a crash together.           *)
AuditedSinceAdvisory ==
  pc = "idle" =>
    \A a \in Checkpointed : \A p \in Affects[a] :
      catFile[p].at > 0 => \/ catFile[p].at >= upd[a]
                           \/ <<a, upd[a]>> \in lost

(* The vulnerabilities a saved catalog record lists are in the advisory     *)
(* directory: an audit is not remembered without its findings.              *)
KnownStored ==
  pc = "idle" =>
    \A p \in Packages : \A a \in catFile[p].known :
      /\ files[Canon[a]].st = "ok"
      /\ \E part \in files[Canon[a]].parts : part[1] = a

(* What the checkpoint skips is listed in index.json too (or was let go):   *)
(* the index a run replaces is never behind the checkpoint it saves.        *)
CheckpointIndexed ==
  pc = "idle" =>
    \A a \in Checkpointed : Canon[a] \in index \/ <<a, upd[a]>> \in lost

(* Every published GHSA revision is stored in an advisory file, or revised  *)
(* again first: failed requests are repeated by a later run.                *)
EventuallyStored ==
  \A a \in Ghsa \cap Relevant : \A r \in Clock \ {0} :
    upd[a] = r ~> (OnDisk(a) \/ upd[a] # r)
=============================================================================

------------------------------ MODULE CveFeeds ------------------------------
(***************************************************************************)
(* The two CVE List feeds of one pipeline run after another: the scan of a *)
(* local clone, resumed by a file name and a time, and the delta over the  *)
(* newest commits, resumed by a commit (McpVulnerabilityPipeline.run,      *)
(* SyncStateManager).  Between and during the runs the clone is updated    *)
(* and upstream commits; a run may die at any step.                        *)
(*                                                                         *)
(* Files and commits are numbers: the order of the path names, and the     *)
(* order upstream.  A revision of a file is the time it was written.       *)
(***************************************************************************)
EXTENDS Naturals

CONSTANTS
  Files,       \* the CVE files of the clone, a set of positive numbers
  PerPage,     \* per_page of the commit list
  MaxEvents,   \* bound: writes to the clone and commits upstream
  MaxCommits,  \* bound: commits upstream
  Crashes      \* may a run die?

CveFeedsAssumption ==
  /\ Files \subseteq Nat \ {0}
  /\ PerPage \in Nat \ {0} /\ MaxEvents \in Nat /\ MaxCommits \in Nat
  /\ Crashes \in BOOLEAN

VARIABLES
  clock,       \* the time of the last write
  mtime,       \* when each file was written, 0 if it is not there yet
  head,        \* the newest commit upstream
  disk,        \* sync_state.json: marker and scan of cvelist_v5, head of cvelist_delta
  pc,          \* stage of the run, "idle" between runs
  state,       \* state_manager.state
  todo,        \* files of all_json_files the loop has not come to
  seen,        \* last_seen_marker
  page,        \* commits of the list the loop has not come to
  newest,      \* newest_head_sha
  got,         \* history: revisions <<file, time>> and commits collected in this run
  kept,        \* history: those of runs that came to their save
  excused      \* history: what a run passed over

diskVars == <<disk, kept>>
upstream == <<clock, mtime, head>>
scanVars == <<todo, seen>>
pageVars == <<page, newest>>
vars == <<upstream, diskVars, pc, state, scanVars, pageVars, got, excused>>

Revision(f) == <<"file", f, mtime[f]>>
Commit(c)   == <<"commit", c, 0>>
Items       == {"file", "commit"} \X Nat \X Nat
NoState     == [marker |-> 0, scan |-> 0, head |-> 0]

TypeOK ==
  /\ clock \in 0..MaxEvents /\ mtime \in [Files -> 0..clock] /\ head \in 0..MaxEvents
  /\ \A s \in {disk, state} :
       /\ s.marker \in Files \cup {0} /\ s.scan \in 0..clock
       /\ s.head \in 0..head
  /\ pc \in {"idle", "scan", "list", "commits", "stamp", "save"}
  /\ todo \subseteq Files /\ seen \in Files \cup {0}
  /\ page \subseteq 1..head /\ newest \in 0..head
  /\ got \subseteq Items /\ kept \subseteq Items
  /\ excused \subseteq Items

Init ==
  /\ clock = 0 /\ mtime = [f \in Files |-> 0] /\ head = 0
  /\ disk = NoState /\ kept = {} /\ state = NoState /\ pc = "idle"
  /\ todo = {} /\ seen = 0 /\ page = {} /\ newest = 0
  /\ got = {} /\ excused = {}

First(S) == CHOOSE s \in S : \A r \in S : s <= r
Last(S)  == CHOOSE s \in S : \A r \in S : s >= r

Excuse(items) == excused' = excused \cup items

-----------------------------------------------------------------------------
(* Upstream.                                                               *)

\* A pull writes files.  One that the scan has passed, or did not list, has
\* been written before the stamp that will cover it.
Pull(written) ==
  /\ clock + head < MaxEvents
  /\ clock' = clock + 1
  /\ mtime' = [f \in Files |-> IF f \in written THEN clock + 1 ELSE mtime[f]]
  /\ IF pc = "scan" THEN Excuse({<<"file", f, clock + 1>> : f \in written \ todo})
                    ELSE UNCHANGED excused
  /\ UNCHANGED <<head, diskVars, pc, state, scanVars, pageVars, got>>

Push ==
  /\ clock + head < MaxEvents /\ head < MaxCommits
  /\ head' = head + 1
  /\ UNCHANGED <<clock, mtime, diskVars, pc, state, scanVars, pageVars, got, excused>>

-----------------------------------------------------------------------------
(* The scan of the clone.                                                  *)

\* The run loads its state and lists the files, sorted; each feed is optional.
Start ==
  /\ pc = "idle"
  /\ pc' \in {"scan", "list"} /\ state' = disk
  /\ todo' = {f \in Files : mtime[f] > 0} /\ seen' = disk.marker
  /\ got' = {}
  /\ UNCHANGED <<upstream, diskVars, pageVars, excused>>

\* Mutant: no look at the modification time.
SkipUpToMarker(f) == f <= state.marker

Skip(f) == f <= state.marker /\ mtime[f] <= state.scan

AtFile(f) == pc = "scan" /\ todo # {} /\ f = First(todo) /\ todo' = todo \ {f}

SkipFile(f) ==
  /\ AtFile(f) /\ Skip(f)
  /\ UNCHANGED <<upstream, diskVars, pc, state, seen, pageVars, got, excused>>

ReadFile(f) ==
  /\ AtFile(f) /\ ~Skip(f)
  /\ seen' = f /\ got' = got \cup {Revision(f)}
  /\ UNCHANGED <<upstream, diskVars, pc, state, pageVars, excused>>

\* The marker has moved before the file turns out not to parse.
ReadFails(f) ==
  /\ AtFile(f) /\ ~Skip(f)
  /\ seen' = f /\ Excuse({Revision(f)})
  /\ UNCHANGED <<upstream, diskVars, pc, state, pageVars, got>>

\* update_checkpoint stamps the time at the end of the scan: what was written
\* until then is not newer.
StampScan ==
  /\ pc = "scan" /\ todo = {}
  /\ pc' = "list"
  /\ state' = [state EXCEPT !.marker = seen, !.scan = clock]
  /\ UNCHANGED <<upstream, diskVars, scanVars, pageVars, got, excused>>

-----------------------------------------------------------------------------
(* The delta over the newest commits.                                      *)

\* The commits newer than the marker, and no more than a page of them.
ListCommits ==
  /\ pc = "list"
  /\ pc' = "commits" /\ newest' = IF head = 0 THEN state.head ELSE head
  /\ LET unseen == state.head + 1..head
         listed == {c \in unseen : c + PerPage > head}
     IN  page' = listed /\ Excuse({Commit(c) : c \in unseen \ listed})
  /\ UNCHANGED <<upstream, diskVars, state, scanVars, got>>

\* A rate limit on the list leaves the marker, any other error ends the stage.
ListFails ==
  /\ pc = "list"
  /\ \E next \in {"stamp", "save"} : pc' = next
  /\ newest' = state.head /\ page' = {}
  /\ UNCHANGED <<upstream, diskVars, state, scanVars, got, excused>>

AtCommit(c) == pc = "commits" /\ page # {} /\ c = Last(page)

ReadCommit(c) ==
  /\ AtCommit(c)
  /\ page' = page \ {c} /\ got' = got \cup {Commit(c)}
  /\ UNCHANGED <<upstream, diskVars, pc, state, scanVars, newest, excused>>

\* A file of the commit cannot be fetched or parsed: logged and passed over.
RawFails(c) ==
  /\ AtCommit(c)
  /\ page' = page \ {c} /\ Excuse({Commit(c)})
  /\ UNCHANGED <<upstream, diskVars, pc, state, scanVars, newest, got>>

\* A rate limit ends the loop, and the newest commit becomes the marker.
RateLimited(c) ==
  /\ AtCommit(c)
  /\ page' = {} /\ Excuse({Commit(d) : d \in page})
  /\ UNCHANGED <<upstream, diskVars, pc, state, scanVars, newest, got>>

\* Any other error ends the stage before update_checkpoint.
CommitFails(c) ==
  /\ AtCommit(c)
  /\ pc' = "save" /\ page' = {}
  /\ UNCHANGED <<upstream, diskVars, state, scanVars, newest, got, excused>>

CommitsDone ==
  /\ pc = "commits" /\ page = {}
  /\ pc' = "stamp"
  /\ UNCHANGED <<upstream, diskVars, state, scanVars, pageVars, got, excused>>

StampHead ==
  /\ pc = "stamp"
  /\ pc' = "save" /\ state' = [state EXCEPT !.head = newest]
  /\ UNCHANGED <<upstream, diskVars, scanVars, pageVars, got, excused>>

-----------------------------------------------------------------------------
(* The end of a run: advisories first, then sync_state.json.               *)

End ==
  /\ pc' = "idle" /\ state' = NoState
  /\ todo' = {} /\ seen' = 0 /\ page' = {} /\ newest' = 0 /\ got' = {}

Save ==
  /\ pc = "save"
  /\ kept' = kept \cup got /\ disk' = state /\ End
  /\ UNCHANGED <<upstream, excused>>

\* A run that dies in the save leaves a file that loads as a fresh state.
SaveTorn ==
  /\ pc = "save" /\ Crashes
  /\ kept' = kept \cup got /\ disk' = NoState /\ End
  /\ UNCHANGED <<upstream, excused>>

Crash ==
  /\ pc # "idle" /\ Crashes /\ End
  /\ UNCHANGED <<upstream, diskVars, excused>>

Step == \/ \E f \in Files : SkipFile(f) \/ ReadFile(f) \/ ReadFails(f)
        \/ StampScan \/ ListCommits \/ ListFails
        \/ \E c \in 1..MaxEvents : ReadCommit(c) \/ RawFails(c) \/ RateLimited(c) \/ CommitFails(c)
        \/ CommitsDone \/ StampHead \/ Save
Next == Start \/ Step \/ SaveTorn \/ Crash \/ Push \/ \E written \in (SUBSET Files) \ {{}} : Pull(written)

Spec == Init /\ [][Next]_vars

-----------------------------------------------------------------------------
(* Properties.                                                             *)

\* What the next scan will skip was collected by a run that came to its end,
\* did not parse when it was its turn, or was written behind the scan.
ScanAccounted ==
  \A f \in Files :
    mtime[f] > 0 /\ f <= disk.marker /\ mtime[f] <= disk.scan =>
      Revision(f) \in kept \cup excused

\* A commit the delta will not list again was collected, could not be
\* fetched, met a rate limit, or was more than a page behind.
DeltaAccounted ==
  \A c \in 1..disk.head :
    Commit(c) \in kept \cup excused

\* Work is bounded: a file that was collected and not written since is read
\* again only after the marker moved back, to a file that was.
RereadOnlyBehind ==
  \A f \in Files :
       ReadFile(f) /\ Revision(f) \in kept => f > state.marker

=============================================================================

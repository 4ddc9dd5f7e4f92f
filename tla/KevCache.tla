------------------------------ MODULE KevCache ------------------------------
(***************************************************************************)
(* The CISA KEV client (threat_intel/cisa_kev.py): a conditional download  *)
(* of the catalogue, two files that the processes of one data directory    *)
(* share, and the records each keeps in memory.  A process may die at any  *)
(* step and starts again with empty memory.                                *)
(*                                                                         *)
(* A version of the catalogue is a number and stands for its ETag; 0 is no *)
(* version.  The body of a version in `broken' is not JSON.                *)
(***************************************************************************)
EXTENDS Integers

CONSTANTS
  Clients,               \* processes
  MaxVersion             \* bound: versions published upstream

KevCacheAssumption == MaxVersion \in Nat

VARIABLES
  up, broken,            \* upstream: the current version, those with a broken body
  meta, cache,           \* the two files
  records, loaded,       \* per process: the version of _records, _loaded
  pc, body,              \* per process: stage of sync(), the body received
  alone,                 \* history: has the download been the only one?
  mixed,                 \* history: did the last one to end overlap, or die half-way?
  told                   \* history, per process: the version its last sync() was told
                         \*   is not modified, over two files that belong together; or 0

files == <<meta, cache>>
mem   == <<records, loaded>>
vars  == <<up, broken, files, mem, pc, body, alone, mixed, told>>

Torn == -1               \* a file that a dying process left cut short

TypeOK ==
  /\ up \in 0..MaxVersion /\ broken \subseteq 1..up
  /\ meta \in Torn..up /\ cache \in Torn..up
  /\ records \in [Clients -> 0..up] /\ loaded \in [Clients -> BOOLEAN]
  /\ pc \in [Clients -> {"idle", "meta", "cache", "parse"}] /\ body \in [Clients -> 0..up]
  /\ alone \in [Clients -> BOOLEAN] /\ mixed \in BOOLEAN /\ told \in [Clients -> 0..up]

Init ==
  /\ up = 0 /\ broken = {} /\ meta = 0 /\ cache = 0
  /\ records = [c \in Clients |-> 0] /\ loaded = [c \in Clients |-> FALSE]
  /\ pc = [c \in Clients |-> "idle"] /\ body = [c \in Clients |-> 0]
  /\ alone = [c \in Clients |-> TRUE] /\ mixed = FALSE /\ told = [c \in Clients |-> 0]

Publish(ok) ==
  /\ up < MaxVersion
  /\ up' = up + 1 /\ broken' = IF ok THEN broken ELSE broken \cup {up + 1}
  /\ UNCHANGED <<files, mem, pc, body, alone, mixed, told>>

Writing == {c \in Clients : pc[c] \in {"meta", "cache"}}
GoTo(c, stage) == pc' = [pc EXCEPT ![c] = stage]

\* _parse_and_load.
Load(c, version) ==
  records' = [records EXCEPT ![c] = version] /\ loaded' = [loaded EXCEPT ![c] = TRUE]

\* _load_from_cache: a missing or unreadable file leaves the memory alone.
LoadFromCache(c) ==
  IF cache \notin broken \cup {0, Torn} THEN Load(c, cache) ELSE UNCHANGED mem

-----------------------------------------------------------------------------
(* sync().                                                                 *)

FetchFails(c) ==
  /\ pc[c] = "idle" /\ LoadFromCache(c)
  /\ told' = [told EXCEPT ![c] = 0]
  /\ UNCHANGED <<up, broken, files, pc, body, alone, mixed>>

\* The server compares the ETag of the meta file, if that one parses.
NotModified(c) ==
  /\ pc[c] = "idle" /\ up > 0 /\ meta = up /\ LoadFromCache(c)
  /\ told' = [told EXCEPT ![c] = IF Writing = {} /\ ~mixed THEN up ELSE 0]
  /\ UNCHANGED <<up, broken, files, pc, body, alone, mixed>>

Fetch(c) ==
  /\ pc[c] = "idle" /\ up > 0 /\ meta # up
  /\ GoTo(c, "meta") /\ body' = [body EXCEPT ![c] = up]
  /\ alone' = [d \in Clients |-> d \notin Writing \cup {c} \/ (d = c /\ Writing = {})]
  /\ told' = [told EXCEPT ![c] = 0]
  /\ UNCHANGED <<up, broken, files, mem, mixed>>

WriteMeta(c) ==
  /\ pc[c] = "meta" /\ GoTo(c, "cache") /\ meta' = body[c]
  /\ UNCHANGED <<up, broken, cache, mem, body, alone, mixed, told>>

WriteCache(c) ==
  /\ pc[c] = "cache" /\ GoTo(c, "parse") /\ cache' = body[c]
  /\ mixed' = ~alone[c]
  /\ UNCHANGED <<up, broken, meta, mem, body, alone, told>>

\* A body that does not parse sends sync() to the file it was just saved in.
Parse(c) ==
  /\ pc[c] = "parse" /\ GoTo(c, "idle")
  /\ IF body[c] \in broken THEN LoadFromCache(c) ELSE Load(c, body[c])
  /\ body' = [body EXCEPT ![c] = 0] /\ alone' = [alone EXCEPT ![c] = TRUE]
  /\ UNCHANGED <<up, broken, files, mixed, told>>

-----------------------------------------------------------------------------

\* get_record, is_known_exploited, get_all_cves.
Lookup(c) ==
  /\ pc[c] = "idle" /\ ~loaded[c] /\ LoadFromCache(c)
  /\ UNCHANGED <<up, broken, files, pc, body, alone, mixed, told>>

Die(c) ==
  /\ GoTo(c, "idle") /\ body' = [body EXCEPT ![c] = 0] /\ alone' = [alone EXCEPT ![c] = TRUE]
  /\ records' = [records EXCEPT ![c] = 0] /\ loaded' = [loaded EXCEPT ![c] = FALSE]
  /\ \/ UNCHANGED files
     \/ pc[c] = "meta" /\ meta' = Torn /\ UNCHANGED cache
     \/ pc[c] = "cache" /\ cache' = Torn /\ UNCHANGED meta
  /\ mixed' = (mixed \/ pc[c] = "cache")
  /\ told' = [told EXCEPT ![c] = 0]
  /\ UNCHANGED <<up, broken>>

Next ==
  \/ \E ok \in BOOLEAN : Publish(ok)
  \/ \E c \in Clients :
       FetchFails(c) \/ NotModified(c) \/ Fetch(c) \/ WriteMeta(c) \/ WriteCache(c)
         \/ Parse(c) \/ Lookup(c) \/ Die(c)

Spec == Init /\ [][Next]_vars

-----------------------------------------------------------------------------

\* The ETag that is sent back names the body in the cache file, unless the
\* last download overlapped another or died between the two writes.
EtagNamesCache == Writing = {} /\ ~mixed /\ meta # Torn => cache = meta

\* A "not modified" left the client with the version upstream had, unless that
\* one was broken or the two files did not belong together: then the client
\* answers from what it had for as long as upstream does not change.
NotModifiedIsCurrent ==
  \A c \in Clients : told[c] # 0 => records[c] = told[c] \/ told[c] \in broken

\* Without overlap or death, memory never goes back to an older catalogue.
NeverOlder ==
  \A c \in Clients : ~Die(c) /\ Writing \subseteq {c} /\ ~mixed => records'[c] >= records[c]

=============================================================================

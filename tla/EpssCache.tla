----------------------------- MODULE EpssCache -----------------------------
(***************************************************************************)
(* The EPSS client (threat/epss.py): one file of scores with one time of   *)
(* the last fetch for all of them.  A score is the day upstream published  *)
(* it; time passes in steps and upstream publishes at every step.          *)
(***************************************************************************)
EXTENDS Integers

CONSTANTS
  Cves,          \* the ids the program asks for
  Listed,        \* those upstream has a score for
  Ttl,           \* 24 hours, in steps
  MaxNow         \* bound: steps

EpssCacheAssumption ==
  Listed \subseteq Cves /\ Ttl \in Nat \ {0} /\ MaxNow \in Nat

VARIABLES
  now,
  cache,         \* _cache: time of the last fetch, and the day of each score
  disk,          \* cache_file
  answer, at,    \* what the last get_scores returned, and when
  list, one,     \* history: the ids asked for last, were they always these?
  learned        \* history: ids with a score that should outlive an outage

asks == <<answer, at, list, one>>
vars == <<now, cache, disk, asks, learned>>

Never  == -1     \* no score; and the time of a fetch that never was
Scores == [Cves -> Never..MaxNow]
Empty  == [sync |-> Never - Ttl, scores |-> [i \in Cves |-> Never]]
Caches == [sync : Empty.sync..MaxNow, scores : Scores]

TypeOK ==
  /\ now \in 0..MaxNow /\ cache \in Caches /\ disk \in Caches
  /\ answer \in Scores /\ at \in 0..now /\ list \subseteq Cves /\ one \in BOOLEAN /\ learned \subseteq Cves

Init ==
  /\ now = 0 /\ cache = Empty /\ disk = Empty
  /\ answer = Empty.scores /\ at = 0 /\ list = {} /\ one = TRUE /\ learned = {}

Tick == now < MaxNow /\ now' = now + 1 /\ UNCHANGED <<cache, disk, asks, learned>>

\* Mutant: the last moment of the window counts.
CacheValidLate == now - cache.sync <= Ttl

CacheValid == now - cache.sync < Ttl

Has(c, i) == c.scores[i] # Never

Missing(ids) == {i \in ids : ~(CacheValid /\ Has(cache, i))}

\* Every missing id, in batches; a score of the answer replaces the cached one.
Fetched(ids) ==
  [sync |-> now,
   scores |-> [i \in Cves |-> IF i \in Missing(ids) \cap Listed THEN now ELSE cache.scores[i]]]

Return(ids, c) ==
  at' = now /\ answer' = [i \in Cves |-> IF i \in ids THEN c.scores[i] ELSE Never]

Ask(ids) == list' = ids /\ one' = (one /\ list \in {{}, ids})

Known(c) == {i \in Cves : Has(c, i)}

\* get_scores: all asked ids are cached and fresh.
Hit(ids) ==
  /\ ids # {} /\ Missing(ids) = {}
  /\ Return(ids, cache) /\ Ask(ids)
  /\ UNCHANGED <<now, cache, disk, learned>>

\* Every batch answers within three tries; the save may fail unnoticed, and
\* leave a file that loads as an empty cache.
Fetch(ids) ==
  /\ ids # {} /\ Missing(ids) # {}
  /\ cache' = Fetched(ids) /\ Return(ids, cache') /\ Ask(ids)
  /\ \/ disk' = cache' /\ learned' = Known(cache')
     \/ disk' \in {disk, Empty} /\ learned' = learned \cap Known(disk')
  /\ UNCHANGED now

\* A batch is given up: what the others brought is dropped, the cache answers.
Outage(ids) ==
  /\ ids # {} /\ Missing(ids) # {}
  /\ Return(ids, cache) /\ Ask(ids)
  /\ UNCHANGED <<now, cache, disk, learned>>

\* A new client loads the file.
Restart == cache' = disk /\ UNCHANGED <<now, disk, asks, learned>>

Next == Tick \/ Restart \/ \E ids \in SUBSET Cves : Hit(ids) \/ Fetch(ids) \/ Outage(ids)
Spec == Init /\ [][Next]_vars

-----------------------------------------------------------------------------

\* The 24 hours hold for a client that always asks for the same ids, all of
\* them listed: one time for all scores is then the time of each.
OneListFresh ==
  \A ids \in SUBSET Cves :
       (Hit(ids) \/ Fetch(ids)) /\ one' /\ ids \subseteq Listed
         => \A i \in ids : now - answer'[i] < Ttl

\* A score that was saved is an answer in every outage, after a restart too.
OutageAnswers ==
  \A ids \in SUBSET Cves : Outage(ids) => \A i \in ids \cap learned : answer'[i] # Never

=============================================================================

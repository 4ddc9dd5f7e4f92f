---------------------------- MODULE PassportSync ----------------------------
(***************************************************************************)
(* CrossRepoSyncManager (sync_manager.py): the passports are downloaded    *)
(* from the latest release, else from the main branch, over the local file *)
(* that the correlation then reads.  The local file is opened, and so      *)
(* emptied, before the body is read.                                       *)
(***************************************************************************)
EXTENDS Integers

CONSTANT MaxVersion        \* bound: versions of the passports upstream

PassportSyncAssumption == MaxVersion \in Nat

VARIABLES
  release, main,           \* upstream: the version of each, 0 if there is none
  target,                  \* the local file: a version, 0 missing, Cut
  pc,                      \* stage of fetch_latest_passports
  result,                  \* what the last call returned
  before,                  \* history: the local file when it was called
  broke                    \* history: did a body break off since a complete download?

upstream == <<release, main>>
vars == <<upstream, target, pc, result, before, broke>>

Cut == -1
Files == Cut..MaxVersion

TypeOK ==
  /\ release \in 0..MaxVersion /\ main \in 0..MaxVersion /\ target \in Files
  /\ pc \in {"idle", "asset", "fallback", "raw"} /\ result \in {"none", "new", "old"}
  /\ before \in Files /\ broke \in BOOLEAN

Init ==
  /\ release = 0 /\ main = 0 /\ target = 0
  /\ pc = "idle" /\ result = "none" /\ before = 0 /\ broke = FALSE

\* Versions appear on main and are released later.
Publish ==
  /\ \/ main < MaxVersion /\ main' = main + 1 /\ UNCHANGED release
     \/ release < main /\ release' = main /\ UNCHANGED main
  /\ UNCHANGED <<target, pc, result, before, broke>>

Fetch ==
  /\ pc = "idle" /\ before' = target /\ result' = "none"
  /\ \/ release > 0 /\ pc' = "asset"
     \/ pc' = "fallback"                        \* no release, no asset, rate limit, error
  /\ UNCHANGED <<upstream, target, broke>>

\* The asset is answered; its body comes in whole or breaks off.
Asset ==
  /\ pc = "asset"
  /\ \/ pc' = "idle" /\ target' = release /\ result' = "new" /\ broke' = FALSE
     \/ pc' = "fallback" /\ target' = Cut /\ broke' = TRUE /\ UNCHANGED result
  /\ UNCHANGED <<upstream, before>>

AssetFails == pc = "asset" /\ pc' = "fallback" /\ UNCHANGED <<upstream, target, result, before, broke>>

Fallback == pc = "fallback" /\ main > 0 /\ pc' = "raw" /\ UNCHANGED <<upstream, target, result, before, broke>>

\* No raw URL, a local API host, or the request fails.
FallbackFails ==
  /\ pc = "fallback" /\ pc' = "idle" /\ result' = "old"
  /\ UNCHANGED <<upstream, target, before, broke>>

Raw ==
  /\ pc = "raw" /\ pc' = "idle"
  /\ \/ target' = main /\ result' = "new" /\ broke' = FALSE
     \/ target' = Cut /\ result' = "old" /\ broke' = TRUE
  /\ UNCHANGED <<upstream, before>>

Next == Publish \/ Fetch \/ Asset \/ AssetFails \/ Fallback \/ FallbackFails \/ Raw
Spec == Init /\ [][Next]_vars

-----------------------------------------------------------------------------

\* "True" is returned for a complete file only, of a version upstream had; the
\* correlation may read it whatever happened to the calls before.
NewIsComplete == pc = "idle" /\ result = "new" => target \in 1..main

\* The local file is lost only to a body that broke off; a request that is
\* refused, times out or finds no asset leaves it.
LostToBrokenBody == target = Cut => broke

=============================================================================

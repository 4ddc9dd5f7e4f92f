----------------------------- MODULE PypaMirror -----------------------------
(***************************************************************************)
(* The PyPA stage of the pipeline (discovery/pypa.py, pipeline.py): the    *)
(* advisories of a local mirror, read again only when the digest of the    *)
(* files of the target packages differs from the one in .sync_marker.  The *)
(* marker is written in the stage, the advisories at the end of the run.   *)
(***************************************************************************)
EXTENDS Naturals

CONSTANTS
  Packages,      \* PyPI packages with an advisory file in the mirror
  Fallback,      \* the target packages of a catalogue without PyPI packages
  MaxVersion     \* bound: versions of a file

PypaAssumption == Fallback \subseteq Packages /\ MaxVersion \in Nat

VARIABLES
  version,       \* the version of each package's file, 0 if it is not there
  catalog,       \* the PyPI packages of the catalogue
  marker,        \* the files <<package, version>> .sync_marker stands for
  pc,            \* stage of the run
  digest,        \* current_sync
  got,           \* advisories in `collected'
  kept,          \* history: those of runs that came to their end
  excused        \* history: files that did not parse, or whose run died

vars == <<version, catalog, marker, pc, digest, got, kept, excused>>

Files   == Packages \X (1..MaxVersion)
Targets == IF catalog = {} THEN Fallback ELSE catalog
Present == {f \in Files : f[1] \in Targets /\ f[2] = version[f[1]]}

TypeOK ==
  /\ version \in [Packages -> 0..MaxVersion] /\ catalog \subseteq Packages
  /\ marker \subseteq Files /\ digest \subseteq Files
  /\ pc \in {"idle", "read", "store"}
  /\ got \subseteq Files /\ kept \subseteq Files /\ excused \subseteq Files

Init ==
  /\ version = [p \in Packages |-> 0] /\ catalog = {}
  /\ marker = {} /\ pc = "idle" /\ digest = {} /\ got = {}
  /\ kept = {} /\ excused = {}

Pull(p) ==
  /\ version[p] < MaxVersion /\ version' = [version EXCEPT ![p] = @ + 1]
  /\ UNCHANGED <<catalog, marker, pc, digest, got, kept, excused>>

Catalogue(p) ==
  /\ pc = "idle" /\ catalog' = catalog \cup {p}
  /\ UNCHANGED <<version, marker, pc, digest, got, kept, excused>>

-----------------------------------------------------------------------------

\* The digest is taken over the names, times and sizes, before any file is read.
Digest ==
  /\ pc = "idle" /\ Present # marker
  /\ pc' = "read" /\ digest' = Present
  /\ UNCHANGED <<version, catalog, marker, got, kept, excused>>

\* Up to date: the stage returns no advisories.
UpToDate ==
  /\ pc = "idle" /\ Present = marker
  /\ pc' = "store" /\ got' = {}
  /\ UNCHANGED <<version, catalog, marker, digest, kept, excused>>

\* The files, less those that do not parse; then the marker.
Read(broken) ==
  /\ pc = "read" /\ broken \subseteq Present
  /\ pc' = "store" /\ got' = Present \ broken /\ marker' = digest
  /\ excused' = excused \cup broken
  /\ UNCHANGED <<version, catalog, digest, kept>>

Store ==
  /\ pc = "store" /\ pc' = "idle"
  /\ kept' = kept \cup got /\ got' = {}
  /\ UNCHANGED <<version, catalog, marker, digest, excused>>

Die ==
  /\ pc # "idle" /\ pc' = "idle" /\ got' = {}
  /\ excused' = excused \cup got
  /\ UNCHANGED <<version, catalog, marker, digest, kept>>

Next ==
  \/ \E p \in Packages : Pull(p) \/ Catalogue(p)
  \/ Digest \/ UpToDate \/ Store \/ Die
  \/ \E broken \in SUBSET Present : Read(broken)

Spec == Init /\ [][Next]_vars

-----------------------------------------------------------------------------

\* What the marker stands for was kept, in that version or a later one, or did
\* not parse, or was in a run that died between the marker and its end: such
\* an advisory is not read again until some file of the targets changes.
MarkerAccounted ==
  pc # "store" =>
    \A f \in marker : \E g \in kept \cup excused : g[1] = f[1] /\ g[2] >= f[2]

=============================================================================

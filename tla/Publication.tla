---------------------------- MODULE Publication ----------------------------
(***************************************************************************)
(* What is published from the directory of advisories: the snapshot and    *)
(* its feeds, the air-gapped bundle and the OSV bucket (snapshot.py,       *)
(* feed.py).  They are read one file at a time while a synchronisation may *)
(* be rewriting advisories, written in place, and may break off anywhere.  *)
(*                                                                         *)
(* An advisory is its version, 0 before it is there; a greater id was      *)
(* published later.  A copy keeps what the directory held when its export  *)
(* began, and the advisories that could not be read then.  The advisories  *)
(* that the bundle holds beside its snapshot are left out.                 *)
(***************************************************************************)
EXTENDS Naturals, FiniteSets

CONSTANTS
  Ids, Initial,             \* advisories; those that are there to begin with
  Valid,                    \* those the validator accepts
  FeedLength,               \* entries of a feed
  MaxChanges, MaxRuns       \* bounds

PublicationAssumption ==
  /\ Ids \subseteq Nat /\ IsFiniteSet(Ids) /\ Initial \subseteq Ids /\ Valid \subseteq Ids
  /\ FeedLength \in Nat /\ MaxChanges \in Nat /\ MaxRuns \in Nat

VARIABLES
  file, torn,               \* the directory; advisories whose file is half written
  snap, atom, json,         \* vulnerabilities.json.gz, feed.atom and feed.json
  zip, manifest, tar, sum,  \* the bucket and its manifest, the bundle and its checksum
  pc, kind, todo, got,      \* an export: its step, what it makes, what it has yet to read
  changes, runs,
  ended, died               \* history: the kinds of export that ever ended, and broke off

dirVars  == <<file, torn, changes>>
copyVars == <<snap, atom, json, zip, manifest, tar, sum>>
vars == <<dirVars, copyVars, pc, kind, todo, got, runs, ended, died>>

\* "beside" is a bundle written into the directory of the snapshot.
Kinds  == {"snapshot", "bucket", "away", "beside"}
Bundle == {"away", "beside"}

Held     == [Ids -> 0..(MaxChanges + 1)]
Nothing  == [i \in Ids |-> 0]
Contents == [holds : Held, base : Held, gaps : SUBSET Ids]
Copy     == [there : {"none", "torn", "whole"}, of : Contents]
NoCopy   == [there |-> "none", of |-> [holds |-> Nothing, base |-> Nothing, gaps |-> {}]]
TornCopy == [NoCopy EXCEPT !.there = "torn"]
Whole(c) == [there |-> "whole", of |-> c]

TypeOK ==
  /\ file \in Held /\ torn \subseteq Ids
  /\ {snap, atom, json, zip, manifest, tar, sum} \subseteq Copy
  /\ pc \in {"idle", "read", "gz", "atom", "json", "manifest", "tar", "sum", "tidy"}
  /\ kind \in Kinds /\ todo \subseteq Ids /\ got \in Contents
  /\ changes \in 0..MaxChanges /\ runs \in 0..MaxRuns /\ ended \subseteq Kinds /\ died \subseteq Kinds

Init ==
  /\ file = [i \in Ids |-> IF i \in Initial THEN 1 ELSE 0] /\ torn = {} /\ changes = 0
  /\ snap = NoCopy /\ atom = NoCopy /\ json = NoCopy
  /\ zip = NoCopy /\ manifest = NoCopy /\ tar = NoCopy /\ sum = NoCopy
  /\ pc = "idle" /\ kind = "snapshot" /\ todo = {} /\ got = NoCopy.of
  /\ runs = 0 /\ ended = {} /\ died = {}

-----------------------------------------------------------------------------
(* The pipeline rewrites an advisory in place; it may die before the end.  *)

Write(i) ==
  /\ changes < MaxChanges /\ changes' = changes + 1
  /\ file' = [file EXCEPT ![i] = @ + 1] /\ torn' = torn \cup {i}
  /\ UNCHANGED <<copyVars, pc, kind, todo, got, runs, ended, died>>

Written(i) ==
  /\ i \in torn /\ torn' = torn \ {i}
  /\ UNCHANGED <<file, changes, copyVars, pc, kind, todo, got, runs, ended, died>>

-----------------------------------------------------------------------------
(* An export.                                                              *)

Keep(cs) == UNCHANGED <<dirVars, runs, died>> /\ UNCHANGED cs

\* The list of the files is made first; the archive of a bucket is open before.
Start(k) ==
  /\ pc = "idle" /\ runs < MaxRuns /\ runs' = runs + 1
  /\ kind' = k /\ pc' = "read" /\ todo' = {i \in Ids : file[i] # 0}
  /\ got' = [holds |-> Nothing, base |-> file, gaps |-> {}]
  /\ zip' = IF k = "bucket" THEN TornCopy ELSE zip
  /\ UNCHANGED <<dirVars, snap, atom, json, manifest, tar, sum, ended, died>>

\* A file that does not parse, or for a bucket is not valid, is skipped.
Read(i) ==
  /\ pc = "read" /\ i \in todo /\ \A j \in todo : i <= j
  /\ todo' = todo \ {i}
  /\ got' = CASE i \in torn -> [got EXCEPT !.gaps = @ \cup {i}]
              [] i \notin torn /\ kind = "bucket" /\ i \notin Valid -> got
              [] OTHER -> [got EXCEPT !.holds[i] = file[i]]
  /\ Keep(<<copyVars, pc, kind, ended>>)

Finish(k) == pc' = "idle" /\ ended' = ended \cup {k}

WriteZip ==
  /\ pc = "read" /\ todo = {} /\ kind = "bucket" /\ pc' = "manifest"
  /\ zip' = Whole(got)
  /\ Keep(<<snap, atom, json, manifest, tar, sum, kind, todo, got, ended>>)

\* The checksum is that of the file that is there.
WriteManifest ==
  /\ pc = "manifest" /\ Finish(kind) /\ manifest' = zip
  /\ Keep(<<snap, atom, json, zip, tar, sum, kind, todo, got>>)

\* Without advisories no feed is made; a bundle makes none.
WriteSnapshot ==
  /\ pc = "read" /\ todo = {} /\ kind # "bucket"
  /\ snap' = IF kind = "away" THEN snap ELSE Whole(got)
  /\ CASE kind \in Bundle -> pc' = "tar" /\ UNCHANGED ended
       [] kind \notin Bundle /\ got.holds # Nothing -> pc' = "atom" /\ UNCHANGED ended
       [] OTHER -> Finish(kind)
  /\ Keep(<<atom, json, zip, manifest, tar, sum, kind, todo, got>>)

\* The entries that were published last.
Newest(h) ==
  [i \in Ids |-> IF Cardinality({j \in Ids : h[j] # 0 /\ j >= i}) <= FeedLength THEN h[i] ELSE 0]
FeedOf(c) == Whole([c EXCEPT !.holds = Newest(@)])

WriteAtom ==
  /\ pc = "atom" /\ pc' = "json" /\ atom' = FeedOf(got)
  /\ Keep(<<snap, json, zip, manifest, tar, sum, kind, todo, got, ended>>)

WriteJson ==
  /\ pc = "json" /\ Finish(kind) /\ json' = FeedOf(got)
  /\ Keep(<<snap, atom, zip, manifest, tar, sum, kind, todo, got>>)

WriteTar ==
  /\ pc = "tar" /\ pc' = "sum" /\ tar' = Whole(got)
  /\ Keep(<<snap, atom, json, zip, manifest, sum, kind, todo, got, ended>>)

WriteSum ==
  /\ pc = "sum" /\ pc' = "tidy" /\ sum' = tar
  /\ Keep(<<snap, atom, json, zip, manifest, tar, kind, todo, got, ended>>)

\* A bundle removes the snapshot it was made from, whoever else uses that file.
Tidy ==
  /\ pc = "tidy" /\ Finish(kind)
  /\ snap' = IF kind = "beside" THEN NoCopy ELSE snap
  /\ Keep(<<atom, json, zip, manifest, tar, sum, kind, todo, got>>)

\* The program dies, or a feed fails: the file it writes is as it was or torn.
Die ==
  /\ pc # "idle" /\ pc' = "idle" /\ died' = died \cup {kind}
  /\ \E t \in BOOLEAN :
       LET Torn(c, at) == IF t /\ at THEN TornCopy ELSE c
       IN  /\ snap' = Torn(snap, pc = "read" /\ todo = {} /\ kind \in {"snapshot", "beside"})
           /\ atom' = Torn(atom, pc = "atom") /\ json' = Torn(json, pc = "json")
           /\ manifest' = Torn(manifest, pc = "manifest")
           /\ tar' = Torn(tar, pc = "tar") /\ sum' = Torn(sum, pc = "sum")
  /\ UNCHANGED <<dirVars, zip, kind, todo, got, runs, ended>>

Next ==
  \/ \E i \in Ids : Write(i) \/ Written(i) \/ Read(i)
  \/ \E k \in Kinds : Start(k)
  \/ WriteZip \/ WriteManifest \/ WriteSnapshot \/ WriteAtom \/ WriteJson \/ WriteTar \/ WriteSum \/ Tidy \/ Die

Spec == Init /\ [][Next]_vars

-----------------------------------------------------------------------------

\* A whole copy holds each advisory as the directory had it at some moment
\* since the export began, and leaves out only what came later or was half
\* written when it was read; the bucket also leaves out what is not valid.
Faithful(c, among) ==
  c.there = "whole" =>
    \A i \in among : IF c.of.holds[i] = 0 THEN c.of.base[i] = 0 \/ i \in c.of.gaps
                                          ELSE c.of.holds[i] \in c.of.base[i]..file[i]

CopiesFaithful ==
  Faithful(snap, Ids) /\ Faithful(tar, Ids) /\ Faithful(zip, Valid) /\ \A i \in Ids \ Valid : zip.of.holds[i] = 0

\* A sum that does not name the archive beside it is the work of an export
\* that broke off, or is under way.
Idle(ks)  == pc = "idle" \/ kind \notin ks
Names(s, archive) == s = archive /\ archive.there = "whole"
ChecksumsName ==
  /\ Idle({"bucket"}) /\ "bucket" \in ended /\ "bucket" \notin died => Names(manifest, zip)
  /\ Idle(Bundle) /\ Bundle \cap ended # {} /\ Bundle \cap died = {} => Names(sum, tar)

\* Beside a snapshot lie its own feeds, unless an export broke off; it is gone
\* only if a bundle was written beside it.
FeedsFollow ==
  Idle({"snapshot", "beside"}) /\ "snapshot" \in ended /\ died \cap {"snapshot", "beside"} = {} =>
    \/ snap.there = "none" /\ "beside" \in ended
    \/ snap.there = "whole" /\ (snap.of.holds = Nothing \/ (atom = FeedOf(snap.of) /\ json = FeedOf(snap.of)))

\* A snapshot never goes back to an older version of an advisory.
SnapshotAdvances ==
  snap.there = "whole" /\ snap'.there = "whole" =>
    \A i \in Ids : snap'.of.holds[i] >= snap.of.holds[i] \/ (snap'.of.holds[i] = 0 /\ i \in snap'.of.gaps)

=============================================================================

---------------------------- MODULE GitLabMirror ----------------------------
(***************************************************************************)
(* The mirror of the GitLab advisory database (discovery/gitlab.py): a     *)
(* sparse clone to which the ecosystems are added one by one, else an      *)
(* archive unpacked over whatever is there, else what the mirror holds.    *)
(* Every git command and every download may fail, and the run may die.     *)
(***************************************************************************)
EXTENDS Naturals

CONSTANTS
  Ecosystems,    \* target_ecosystems
  MaxHead        \* bound: revisions of the upstream repository

GitLabMirrorAssumption == MaxHead \in Nat \ {0}

VARIABLES
  head,          \* upstream revision
  base,          \* revision the clone has checked out, 0 if there is no .git
  sparse,        \* ecosystems in its sparse checkout
  tree,          \* revision of each ecosystem's files in the mirror, 0 if none
  pc,            \* step of sync_repository
  todo,          \* ecosystems not yet added
  synced,        \* history: revision that this run obtained, 0 if none
  before         \* history: base and tree when the run began

vars == <<head, base, sparse, tree, pc, todo, synced, before>>

Revisions == 0..MaxHead
Empty     == [e \in Ecosystems |-> 0]

TypeOK ==
  /\ head \in Revisions \ {0} /\ base \in Revisions
  /\ sparse \subseteq Ecosystems /\ tree \in [Ecosystems -> Revisions]
  /\ pc \in {"idle", "git", "clone", "add", "archive", "scan"}
  /\ todo \subseteq Ecosystems /\ synced \in Revisions
  /\ before \in [base : Revisions, tree : [Ecosystems -> Revisions]]

Init ==
  /\ head = 1 /\ base = 0 /\ sparse = {} /\ tree = Empty /\ pc = "idle"
  /\ todo = {} /\ synced = 0 /\ before = [base |-> 0, tree |-> Empty]

Push ==
  /\ head < MaxHead /\ head' = head + 1
  /\ UNCHANGED <<base, sparse, tree, pc, todo, synced, before>>

-----------------------------------------------------------------------------

Start ==
  /\ pc = "idle" /\ pc' = "git"
  /\ synced' = 0 /\ before' = [base |-> base, tree |-> tree]
  /\ UNCHANGED <<head, base, sparse, tree, todo>>

\* What git holds of its own is as it was checked out.
Clean == \A e \in sparse : tree[e] = base

\* git pull --rebase refuses a changed file.  Files of other ecosystems, left by
\* an archive, follow or do not, which differs between versions of git.
Pull(follow) ==
  /\ pc = "git" /\ base # 0 /\ Clean
  /\ base' = head /\ synced' = head /\ pc' = "scan"
  /\ tree' = [e \in Ecosystems |->
                IF e \in sparse \/ (e \in follow /\ tree[e] # 0) THEN head ELSE tree[e]]
  /\ UNCHANGED <<head, sparse, todo, before>>

\* A mirror that is no clone is removed before the clone is tried.
Remove ==
  /\ pc = "git" /\ base = 0
  /\ tree' = Empty /\ pc' = "clone"
  /\ UNCHANGED <<head, base, sparse, todo, synced, before>>

Clone ==
  /\ pc = "clone"
  /\ base' = head /\ sparse' = {} /\ todo' = Ecosystems /\ pc' = "add"
  /\ UNCHANGED <<head, tree, synced, before>>

\* git sparse-checkout add: the files of one more ecosystem.  The code has an
\* order for them, which decides only the names of those a failure leaves out.
Add(e) ==
  /\ pc = "add" /\ e \in todo /\ todo' = todo \ {e}
  /\ sparse' = sparse \cup {e} /\ tree' = [tree EXCEPT ![e] = base]
  /\ UNCHANGED <<head, base, pc, synced, before>>

Added ==
  /\ pc = "add" /\ todo = {}
  /\ synced' = base /\ pc' = "scan"
  /\ UNCHANGED <<head, base, sparse, tree, todo, before>>

\* Any of the commands exits with an error, or there is no git.
GitFails ==
  /\ \/ pc = "git" /\ base # 0
     \/ pc = "clone"
     \/ pc = "add" /\ todo # {}
  /\ pc' = "archive" /\ todo' = {}
  /\ UNCHANGED <<head, base, sparse, tree, synced, before>>

\* The archive is unpacked over the mirror; when that breaks off, what is
\* unpacked stays.
Unpack(done) ==
  /\ pc = "archive"
  /\ tree' = [e \in Ecosystems |-> IF e \in done THEN head ELSE tree[e]]
  /\ synced' = IF done = Ecosystems THEN head ELSE 0
  /\ pc' = "scan"
  /\ UNCHANGED <<head, base, sparse, todo, before>>

\* scan_advisories reads what is there, and the run goes on.
Scan ==
  /\ pc = "scan" /\ pc' = "idle"
  /\ UNCHANGED <<head, base, sparse, tree, todo, synced, before>>

Die ==
  /\ pc # "idle" /\ pc' = "idle" /\ todo' = {}
  /\ UNCHANGED <<head, base, sparse, tree, synced, before>>

Next ==
  \/ Push \/ Start \/ Remove \/ Clone \/ Added \/ GitFails \/ Scan \/ Die
  \/ \E follow \in SUBSET Ecosystems : Pull(follow)
  \/ \E e \in Ecosystems : Add(e)
  \/ \E done \in SUBSET Ecosystems : Unpack(done)

Spec == Init /\ [][Next]_vars

-----------------------------------------------------------------------------

\* A run that brought the mirror up to date scans every ecosystem in the
\* revision it obtained, except those that the sparse checkout of the clone has
\* never got: nothing adds them later, and each pull reports success.
SyncedIsCurrent ==
  pc = "scan" /\ synced # 0 =>
    \A e \in Ecosystems : tree[e] = synced \/ (base = synced /\ e \notin sparse)

\* A run that obtained nothing works offline with the data it had, unless these
\* came from an archive: then they were removed for the clone that failed.
OfflineKeepsData ==
  pc = "scan" /\ synced = 0 /\ before.base # 0 =>
    \A e \in Ecosystems : tree[e] >= before.tree[e]

=============================================================================

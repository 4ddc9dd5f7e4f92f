--------------------------- MODULE RemediationBot ---------------------------
(***************************************************************************)
(* `mcp-vuln remediate-pr`: RepositoryScanner (bot/scanner.py) plans the   *)
(* fixes of the configurations in a clone, and PRBuilder                   *)
(* (bot/pr_builder.py) puts each plan on a branch, with git, and opens a   *)
(* pull request for it, with gh.  Any of these commands may fail, and one  *)
(* that is run with check=True ends the program where it is.               *)
(*                                                                         *)
(* A configuration is the set of its packages that are at a safe version,  *)
(* a tree is a configuration for each file.  A branch is named after the   *)
(* packages of the plan, in order, and the second.                         *)
(***************************************************************************)
EXTENDS Naturals, Sequences, SequencesExt, FiniteSets

CONSTANTS
  Configs, Uses,        \* configuration files, the packages each uses
  MaxNow, MaxRuns       \* bounds: seconds, runs of the command

RemediationBotAssumption ==
  /\ \A c \in Configs : Uses[c] \subseteq Nat \ {0} /\ IsFiniteSet(Uses[c])
  /\ MaxNow \in Nat /\ MaxRuns \in Nat

VARIABLES
  known,            \* packages with a safe version in the vulnerability database
  main,             \* the tree on the default branch of the repository
  remote, open,     \* its other branches, those with an open pull request
  now, runs,
  local, fetched,   \* the clone: its branches, those of the repository it knows
  head, prev,       \* the branch checked out, and the one before it
  work,             \* the files; a change that is not committed is staged
  pc, plans, plan, branch, listed,    \* a run: plans left, plan in hand, its branch, gh's list
  made, missed,     \* history: plans of the last run, those it did not publish
  drafted, astray   \* history: fixes meant for each branch; a run did not start from a clean main

hubVars   == <<known, main, remote, open, now>>
cloneVars == <<local, fetched, head, prev, work>>
runVars   == <<pc, plans, plan, branch, listed, runs>>
pastVars  == <<made, missed, drafted, astray>>
vars == <<hubVars, cloneVars, runVars, pastVars>>

Packages == UNION {Uses[c] : c \in Configs}
Tree     == [Configs -> SUBSET Packages]
Plan     == [config : Configs, changes : (SUBSET Packages) \ {{}}, text : SUBSET Packages]
NoPlan   == [config |-> CHOOSE c \in Configs : TRUE, changes |-> {}, text |-> {}]
Names    == [pkgs : Seq(Packages), at : 0..MaxNow]
Main     == [pkgs |-> <<>>, at |-> 0]
Clean    == work = local[head]

TypeOK ==
  /\ known \subseteq Packages /\ main \in Tree /\ now \in 0..MaxNow /\ runs \in 0..MaxRuns
  /\ DOMAIN remote \subseteq Names /\ (\A b \in DOMAIN remote : remote[b] \in Tree)
  /\ open \subseteq DOMAIN remote
  /\ DOMAIN local \subseteq Names /\ (\A b \in DOMAIN local : local[b] \in Tree)
  /\ Main \in DOMAIN local /\ fetched \subseteq DOMAIN remote
  /\ head \in DOMAIN local /\ prev \in DOMAIN local /\ work \in Tree
  /\ pc \in {"idle", "next", "branch", "commit", "push", "pr", "back"}
  /\ plans \subseteq Plan /\ plan \in Plan \cup {NoPlan} /\ branch \in Names /\ listed \subseteq DOMAIN remote
  /\ made \subseteq Plan /\ missed \subseteq Plan /\ astray \in BOOLEAN
  /\ drafted \in [DOMAIN drafted -> Tree]

Init ==
  /\ known = {} /\ main = [c \in Configs |-> {}] /\ remote = [b \in {} |-> main] /\ open = {}
  /\ now = 0 /\ runs = 0
  /\ local = [b \in {Main} |-> main] /\ fetched = {} /\ head = Main /\ prev = Main /\ work = main
  /\ pc = "idle" /\ plans = {} /\ plan = NoPlan /\ branch = Main /\ listed = {}
  /\ made = {} /\ missed = {} /\ drafted = [b \in {} |-> main] /\ astray = FALSE

Set(f, b, t) == [x \in DOMAIN f \cup {b} |-> IF x = b THEN t ELSE f[x]]

-----------------------------------------------------------------------------
(* Around the bot.                                                         *)

Tick ==
  /\ now < MaxNow /\ now' = now + 1
  /\ UNCHANGED <<known, main, remote, open, cloneVars, runVars, pastVars>>

\* A package of some configuration becomes vulnerable, and has a fix.
Disclose ==
  /\ pc = "idle" /\ \E p \in Packages \ known : known' = known \cup {p}
  /\ UNCHANGED <<main, remote, open, now, cloneVars, runVars, pastVars>>

\* A reviewer, or auto-merge, merges a pull request; the bot may be about to
\* push to its branch, and will not open another.
Merge ==
  /\ \E b \in open :
       /\ main' = [c \in Configs |-> main[c] \cup remote[b][c]]
       /\ open' = open \ {b}
       /\ missed' = IF pc \in {"branch", "commit", "push"} /\ branch = b /\ b \in listed
                      THEN missed \cup {plan} ELSE missed
  /\ UNCHANGED <<known, remote, now, cloneVars, runVars, made, drafted, astray>>

\* A fresh clone: with every branch, or with the default branch alone.
Clone ==
  /\ pc = "idle"
  /\ local' = [b \in {Main} |-> main] /\ head' = Main /\ prev' = Main /\ work' = main
  /\ fetched' \in {{}, DOMAIN remote}
  /\ UNCHANGED <<hubVars, runVars, pastVars>>

-----------------------------------------------------------------------------
(* RepositoryScanner.generate_plans                                        *)

PlansFor(tree) ==
  {p \in Plan : /\ p.changes = (Uses[p.config] \ tree[p.config]) \cap known
                /\ p.text = tree[p.config] \cup p.changes}

Start ==
  /\ pc = "idle" /\ runs < MaxRuns /\ runs' = runs + 1
  /\ plans' = PlansFor(work) /\ made' = plans' /\ missed' = {}
  /\ pc' = IF plans' = {} THEN "idle" ELSE "next"
  /\ astray' = (astray \/ head # Main \/ ~Clean)
  /\ UNCHANGED <<hubVars, cloneVars, plan, branch, listed, drafted>>

-----------------------------------------------------------------------------
(* PRBuilder.create_or_update_pr                                           *)

\* The program ends: what is left of the run is not published.
Abort ==
  /\ pc' = "idle" /\ plans' = {} /\ plan' = NoPlan /\ branch' = Main /\ listed' = {}
  /\ missed' = missed \cup plans \cup {plan}

\* The i-th of them has i - 1 before it.
Sorted(pkgs) ==
  [i \in 1..Cardinality(pkgs) |-> CHOOSE p \in pkgs : Cardinality({q \in pkgs : q < p}) = i - 1]
NameOf(p)    == [pkgs |-> Sorted(p.changes), at |-> now]

\* Open pull requests whose branch begins like this plan's; gh may fail.
Matches(prs, p) == {b \in prs : IsPrefix(Sorted(p.changes), b.pkgs)}

Choose ==
  /\ pc = "next" /\ plans # {} /\ pc' = "branch"
  /\ plan' \in plans /\ plans' = plans \ {plan'}
  /\ listed' \in {open, {}}
  /\ LET found == Matches(listed', plan')
     IN  branch' \in IF found = {} THEN {NameOf(plan')} ELSE found
  /\ UNCHANGED <<hubVars, cloneVars, runs, pastVars>>

\* git checkout, which takes staged changes along or refuses to ...
CanSwitch(b) ==
  \A c \in Configs : work[c] = local[head][c] \/ local[b][c] = local[head][c]
Carried(b) ==
  [c \in Configs |-> IF work[c] = local[head][c] THEN local[b][c] ELSE work[c]]

Switch ==
  /\ pc = "branch" /\ pc' = "commit"
  /\ branch \in DOMAIN local /\ CanSwitch(branch)
  /\ work' = Carried(branch) /\ head' = branch /\ prev' = IF branch = head THEN prev ELSE head
  /\ UNCHANGED <<hubVars, local, fetched, plans, plan, branch, listed, runs, pastVars>>

\* ... and which finds a branch of the repository if the clone knows it.
Track ==
  /\ pc = "branch" /\ pc' = "commit"
  /\ branch \notin DOMAIN local /\ branch \in fetched /\ Clean
  /\ local' = Set(local, branch, remote[branch])
  /\ work' = remote[branch] /\ head' = branch /\ prev' = head
  /\ UNCHANGED <<hubVars, fetched, plans, plan, branch, listed, runs, pastVars>>

\* git checkout -b
Create ==
  /\ pc = "branch"
  /\ \/ branch \in DOMAIN local /\ ~CanSwitch(branch)
     \/ branch \notin DOMAIN local /\ (branch \in fetched => ~Clean)
  /\ IF branch \in DOMAIN local
       THEN /\ Abort
            /\ UNCHANGED <<cloneVars, runs>>
       ELSE /\ local' = Set(local, branch, local[head]) /\ head' = branch /\ prev' = head
            /\ pc' = "commit"
            /\ UNCHANGED <<fetched, work, plans, plan, branch, listed, runs, missed>>
  /\ UNCHANGED <<hubVars, made, drafted, astray>>

\* The file is written and added.  A commit that changes nothing fails.
Written == [work EXCEPT ![plan.config] = plan.text]

Draft(b) == IF b \in DOMAIN drafted THEN drafted[b] ELSE [c \in Configs |-> {}]

Commit ==
  /\ pc = "commit" /\ pc' = "push"
  /\ Written # local[head]
  /\ work' = Written /\ local' = [local EXCEPT ![head] = Written]
  /\ drafted' = Set(drafted, branch, [Draft(branch) EXCEPT ![plan.config] = @ \cup plan.changes])
  /\ UNCHANGED <<hubVars, fetched, head, prev, plans, plan, branch, listed, runs, made, missed, astray>>

CommitFails ==
  /\ pc = "commit" /\ Abort
  /\ work' = Written
  /\ UNCHANGED <<hubVars, local, fetched, head, prev, runs, made, drafted, astray>>

\* The repository takes a branch that it does not have or that the clone knows.
Push ==
  /\ pc = "push" /\ pc' = "pr"
  /\ branch \in DOMAIN remote => branch \in fetched
  /\ remote' = Set(remote, branch, local[branch]) /\ fetched' = fetched \cup {branch}
  /\ UNCHANGED <<known, main, open, now, local, head, prev, work, plans, plan, branch, listed, runs, pastVars>>

PushFails ==
  /\ pc = "push" /\ Abort
  /\ UNCHANGED <<hubVars, cloneVars, runs, made, drafted, astray>>

\* gh pr create, unless the list had one for the branch; that it fails is logged.
OpenPr ==
  /\ pc = "pr" /\ pc' = "back"
  /\ \/ branch \in listed /\ UNCHANGED <<open, missed>>
     \/ branch \notin listed \cup open /\ open' = open \cup {branch} /\ UNCHANGED missed
     \/ branch \notin listed /\ missed' = missed \cup {plan} /\ UNCHANGED open
  /\ UNCHANGED <<known, main, remote, now, cloneVars, plans, plan, branch, listed, runs, made, drafted, astray>>

\* git checkout -
Back ==
  /\ pc = "back" /\ pc' = IF plans = {} THEN "idle" ELSE "next"
  /\ head' = prev /\ prev' = head /\ work' = local[prev]
  /\ plan' = NoPlan /\ branch' = Main /\ listed' = {}
  /\ UNCHANGED <<hubVars, local, fetched, plans, runs, pastVars>>

Next ==
  \/ Tick \/ Disclose \/ Merge \/ Clone
  \/ Start \/ Choose \/ Switch \/ Track \/ Create
  \/ Commit \/ CommitFails \/ Push \/ PushFails \/ OpenPr \/ Back

Spec == Init /\ [][Next]_vars

-----------------------------------------------------------------------------

\* What a run planned and did not give up on a failure is in a pull request
\* that is open or was merged, whichever branch it went to.
PlansArePublished ==
  pc = "idle" =>
    \A p \in made \ missed :
      \/ p.changes \subseteq main[p.config]
      \/ \E b \in open : p.changes \subseteq remote[b][p.config]

\* As long as every run has started from a clean main, a branch holds the fixes
\* that were meant for it and nothing else.
BranchesHoldTheirOwn ==
  ~astray =>
    \A b \in DOMAIN remote : \A c \in Configs : remote[b][c] \subseteq main[c] \cup Draft(b)[c]

=============================================================================

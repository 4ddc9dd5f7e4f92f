----------------------------- MODULE Discovery -----------------------------
(***************************************************************************)
(* Discovery over the registries (discovery/orchestrator.py and the        *)
(* providers), the enricher of the catalogue it writes                     *)
(* (discovery/enricher.py), and the tombstones that keep a package out of  *)
(* every later audit (McpCatalogState).  Discovery and enricher run as two *)
(* processes over the same catalogue file.                                 *)
(***************************************************************************)
EXTENDS Naturals

CONSTANTS
  Npm, Pypi, Github, Smithery, Glama, Other,    \* the packages of each registry
  MaxChanges                   \* bound: packages given up or taken up again upstream

DiscoveryAssumption == MaxChanges \in Nat

Packages == UNION {Npm, Pypi, Github, Smithery, Glama, Other}

VARIABLES
  gone,         \* upstream: packages deprecated, yanked, archived or deleted
  everGone,     \* history: those that ever were
  changes,
  file,         \* mcp_servers.json: the servers listed
  versioned,    \* those of them with a version
  tombs,        \* tombstones in mcp_catalog_state.json
  stage,        \* discovery: the provider it asks next
  found, mem,   \* aggregated; the tombstones in memory
  seen,         \* history: what the registries listed in this pass
  enriching, copy, copied,  \* enricher: under way?  the servers and versions it read
  stale         \* history: has the file been rewritten since?

upstream == <<gone, everGone, changes>>
files    == <<file, versioned, tombs>>
pass     == <<stage, found, mem, seen>>
enricher == <<enriching, copy, copied, stale>>
vars == <<upstream, files, pass, enricher>>

Of == [npm |-> Npm, pypi |-> Pypi, github |-> Github,
       smithery |-> Smithery, glama |-> Glama, other |-> Other]
Providers == DOMAIN Of
Following == [npm |-> "pypi", pypi |-> "github", github |-> "smithery",
              smithery |-> "glama", glama |-> "other", other |-> "state"]

TypeOK ==
  /\ gone \subseteq everGone /\ everGone \subseteq Packages /\ changes \in 0..MaxChanges
  /\ versioned \subseteq file /\ file \subseteq Packages /\ tombs \subseteq Packages
  /\ stage \in Providers \cup {"idle", "state", "file"}
  /\ found \subseteq Packages /\ mem \subseteq Packages
  /\ seen \subseteq Packages
  /\ enriching \in BOOLEAN /\ copied \subseteq copy /\ copy \subseteq Packages
  /\ stale \in BOOLEAN

\* The file the repository ships was written before there were tombstones, and
\* lists PyPI packages too, most of them without a version.
Init ==
  /\ gone = {} /\ everGone = {} /\ changes = 0
  /\ file = Packages /\ versioned = file \ (Pypi \cup Github) /\ tombs = {}
  /\ stage = "idle" /\ found = {} /\ mem = {} /\ seen = {}
  /\ enriching = FALSE /\ copy = {} /\ copied = {} /\ stale = FALSE

GiveUpOrRevive(p) ==
  /\ changes < MaxChanges /\ changes' = changes + 1
  /\ gone' = IF p \in gone THEN gone \ {p} ELSE gone \cup {p}
  /\ everGone' = everGone \cup gone'
  /\ UNCHANGED <<files, pass, enricher>>

-----------------------------------------------------------------------------
(* run_discovery.                                                          *)

Start ==
  /\ stage = "idle" /\ stage' = "npm"
  /\ found' = {} /\ mem' = tombs /\ seen' = {}
  /\ UNCHANGED <<upstream, files, enricher>>

\* What a provider lists is aggregated, less what is buried.
Collect(provider, listed, buried) ==
  /\ stage = provider /\ stage' = Following[provider]
  /\ found' = found \cup (listed \ buried) /\ mem' = mem \cup buried
  /\ seen' = seen \cup listed
  /\ UNCHANGED <<upstream, files, enricher>>

\* The packages the queries bring, some of which fail; each is looked up, and
\* one whose look-up fails (not in `checked') counts as not deprecated.
DiscoverNpm(listed, checked) == checked \subseteq listed /\ Collect("npm", listed, checked \cap gone)

\* The whole index.  The packages come without a version, since discover()
\* does not resolve versions unless asked to, and one without a version is
\* taken for yanked.
DiscoverPypi(listed) == Collect("pypi", listed, listed)

\* The curated lists, each repository looked up, and the topic search, which
\* leaves out what is archived; deleted and archived ones are buried.
DiscoverGithub(listed, checked) ==
  checked \subseteq listed /\ Collect("github", listed, checked \cap gone)

DiscoverSmithery(listed) == Collect("smithery", listed, {})   \* up to the first page that fails
DiscoverGlama(listed)    == Collect("glama", listed, {})      \* only with an API key
DiscoverOther(listed)    == Collect("other", listed, {})      \* crates.io, RubyGems, Docker Hub

\* A provider that fails has found nothing; it may be switched off as well.
DiscoverNothing(provider) ==
  /\ stage = provider /\ stage' = Following[provider]
  /\ UNCHANGED <<upstream, files, found, mem, seen, enricher>>

SaveState ==
  /\ stage = "state" /\ stage' = "file" /\ tombs' = mem
  /\ UNCHANGED <<upstream, file, versioned, found, mem, seen, enricher>>

\* The file holds what this pass found, and nothing of the one before.
SaveFile ==
  /\ stage = "file" /\ stage' = "idle"
  /\ file' = found /\ versioned' = found \ Github /\ stale' = enriching
  /\ found' = {} /\ mem' = {} /\ seen' = {}
  /\ UNCHANGED <<upstream, tombs, enriching, copy, copied>>

-----------------------------------------------------------------------------
(* run_enrichment.                                                         *)

EnrichStart ==
  /\ ~enriching /\ enriching' = TRUE
  /\ copy' = file /\ copied' = versioned /\ stale' = FALSE
  /\ UNCHANGED <<upstream, files, pass>>

\* The versions that arrived, in any order, and the file replaced as a whole.
EnrichEnd(got) ==
  /\ enriching /\ enriching' = FALSE
  /\ got \subseteq copy \cap Pypi
  /\ file' = copy /\ versioned' = copied \cup got
  /\ copy' = {} /\ copied' = {} /\ stale' = FALSE
  /\ UNCHANGED <<upstream, tombs, pass>>

Next ==
  \/ Start \/ SaveState \/ SaveFile \/ EnrichStart
  \/ \E p \in Packages : GiveUpOrRevive(p)
  \/ \E provider \in Providers : DiscoverNothing(provider)
  \/ \E listed \in SUBSET Npm : \E checked \in SUBSET listed : DiscoverNpm(listed, checked)
  \/ \E listed \in SUBSET Pypi : DiscoverPypi(listed)
  \/ \E listed \in SUBSET Github : \E checked \in SUBSET listed : DiscoverGithub(listed, checked)
  \/ \E listed \in SUBSET Smithery : DiscoverSmithery(listed)
  \/ \E listed \in SUBSET Glama : DiscoverGlama(listed)
  \/ \E listed \in SUBSET Other : DiscoverOther(listed)
  \/ \E got \in SUBSET Pypi : EnrichEnd(got)

Spec == Init /\ [][Next]_vars

-----------------------------------------------------------------------------

\* A listed server is audited: it is never behind a tombstone, unless upstream
\* gave it up at some time, whatever look-ups went unanswered; PyPI excepted.
ListedAudited == (file \cap tombs) \ Pypi \subseteq everGone

\* What its registry listed and never gave up is in the catalogue after a pass,
\* whatever look-ups and other registries failed, unless it is on PyPI.  The
\* servers of a registry that does not answer are dropped until it does.
ListedIsFound == SaveFile => seen \ (everGone \cup Pypi) \subseteq file'

\* The enricher adds versions and nothing else, unless discovery has written
\* the file since it was read: then that pass is undone.
EnricherAddsVersions ==
  \A got \in SUBSET Pypi :
       EnrichEnd(got) /\ ~stale => file' = file /\ versioned \subseteq versioned'

\* What the tombstones say: a package behind one was given up upstream.
OnlyGoneBuried == tombs \subseteq everGone

=============================================================================

----------------------------- MODULE DataFiles ------------------------------
(***************************************************************************)
(* The parts of the program that keep files on disk between runs, and its  *)
(* sessions with other programs, side by side.  They share no state in the *)
(* code, so a behaviour is one of one part: `part', chosen at the start,   *)
(* says which.  Each part is an instance of its module: its constants and  *)
(* variables carry its name.                                               *)
(***************************************************************************)
EXTENDS Integers

VARIABLE part         \* which part runs

CONSTANTS
  CveFiles, CvePerPage, CveMaxEvents, CveMaxCommits, CveCrashes
VARIABLES
  cve_clock, cve_mtime, cve_head, cve_disk, cve_pc, cve_state, cve_todo,
  cve_seen, cve_page, cve_newest, cve_got, cve_kept, cve_excused
Cve == INSTANCE CveFeeds WITH
  Files <- CveFiles, PerPage <- CvePerPage, MaxEvents <- CveMaxEvents,
  MaxCommits <- CveMaxCommits, Crashes <- CveCrashes, clock <- cve_clock,
  mtime <- cve_mtime, head <- cve_head, disk <- cve_disk, pc <- cve_pc,
  state <- cve_state, todo <- cve_todo, seen <- cve_seen, page <- cve_page,
  newest <- cve_newest, got <- cve_got, kept <- cve_kept,
  excused <- cve_excused
cveVars == <<cve_clock, cve_mtime, cve_head, cve_disk, cve_pc, cve_state,
  cve_todo, cve_seen, cve_page, cve_newest, cve_got, cve_kept, cve_excused>>

CONSTANTS
  KevClients, KevMaxVersion
VARIABLES
  kev_up, kev_broken, kev_meta, kev_cache, kev_records, kev_loaded, kev_pc,
  kev_body, kev_alone, kev_mixed, kev_told
Kev == INSTANCE KevCache WITH
  Clients <- KevClients, MaxVersion <- KevMaxVersion, up <- kev_up,
  broken <- kev_broken, meta <- kev_meta, cache <- kev_cache,
  records <- kev_records, loaded <- kev_loaded, pc <- kev_pc, body <- kev_body,
  alone <- kev_alone, mixed <- kev_mixed, told <- kev_told
kevVars == <<kev_up, kev_broken, kev_meta, kev_cache, kev_records, kev_loaded,
  kev_pc, kev_body, kev_alone, kev_mixed, kev_told>>

CONSTANTS
  EpssCves, EpssListed, EpssTtl, EpssMaxNow
VARIABLES
  epss_now, epss_cache, epss_disk, epss_answer, epss_at, epss_list, epss_one,
  epss_learned
Epss == INSTANCE EpssCache WITH
  Cves <- EpssCves, Listed <- EpssListed, Ttl <- EpssTtl, MaxNow <- EpssMaxNow,
  now <- epss_now, cache <- epss_cache, disk <- epss_disk,
  answer <- epss_answer, at <- epss_at, list <- epss_list, one <- epss_one,
  learned <- epss_learned
epssVars == <<epss_now, epss_cache, epss_disk, epss_answer, epss_at, epss_list,
  epss_one, epss_learned>>

CONSTANTS
  FoundNpm, FoundPypi, FoundGithub, FoundSmithery, FoundGlama, FoundOther,
  FoundMaxChanges
VARIABLES
  found_gone, found_everGone, found_changes, found_file, found_versioned,
  found_tombs, found_stage, found_found, found_mem, found_seen,
  found_enriching, found_copy, found_copied, found_stale
Found == INSTANCE Discovery WITH
  Npm <- FoundNpm, Pypi <- FoundPypi, Github <- FoundGithub,
  Smithery <- FoundSmithery, Glama <- FoundGlama, Other <- FoundOther,
  MaxChanges <- FoundMaxChanges, gone <- found_gone,
  everGone <- found_everGone, changes <- found_changes, file <- found_file,
  versioned <- found_versioned, tombs <- found_tombs, stage <- found_stage,
  found <- found_found, mem <- found_mem, seen <- found_seen,
  enriching <- found_enriching, copy <- found_copy, copied <- found_copied,
  stale <- found_stale
foundVars == <<found_gone, found_everGone, found_changes, found_file,
  found_versioned, found_tombs, found_stage, found_found, found_mem,
  found_seen, found_enriching, found_copy, found_copied, found_stale>>

CONSTANTS
  FixerMaxWrites, FixerMaxNow
VARIABLES
  fixer_writes, fixer_now, fixer_config, fixer_backups, fixer_pc,
  fixer_patched, fixer_at, fixer_replaced, fixer_excused
Fixer == INSTANCE ConfigFixer WITH
  MaxWrites <- FixerMaxWrites, MaxNow <- FixerMaxNow, writes <- fixer_writes,
  now <- fixer_now, config <- fixer_config, backups <- fixer_backups,
  pc <- fixer_pc, patched <- fixer_patched, at <- fixer_at,
  replaced <- fixer_replaced, excused <- fixer_excused
fixerVars == <<fixer_writes, fixer_now, fixer_config, fixer_backups, fixer_pc,
  fixer_patched, fixer_at, fixer_replaced, fixer_excused>>

CONSTANTS
  PassportsMaxVersion
VARIABLES
  passports_release, passports_main, passports_target, passports_pc,
  passports_result, passports_before, passports_broke
Passports == INSTANCE PassportSync WITH
  MaxVersion <- PassportsMaxVersion, release <- passports_release,
  main <- passports_main, target <- passports_target, pc <- passports_pc,
  result <- passports_result, before <- passports_before,
  broke <- passports_broke
passportsVars == <<passports_release, passports_main, passports_target,
  passports_pc, passports_result, passports_before, passports_broke>>

CONSTANTS
  MalwareFeeds, MalwarePackages, MalwareVersions, MalwareMaxChanges
VARIABLES
  malware_upstream, malware_changes, malware_records, malware_disk,
  malware_next, malware_new, malware_saved, malware_merged
Malware == INSTANCE MalwareFeed WITH
  Feeds <- MalwareFeeds, Packages <- MalwarePackages,
  Versions <- MalwareVersions, MaxChanges <- MalwareMaxChanges,
  upstream <- malware_upstream, changes <- malware_changes,
  records <- malware_records, disk <- malware_disk, next <- malware_next,
  new <- malware_new, saved <- malware_saved, merged <- malware_merged
malwareVars == <<malware_upstream, malware_changes, malware_records,
  malware_disk, malware_next, malware_new, malware_saved, malware_merged>>

CONSTANTS
  PypaPackages, PypaFallback, PypaMaxVersion
VARIABLES
  pypa_version, pypa_catalog, pypa_marker, pypa_pc, pypa_digest, pypa_got,
  pypa_kept, pypa_excused
Pypa == INSTANCE PypaMirror WITH
  Packages <- PypaPackages, Fallback <- PypaFallback,
  MaxVersion <- PypaMaxVersion, version <- pypa_version,
  catalog <- pypa_catalog, marker <- pypa_marker, pc <- pypa_pc,
  digest <- pypa_digest, got <- pypa_got, kept <- pypa_kept,
  excused <- pypa_excused
pypaVars == <<pypa_version, pypa_catalog, pypa_marker, pypa_pc, pypa_digest,
  pypa_got, pypa_kept, pypa_excused>>

CONSTANTS
  GitlabEcosystems, GitlabMaxHead
VARIABLES
  gitlab_head, gitlab_base, gitlab_sparse, gitlab_tree, gitlab_pc, gitlab_todo,
  gitlab_synced, gitlab_before
Gitlab == INSTANCE GitLabMirror WITH
  Ecosystems <- GitlabEcosystems, MaxHead <- GitlabMaxHead,
  head <- gitlab_head, base <- gitlab_base, sparse <- gitlab_sparse,
  tree <- gitlab_tree, pc <- gitlab_pc, todo <- gitlab_todo,
  synced <- gitlab_synced, before <- gitlab_before
gitlabVars == <<gitlab_head, gitlab_base, gitlab_sparse, gitlab_tree,
  gitlab_pc, gitlab_todo, gitlab_synced, gitlab_before>>

CONSTANTS
  UpdatesMaxRelease, UpdatesMaxTotal
VARIABLES
  updates_release, updates_total, updates_history, updates_bundles, updates_pc,
  updates_entry, updates_regular
Updates == INSTANCE UpdateHistory WITH
  MaxRelease <- UpdatesMaxRelease, MaxTotal <- UpdatesMaxTotal,
  release <- updates_release, total <- updates_total,
  history <- updates_history, bundles <- updates_bundles, pc <- updates_pc,
  entry <- updates_entry, regular <- updates_regular
updatesVars == <<updates_release, updates_total, updates_history,
  updates_bundles, updates_pc, updates_entry, updates_regular>>

CONSTANTS
  GraphIds, GraphAbsent
VARIABLES
  graph_parent, graph_rank
Graph == INSTANCE AliasGraph WITH
  Ids <- GraphIds, Absent <- GraphAbsent, parent <- graph_parent,
  rank <- graph_rank
graphVars == <<graph_parent, graph_rank>>

CONSTANTS
  StoreN, StoreScored, StoreMaxBatch, StoreMaxRuns
VARIABLES
  store_files, store_index, store_batch, store_kevList, store_runs
Store == INSTANCE AdvisoryStore WITH
  N <- StoreN, Scored <- StoreScored, MaxBatch <- StoreMaxBatch,
  MaxRuns <- StoreMaxRuns, files <- store_files, index <- store_index,
  batch <- store_batch, kevList <- store_kevList, runs <- store_runs
storeVars == <<store_files, store_index, store_batch, store_kevList,
  store_runs>>

CONSTANTS
  ProbeMaxStrays
VARIABLES
  probe_kind, probe_pc, probe_asking, probe_messageId, probe_caps,
  probe_surface, probe_stopped, probe_wire, probe_owed, probe_up, probe_helper,
  probe_dangerous, probe_strays, probe_refused, probe_outcome
Probe == INSTANCE ProbeSession WITH
  Listings <- <<"tools", "prompts", "resources">>, MaxStrays <- ProbeMaxStrays,
  kind <- probe_kind, pc <- probe_pc, asking <- probe_asking,
  messageId <- probe_messageId, caps <- probe_caps, surface <- probe_surface,
  stopped <- probe_stopped, wire <- probe_wire, owed <- probe_owed,
  up <- probe_up, helper <- probe_helper, dangerous <- probe_dangerous,
  strays <- probe_strays, refused <- probe_refused, outcome <- probe_outcome
probeVars == <<probe_kind, probe_pc, probe_asking, probe_messageId, probe_caps,
  probe_surface, probe_stopped, probe_wire, probe_owed, probe_up, probe_helper,
  probe_dangerous, probe_strays, probe_refused, probe_outcome>>

CONSTANTS
  SandboxEngines
VARIABLES
  sandbox_pc, sandbox_mode, sandbox_runner, sandbox_command, sandbox_tools,
  sandbox_place, sandbox_box, sandbox_fetcher, sandbox_mishaps, sandbox_result
Sandbox == INSTANCE Sandbox WITH
  Engines <- SandboxEngines, pc <- sandbox_pc, mode <- sandbox_mode,
  runner <- sandbox_runner, command <- sandbox_command, tools <- sandbox_tools,
  place <- sandbox_place, box <- sandbox_box, fetcher <- sandbox_fetcher,
  mishaps <- sandbox_mishaps, result <- sandbox_result
sandboxVars == <<sandbox_pc, sandbox_mode, sandbox_runner, sandbox_command,
  sandbox_tools, sandbox_place, sandbox_box, sandbox_fetcher, sandbox_mishaps,
  sandbox_result>>

CONSTANTS
  BridgeClients, BridgeProgress, BridgeMaxLives
VARIABLES
  bridge_daemon, bridge_life, bridge_waits, bridge_peer, bridge_task,
  bridge_reader, bridge_sent
Bridge == INSTANCE Bridge WITH
  Clients <- BridgeClients, Progress <- BridgeProgress,
  MaxLives <- BridgeMaxLives, daemon <- bridge_daemon, life <- bridge_life,
  waits <- bridge_waits, peer <- bridge_peer, task <- bridge_task,
  reader <- bridge_reader, sent <- bridge_sent
bridgeVars == <<bridge_daemon, bridge_life, bridge_waits, bridge_peer,
  bridge_task, bridge_reader, bridge_sent>>

CONSTANTS
  BotConfigs, BotUses, BotMaxNow, BotMaxRuns
VARIABLES
  bot_known, bot_main, bot_remote, bot_open, bot_now, bot_runs, bot_local,
  bot_fetched, bot_head, bot_prev, bot_work, bot_pc, bot_plans, bot_plan,
  bot_branch, bot_listed, bot_made, bot_missed, bot_drafted, bot_astray
Bot == INSTANCE RemediationBot WITH
  Configs <- BotConfigs, Uses <- BotUses, MaxNow <- BotMaxNow,
  MaxRuns <- BotMaxRuns, known <- bot_known, main <- bot_main,
  remote <- bot_remote, open <- bot_open, now <- bot_now, runs <- bot_runs,
  local <- bot_local, fetched <- bot_fetched, head <- bot_head,
  prev <- bot_prev, work <- bot_work, pc <- bot_pc, plans <- bot_plans,
  plan <- bot_plan, branch <- bot_branch, listed <- bot_listed,
  made <- bot_made, missed <- bot_missed, drafted <- bot_drafted,
  astray <- bot_astray
botVars == <<bot_known, bot_main, bot_remote, bot_open, bot_now, bot_runs,
  bot_local, bot_fetched, bot_head, bot_prev, bot_work, bot_pc, bot_plans,
  bot_plan, bot_branch, bot_listed, bot_made, bot_missed, bot_drafted,
  bot_astray>>

CONSTANTS
  SitePackages, SitePassported, SiteEco, SiteAdvisories, SiteWorkers,
  SiteMaxChanges, SiteMaxBuilds
VARIABLES
  site_advs, site_passports, site_buried, site_malicious, site_disk, site_torn,
  site_vulns, site_index, site_shards, site_errors, site_pc, site_items,
  site_quarantine, site_loaded, site_todo, site_catalog, site_warned,
  site_changes, site_builds, site_whole, site_steady, site_flipped
Site == INSTANCE CatalogBuild WITH
  Packages <- SitePackages, Passported <- SitePassported, Eco <- SiteEco,
  Advisories <- SiteAdvisories, Workers <- SiteWorkers,
  MaxChanges <- SiteMaxChanges, MaxBuilds <- SiteMaxBuilds, advs <- site_advs,
  passports <- site_passports, buried <- site_buried,
  malicious <- site_malicious, disk <- site_disk, torn <- site_torn,
  vulns <- site_vulns, index <- site_index, shards <- site_shards,
  errors <- site_errors, pc <- site_pc, items <- site_items,
  quarantine <- site_quarantine, loaded <- site_loaded, todo <- site_todo,
  catalog <- site_catalog, warned <- site_warned, changes <- site_changes,
  builds <- site_builds, whole <- site_whole, steady <- site_steady,
  flipped <- site_flipped
siteVars == <<site_advs, site_passports, site_buried, site_malicious,
  site_disk, site_torn, site_vulns, site_index, site_shards, site_errors,
  site_pc, site_items, site_quarantine, site_loaded, site_todo, site_catalog,
  site_warned, site_changes, site_builds, site_whole, site_steady,
  site_flipped>>

CONSTANTS
  PubIds, PubInitial, PubValid, PubFeedLength, PubMaxChanges, PubMaxRuns
VARIABLES
  pub_file, pub_torn, pub_snap, pub_atom, pub_json, pub_zip, pub_manifest,
  pub_tar, pub_sum, pub_pc, pub_kind, pub_todo, pub_got, pub_changes, pub_runs,
  pub_ended, pub_died
Pub == INSTANCE Publication WITH
  Ids <- PubIds, Initial <- PubInitial, Valid <- PubValid,
  FeedLength <- PubFeedLength, MaxChanges <- PubMaxChanges,
  MaxRuns <- PubMaxRuns, file <- pub_file, torn <- pub_torn, snap <- pub_snap,
  atom <- pub_atom, json <- pub_json, zip <- pub_zip, manifest <- pub_manifest,
  tar <- pub_tar, sum <- pub_sum, pc <- pub_pc, kind <- pub_kind,
  todo <- pub_todo, got <- pub_got, changes <- pub_changes, runs <- pub_runs,
  ended <- pub_ended, died <- pub_died
pubVars == <<pub_file, pub_torn, pub_snap, pub_atom, pub_json, pub_zip,
  pub_manifest, pub_tar, pub_sum, pub_pc, pub_kind, pub_todo, pub_got,
  pub_changes, pub_runs, pub_ended, pub_died>>

vars == <<part, cveVars, kevVars, epssVars, foundVars, fixerVars,
  passportsVars, malwareVars, pypaVars, gitlabVars, updatesVars, graphVars,
  storeVars, probeVars, sandboxVars, bridgeVars, botVars, siteVars, pubVars>>

Init ==
  /\ part \in {"cve", "kev", "epss", "found", "fixer", "passports", "malware",
       "pypa", "gitlab", "updates", "graph", "store", "probe", "sandbox",
       "bridge", "bot", "site", "pub"}
  /\ Cve!Init /\ Kev!Init /\ Epss!Init /\ Found!Init /\ Fixer!Init
  /\ Passports!Init /\ Malware!Init /\ Pypa!Init /\ Gitlab!Init /\ Updates!Init
  /\ Graph!Init /\ Store!Init /\ Probe!Init /\ Sandbox!Init /\ Bridge!Init
  /\ Bot!Init /\ Site!Init /\ Pub!Init

CveNext ==
  /\ part = "cve" /\ Cve!Next
  /\ UNCHANGED <<part, kevVars, epssVars, foundVars, fixerVars, passportsVars,
     malwareVars, pypaVars, gitlabVars, updatesVars, graphVars, storeVars,
     probeVars, sandboxVars, bridgeVars, botVars, siteVars, pubVars>>

KevNext ==
  /\ part = "kev" /\ Kev!Next
  /\ UNCHANGED <<part, cveVars, epssVars, foundVars, fixerVars, passportsVars,
     malwareVars, pypaVars, gitlabVars, updatesVars, graphVars, storeVars,
     probeVars, sandboxVars, bridgeVars, botVars, siteVars, pubVars>>

EpssNext ==
  /\ part = "epss" /\ Epss!Next
  /\ UNCHANGED <<part, cveVars, kevVars, foundVars, fixerVars, passportsVars,
     malwareVars, pypaVars, gitlabVars, updatesVars, graphVars, storeVars,
     probeVars, sandboxVars, bridgeVars, botVars, siteVars, pubVars>>

FoundNext ==
  /\ part = "found" /\ Found!Next
  /\ UNCHANGED <<part, cveVars, kevVars, epssVars, fixerVars, passportsVars,
     malwareVars, pypaVars, gitlabVars, updatesVars, graphVars, storeVars,
     probeVars, sandboxVars, bridgeVars, botVars, siteVars, pubVars>>

FixerNext ==
  /\ part = "fixer" /\ Fixer!Next
  /\ UNCHANGED <<part, cveVars, kevVars, epssVars, foundVars, passportsVars,
     malwareVars, pypaVars, gitlabVars, updatesVars, graphVars, storeVars,
     probeVars, sandboxVars, bridgeVars, botVars, siteVars, pubVars>>

PassportsNext ==
  /\ part = "passports" /\ Passports!Next
  /\ UNCHANGED <<part, cveVars, kevVars, epssVars, foundVars, fixerVars,
     malwareVars, pypaVars, gitlabVars, updatesVars, graphVars, storeVars,
     probeVars, sandboxVars, bridgeVars, botVars, siteVars, pubVars>>

MalwareNext ==
  /\ part = "malware" /\ Malware!Next
  /\ UNCHANGED <<part, cveVars, kevVars, epssVars, foundVars, fixerVars,
     passportsVars, pypaVars, gitlabVars, updatesVars, graphVars, storeVars,
     probeVars, sandboxVars, bridgeVars, botVars, siteVars, pubVars>>

PypaNext ==
  /\ part = "pypa" /\ Pypa!Next
  /\ UNCHANGED <<part, cveVars, kevVars, epssVars, foundVars, fixerVars,
     passportsVars, malwareVars, gitlabVars, updatesVars, graphVars, storeVars,
     probeVars, sandboxVars, bridgeVars, botVars, siteVars, pubVars>>

GitlabNext ==
  /\ part = "gitlab" /\ Gitlab!Next
  /\ UNCHANGED <<part, cveVars, kevVars, epssVars, foundVars, fixerVars,
     passportsVars, malwareVars, pypaVars, updatesVars, graphVars, storeVars,
     probeVars, sandboxVars, bridgeVars, botVars, siteVars, pubVars>>

UpdatesNext ==
  /\ part = "updates" /\ Updates!Next
  /\ UNCHANGED <<part, cveVars, kevVars, epssVars, foundVars, fixerVars,
     passportsVars, malwareVars, pypaVars, gitlabVars, graphVars, storeVars,
     probeVars, sandboxVars, bridgeVars, botVars, siteVars, pubVars>>

GraphNext ==
  /\ part = "graph" /\ Graph!Next
  /\ UNCHANGED <<part, cveVars, kevVars, epssVars, foundVars, fixerVars,
     passportsVars, malwareVars, pypaVars, gitlabVars, updatesVars, storeVars,
     probeVars, sandboxVars, bridgeVars, botVars, siteVars, pubVars>>

StoreNext ==
  /\ part = "store" /\ Store!Next
  /\ UNCHANGED <<part, cveVars, kevVars, epssVars, foundVars, fixerVars,
     passportsVars, malwareVars, pypaVars, gitlabVars, updatesVars, graphVars,
     probeVars, sandboxVars, bridgeVars, botVars, siteVars, pubVars>>

ProbeNext ==
  /\ part = "probe" /\ Probe!Next
  /\ UNCHANGED <<part, cveVars, kevVars, epssVars, foundVars, fixerVars,
     passportsVars, malwareVars, pypaVars, gitlabVars, updatesVars, graphVars,
     storeVars, sandboxVars, bridgeVars, botVars, siteVars, pubVars>>

SandboxNext ==
  /\ part = "sandbox" /\ Sandbox!Next
  /\ UNCHANGED <<part, cveVars, kevVars, epssVars, foundVars, fixerVars,
     passportsVars, malwareVars, pypaVars, gitlabVars, updatesVars, graphVars,
     storeVars, probeVars, bridgeVars, botVars, siteVars, pubVars>>

BridgeNext ==
  /\ part = "bridge" /\ Bridge!Next
  /\ UNCHANGED <<part, cveVars, kevVars, epssVars, foundVars, fixerVars,
     passportsVars, malwareVars, pypaVars, gitlabVars, updatesVars, graphVars,
     storeVars, probeVars, sandboxVars, botVars, siteVars, pubVars>>

BotNext ==
  /\ part = "bot" /\ Bot!Next
  /\ UNCHANGED <<part, cveVars, kevVars, epssVars, foundVars, fixerVars,
     passportsVars, malwareVars, pypaVars, gitlabVars, updatesVars, graphVars,
     storeVars, probeVars, sandboxVars, bridgeVars, siteVars, pubVars>>

SiteNext ==
  /\ part = "site" /\ Site!Next
  /\ UNCHANGED <<part, cveVars, kevVars, epssVars, foundVars, fixerVars,
     passportsVars, malwareVars, pypaVars, gitlabVars, updatesVars, graphVars,
     storeVars, probeVars, sandboxVars, bridgeVars, botVars, pubVars>>

PubNext ==
  /\ part = "pub" /\ Pub!Next
  /\ UNCHANGED <<part, cveVars, kevVars, epssVars, foundVars, fixerVars,
     passportsVars, malwareVars, pypaVars, gitlabVars, updatesVars, graphVars,
     storeVars, probeVars, sandboxVars, bridgeVars, botVars, siteVars>>

Next ==
  CveNext \/ KevNext \/ EpssNext \/ FoundNext \/ FixerNext \/ PassportsNext \/
  MalwareNext \/ PypaNext \/ GitlabNext \/ UpdatesNext \/ GraphNext \/
  StoreNext \/ ProbeNext \/ SandboxNext \/ BridgeNext \/ BotNext \/ SiteNext \/
  PubNext

Spec == Init /\ [][Next]_vars
        /\ WF_probeVars(part = "probe" /\ Probe!Client)
        /\ WF_bridgeVars(part = "bridge" /\ Bridge!Stopped)
        /\ \A c \in BridgeClients : WF_bridgeVars(part = "bridge" /\ Bridge!Loop(c))

-----------------------------------------------------------------------------
\* What each part takes for granted about its constants.
ASSUME PartsAssumption ==
  /\ Cve!CveFeedsAssumption /\ Kev!KevCacheAssumption /\ Epss!EpssCacheAssumption
  /\ Found!DiscoveryAssumption /\ Fixer!ConfigFixerAssumption
  /\ Passports!PassportSyncAssumption /\ Malware!MalwareFeedAssumption
  /\ Pypa!PypaAssumption /\ Updates!UpdateHistoryAssumption
  /\ Gitlab!GitLabMirrorAssumption
  /\ Graph!AliasGraphAssumption /\ Store!AdvisoryStoreAssumption
  /\ Probe!ProbeSessionAssumption /\ Sandbox!SandboxAssumption
  /\ Bridge!BridgeAssumption /\ Bot!RemediationBotAssumption
  /\ Site!CatalogBuildAssumption /\ Pub!PublicationAssumption

\* Every part keeps its types.
TypeOK ==
  /\ part = "cve" => Cve!TypeOK
  /\ part = "kev" => Kev!TypeOK
  /\ part = "epss" => Epss!TypeOK
  /\ part = "found" => Found!TypeOK
  /\ part = "fixer" => Fixer!TypeOK
  /\ part = "passports" => Passports!TypeOK
  /\ part = "malware" => Malware!TypeOK
  /\ part = "pypa" => Pypa!TypeOK
  /\ part = "gitlab" => Gitlab!TypeOK
  /\ part = "updates" => Updates!TypeOK
  /\ part = "graph" => Graph!TypeOK
  /\ part = "store" => Store!TypeOK
  /\ part = "probe" => Probe!TypeOK
  /\ part = "sandbox" => Sandbox!TypeOK
  /\ part = "bridge" => Bridge!TypeOK
  /\ part = "bot" => Bot!TypeOK
  /\ part = "site" => Site!TypeOK
  /\ part = "pub" => Pub!TypeOK

\* A marker that makes later runs skip something tells the truth.  What the
\* next scan of the CVE list skips was collected by a run that came to its end,
\* did not parse, or was written behind the scan; a commit the delta will not
\* list was collected, could not be fetched, met a rate limit or was more than a
\* page behind; the PyPA marker stands for what was kept; the ETag names the
\* body in the cache, so that "not modified" means the current catalogue.
MarkersAccounted ==
  /\ part = "cve" => Cve!ScanAccounted /\ Cve!DeltaAccounted
  /\ part = "pypa" => Pypa!MarkerAccounted
  /\ part = "kev" => Kev!EtagNamesCache /\ Kev!NotModifiedIsCurrent

\* What is on disk is complete and belongs together, whatever failed on the way:
\* no tombstone in front of a listed server (PyPI excepted), a backup of every
\* configuration replaced, the passports whole or lost to a body that broke
\* off, the GitLab mirror current in every ecosystem the clone has, or as it was
\* when it is worked with offline, the quarantine exact, the release counts and their bundles in step;
\* every fix the bot planned and did not fail on is in a pull request, and no
\* branch holds another plan's fixes; a site that was built to the end is the
\* current catalogue, but for the malware marks that its cache keeps.  A snapshot,
\* a bucket and a bundle that are whole leave out only what was half written or
\* came later, their checksums name them and the feeds are the snapshot's, unless
\* an export broke off.
CopiesComplete ==
  /\ part = "found" => Found!ListedAudited
  /\ part = "fixer" => Fixer!ReplacedIsBackedUp
  /\ part = "passports" => Passports!NewIsComplete /\ Passports!LostToBrokenBody
  /\ part = "malware" => Malware!QuarantineExact
  /\ part = "gitlab" => Gitlab!SyncedIsCurrent /\ Gitlab!OfflineKeepsData
  /\ part = "updates" => Updates!CountsAddUp /\ Updates!EntriesHaveBundles
  /\ part = "bot" => Bot!PlansArePublished /\ Bot!BranchesHoldTheirOwn
  /\ part = "site" => Site!SiteCurrent
  /\ part = "pub" => Pub!CopiesFaithful /\ Pub!ChecksumsName /\ Pub!FeedsFollow

\* The forest under the alias graph has no cycle and is shallow, and the index
\* lists every advisory once, under the best id of its cluster, with the marks
\* of all its aliases, whatever older files lie about.
ClustersSound ==
  /\ part = "graph" => Graph!RankRises
  /\ part = "store" => Store!IndexExact

\* What a step may not do.  A CVE file is read again only when the marker moved
\* back; memory never goes back to an older KEV catalogue; the EPSS answers
\* keep their age for one list of ids, and a saved score answers every outage;
\* a server that its registry lists is in the catalogue after a discovery, and
\* the enricher adds versions only; a run keeps what the advisories state,
\* unless a feed delivered a record under the id of the file; a snapshot never
\* goes back to an older version of an advisory.
StepsForward ==
  [][/\ part = "cve" => Cve!RereadOnlyBehind
     /\ part = "kev" => Kev!NeverOlder
     /\ part = "epss" => Epss!OneListFresh /\ Epss!OutageAnswers
     /\ part = "found" => Found!ListedIsFound /\ Found!EnricherAddsVersions
     /\ part = "store" => Store!KeptUnlessRedelivered
     /\ part = "pub" => Pub!SnapshotAdvances]_vars

\* The forest implements a partition of the identifiers whose clusters only
\* grow together.
AliasesPartition == Graph!Partition!Spec

\* The sessions with other programs.  A listing is taken from its own answer,
\* a probe that went well missed a surface only if the server sent something
\* else, and no child of it runs on.  A sandbox leaves a container behind, or
\* runs an image on the host, only after a mishap of its engine.  A handler of
\* the bridge that ended left no reader and no half of a stream.
SessionsSound ==
  /\ part = "probe" => Probe!OwnAnswers /\ Probe!LostOnlyToStrays /\ Probe!NothingLeft
  /\ part = "sandbox" => Sandbox!LeftBehind /\ Sandbox!HostByChoice
  /\ part = "bridge" => Bridge!NothingOrphaned

\* Every probe ends, unless a descendant of the server keeps its pipes open; a
\* bridge that is told to stop does, unless it waits for a client that stays;
\* the tasks of a client that left end.
SessionsEnd ==
  /\ Probe!ProbeEnds
  /\ Bridge!StopEnds
  /\ Bridge!HandlersEnd

\* What the tombstones say: a package behind one was given up upstream.
OnlyGoneBuried == part = "found" => Found!OnlyGoneBuried

=============================================================================

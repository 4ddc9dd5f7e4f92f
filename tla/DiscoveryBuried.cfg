SPECIFICATION Spec
CONSTANTS
  CveFiles = {1, 2}
  CvePerPage = 1
  CveMaxEvents = 3
  CveMaxCommits = 2
  CveCrashes = TRUE
  KevClients = {1, 2}
  KevMaxVersion = 2
  EpssCves = {1, 2}
  EpssListed = {1, 2}
  EpssTtl = 2
  EpssMaxNow = 4
  FoundNpm = {1}
  FoundPypi = {2}
  FoundGithub = {3}
  FoundSmithery = {}
  FoundGlama = {}
  FoundOther = {}
  FoundMaxChanges = 2
  FixerMaxWrites = 6
  FixerMaxNow = 2
  PassportsMaxVersion = 3
  MalwareFeeds = {1, 2}
  MalwarePackages <- MCMalwarePackages
  MalwareVersions = {1, 2}
  MalwareMaxChanges = 2
  PypaPackages = {1, 2}
  PypaFallback = {1}
  PypaMaxVersion = 2
  GitlabEcosystems = {1, 2}
  GitlabMaxHead = 3
  UpdatesMaxRelease = 3
  UpdatesMaxTotal = 2
  GraphIds = {"a", "b", "c", "d"}
  GraphAbsent = "none"
  StoreN = 3
  StoreScored = {2, 3}
  StoreMaxBatch = 1
  StoreMaxRuns = 3
  ProbeMaxStrays = 1
  SandboxEngines = {"incus", "docker"}
  BridgeClients = {1, 2}
  BridgeProgress = 2
  BridgeMaxLives = 2
  BotConfigs = {1, 2}
  BotUses <- MCBotUses
  BotMaxNow = 1
  BotMaxRuns = 2
  SitePackages = {1, 2, 3}
  SitePassported = {1, 2}
  SiteEco <- MCSiteEco
  SiteAdvisories <- MCSiteAdvisories
  SiteWorkers = 2
  SiteMaxChanges = 1
  SiteMaxBuilds = 2
  PubIds = {1, 2}
  PubInitial = {1}
  PubValid = {1}
  PubFeedLength = 1
  PubMaxChanges = 1
  PubMaxRuns = 2
INVARIANTS
  OnlyGoneBuried
CHECK_DEADLOCK FALSE

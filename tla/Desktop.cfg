\* Two saves at a time; the states live for one tick, the cooldown for two.
CONSTANTS
  s1 = s1
  s2 = s2
  w1 = w1
  w2 = w2
  Savers = {s1, s2}
  PrefixTTL = 1
  SessionTTL = 1
  CoolSpan = 2
  None = None
  Torn = Torn
\* One entry that lives for one tick, two turns, one clear, two starts.
  Requests <- CacheRequests
  Targets = {"t1"}
  Similar <- Synonyms
  Workers = {w1, w2}
  MaxEntries = 1
  MaxAge = 1
  MaxTime = 1
  MaxClears = 1
  MaxCacheStarts = 2
\* Claude Desktop and Codex, two routes.
  Agents = {"desktop", "codex"}
  Restores = {"desktop"}
  FilesOf <- FilesOfAgents
  Routes = {"r1", "r2"}
  DefaultRoute = "r1"
  Nothing = "nothing"
  MaxCommands = 2
  MaxFailures = 3
  MaxStarts = 2
\* Eight kinds of files, four configurations, two injections.
  Kinds = {"claudeCode", "codex", "openCode", "openClaw", "hermes", "profile", "mode", "meta"}
  Official <- Catalogued
  FallbackSlug = "g2"
  Configs <- Configurations
  Bindings <- Bound
  MaxInjections = 2
  NoValue = NoValue
\* Three edits from any of three files.
  AgentIds = {"codex", "claude"}
  Names <- RelayName
  Models = {"m"}
  Urls = {1, 2}
  Nobody = Nobody
  Starts <- Beginnings
  MaxEdits = 3
  MaxSaveFailures = 1
SPECIFICATION DesktopSpec
SYMMETRY Turns
\* Commands, starts and failures have bounds.
CHECK_DEADLOCK FALSE
INVARIANTS
  RestartsProlongNothing
  SavedWhole
  ServesTheSameRequest
  ClearedStaysCleared
  NeverHalfInjected
  EnabledIsInjected
  FileFollowsTheRoute
  ReferencesResolve
  VerifiedForThisConnection

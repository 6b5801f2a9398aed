SPECIFICATION MCSpec
CONSTANTS
  k1 = k1
  k2 = k2
  k3 = k3
  k4 = k4
  k5 = k5
  k6 = k6
  Visitor = {r1, r2}
  Id = {1, 2, 3}
  MaxWorkspaces = 2
  TTL = 1
  NoMeta <- LongAgo
  Nobody = Nobody
  MaxTime = 1
  MaxMishaps = 1
  Workspace = {w1, w2}
  Shared = shared
  NoFile = NoFile
  MaxBody = 2
  CacheTTL = 1
  MaxDownloads = 2
  Source = {k1, k2, k3, k4, k5, k6}
  SourceBytes <- BytesOfSources
  SourceNodes <- NodesOfSources
  Faulty = {k6}
  MaxEntries = 2
  MaxBytes = 4
  MaxNodes = 3
  NoKey = NoKey
  Client = {k1, k2}
  Limit = 2
  Window = 3
  MaxKeys = 1
  MaxClock = 7
  MaxLag = 1
  Never = Never
  Old = Old
  Nothing = Nothing
  MaxFiles = 2
  MaxFileSize = 1
  MaxExpandedSize = 3
  ManifestSize = 1
  MaxFailures = 1
  MaxCrashes = 1
CHECK_DEADLOCK FALSE
INVARIANTS
  CopiesAreFound
  ParseCacheIsBounded
  AcceptedPerWindow
  AllOrNothing
  OldDataSurvives
  ArchivesAreIntact
  LimitIsKept
PROPERTIES
  FreshAnswersAreFresh
  FullTableRecovers
  WorkspacesInUseSurvive

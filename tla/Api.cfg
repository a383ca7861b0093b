CONSTANTS
  NoValue = NoValue
  Parts = {"limit", "review", "session", "stream", "startup", "telemetry"}
  Calls <- MCCalls
  Requests <- MCRequests
  Rules = {"login", "post_scan"}
  Threshold <- MCThreshold
  Window <- MCWindow
  Addresses = {"a", "b", "p"}
  Proxies = {"p"}
  RoleHeader = FALSE
  MaxLag = 1
  MaxClock = 3
  Scans = {1, 2}
  Assets = {1, 2, 3, 4}
  Catalog <- MCCatalog
  Initial <- MCInitial
  Reviewers = {1, 2}
  Payloads <- MCPayloads
  Readers = {1}
  Queries <- MCQueries
  PageSize = 2
  GraphAssets = 2
  GraphNodes = 4
  GraphEdges = 3
  MaxReviews = 2
  Environments <- MCEnvironments
  Holders = {1, 2, 3}
  Wants <- MCWants
  Lifetime = 2
  Retention = 1
  MaxNow = 3
  Streams = {1}
  MaxEvents = 4
  MaxProgress = 2
  Replicas = {1, 2}
  Tables <- MCTables
  Schemas <- MCSchemas
  CreatorSets <- MCCreatorSets
  ScanJobs = {1}
  MaxScan = 1
  Stale = 2
  MaxBootCrashes = 1
  MaxStampFaults = 1
  Responses <- MCResponses
  Scrapers = {1}
  Durations <- MCDurations
  Capacity = 2
  MaxSamples = 3
SPECIFICATION Spec
INVARIANT LimitHeld
INVARIANT FieldsFollowAudit
INVARIANT RiskFollowsFields
INVARIANT ReadersSeeAScan
INVARIANT GraphIsHonest
INVARIANT TrailAccounted
INVARIANT StreamTellsTheEnd
INVARIANT RecoverySparesLive
INVARIANT ReadyIsComplete
INVARIANT ScrapeFitsTogether
PROPERTY RetryAfterSuffices
PROPERTY StreamsClose
PROPERTY BootCompletes
CHECK_DEADLOCK FALSE

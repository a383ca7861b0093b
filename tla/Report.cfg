CONSTANTS
  NoValue = NoValue
  CryptoImports <- MCCryptoImports
  CryptoCalls <- MCCryptoCalls
  RuleCategories <- MCRuleCategories
  KnownPackages <- MCKnownPackages
  Trees <- MCTrees
  Profiles = {"source", "environment", "typo"}
  Reads <- MCReads
  TextRank <- MCTextRank
  FileLimit = 5
  ByteLimit = 1
  EvidenceLimit = 5
  DurationBudget = 2
  MemoryBudget = TRUE
  MaxElapsed = 2
  Correlators = {"v2", "v3"}
  Truths <- MCTruths
  ScanAssets <- MCScanAssets
  MaxAssets = 3
  EvaluationLimit = 3
  Infinity = Infinity
SPECIFICATION Spec
INVARIANT EveryFileAccounted
INVARIANT EvidenceAccounted
INVARIANT FindingsStable
INVARIANT ConflictsHaveTwoSides
INVARIANT MatchingIsBest
CHECK_DEADLOCK FALSE

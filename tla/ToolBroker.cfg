SPECIFICATION FairBrokerSpec
CONSTANTS
  Catalogue <- MCCatalogue
  Requests <- MCRequests
  AttemptsCeiling = 3
INVARIANTS CoverageIsMaximal UnsafeRunsOnce OverlapIsAskedFor
PROPERTIES AbortWins Returns
CHECK_DEADLOCK FALSE

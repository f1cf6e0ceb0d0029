SPECIFICATION PromotionSpec
CONSTANTS
  o1 = o1
  o2 = o2
  o3 = o3
  Operations = {o1, o2, o3}
  NoOperation = NoOperation
  NoJournal = NoJournal
  Callers = {c1, c2}
  Journals = {j1}
  Samples = {1, 2}
  Drafts <- MCDrafts
  Authority <- MCAuthority
  AdmissionStops = FALSE
  MaxTotalSamples = 3
  MinimumShadowSamples = 1
  MaxLiveSamples = 2
  MaxCandidateLiveSamples = 1
  MaxCandidateTraffic = 100
  CohortSizes = {1, 3}
  MinimumObservations = 2
SYMMETRY Symmetry
INVARIANTS AskedOnce DoubtIsAlone CommitIsTrue ReportsHold PromotionIsEarned
CHECK_DEADLOCK FALSE

SPECIFICATION Spec
CONSTANTS
  s1 = s1
  s2 = s2
  s3 = s3
  Samples = {s1, s2, s3}
  Drafts <- MCDrafts
  Callers = {c1, c2}
  Closed = Closed
  MaxTotalSamples = 3
  MinimumShadowSamples = 1
  MaxLiveSamples = 2
  MaxCandidateLiveSamples = 1
  MaxCandidateTraffic = 100
  CohortSizes = {1, 3}
  MinimumObservations = 2
  ReferenceRuns = {r1}
  CandidateRuns = {k1}
  Verifications = {v1, v2}
  MaxPublications = 2
SYMMETRY Symmetry
INVARIANTS DispatchesAreBacked OneInFlight
PROPERTY EvidenceIsHeeded
CHECK_DEADLOCK FALSE

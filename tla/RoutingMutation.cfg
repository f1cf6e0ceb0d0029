SPECIFICATION Spec
CONSTANTS
  a1 = a1
  a2 = a2
  c1 = c1
  c2 = c2
  j1 = j1
  j2 = j2
  Authorizations = {a1, a2}
  NoAuthorization = NoAuthorization
  Before <- MCBefore
  Callers = {c1, c2}
  Journals = {j1, j2}
  JournalOf <- OwnJournal
SYMMETRY Processes
INVARIANT ReportsHold
PROPERTIES KeepsPromise DoubtBlocks VerifiedIsCommitted
CHECK_DEADLOCK FALSE

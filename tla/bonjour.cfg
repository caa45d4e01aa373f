SPECIFICATION Spec
CONSTANTS
  Word = 9
  Settled = 3
  Gap = 1
  NQueryResend = 1
  SQueryResend = 2
  TTL = 6
  Timeouts = {0, 3}
  NumRecords = 2
  Services = {web, ftp, log}
  Applications <- MCApplications
INVARIANTS
  TypeOK
  QueriesAreAnswered
  PeerKnowsServices
PROPERTIES
  QueryEnds

CONSTANTS
  Names = {1, 2}
  Ids = {1, 2}
  Ports = {5, 6}
  iDNSServer = server
  Stranger = stranger
  Timeout = 0
  MaxInbox = 1
  Lost = {1, 4, 5, 10}
  Stale = 1
SPECIFICATION FairSpec
INVARIANTS TypeOK AnswerBelongs
PROPERTY LookupEnds

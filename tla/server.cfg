\* Two clients and one thread: a silent client must not hold it.
SPECIFICATION FairSpec
CONSTANTS
  c1 = c1
  c2 = c2
  Clients = {c1, c2}
  PoolSize = 1
  MaxChunks = 2
  MaxAcceptErrors = 1
INVARIANTS
  AnswersTheFirstRequest
PROPERTIES
  RequestsAreAnswered
  StopEnds
  GoneConnectionsClose
CHECK_DEADLOCK FALSE

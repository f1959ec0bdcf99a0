SPECIFICATION Spec
CONSTANTS
  Clients = {c1, c2}
  M = 2
  MaxTx = 2
  MEMPOOL_CAPACITY = 1
  IPC_BACKLOG = 1
  MAX_DISCOVERED_MINERS = 2
  Stoppable = {0, c1}
  Killable = {1, c2}
CHECK_DEADLOCK FALSE
INVARIANTS
  AcceptedOnce
  OutcomeIsTrue
  RemainingMinersServe
  RoundRobin
PROPERTIES
  SubmissionEnds
  TerminationEndsClient

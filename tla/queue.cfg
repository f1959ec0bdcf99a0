SPECIFICATION FairSpec
CONSTANTS
  Workers = {w1, w2, w3}
  Capacity = 3
  MaxMessages = 7
CHECK_DEADLOCK FALSE
INVARIANTS IInv InOrderOnce NoLostWakeup DrainedBeforeExit
PROPERTIES ImplementsFifo EveryMessageHandled StopEndsThreads

SPECIFICATION FairSpec
CONSTANTS
  C = 4
  Servers = {0, 1}
  MAX_TRACKED_PROCESSES = 3
  Commands = {"ask", "pause", "resume", "status", "stop"}
  Crashable = {0, 1, 2}
  MaxCommands = 3
CHECK_DEADLOCK FALSE
INVARIANTS TypeOK TableMatchesProcesses NoTrackedOrphan
PROPERTIES ShutdownCompletes SignalCostsOneCommand

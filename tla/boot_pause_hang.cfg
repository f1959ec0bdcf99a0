SPECIFICATION FairSpec
CONSTANTS
  C = 2
  Servers = {0}
  MAX_TRACKED_PROCESSES = 2
  Commands = {"ask", "pause", "resume"}
  Crashable = {}
  MaxCommands = 3
CHECK_DEADLOCK FALSE
PROPERTY CommandReturns

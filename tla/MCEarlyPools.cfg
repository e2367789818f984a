\* Both early versions: one client is silent, one may leave, and the ring is full
\* and goes round more than once.
CONSTANTS
  Versions = {"stack", "ring"}
  Clients <- MCClients
  Silent = {2}
  Leaving = {3}
  N = 2
  MaxQueue = 3
  MaxFd = 5
SPECIFICATION FairSpec
INVARIANTS TypeOK Kept InTurn
PROPERTIES Answered
CHECK_DEADLOCK FALSE

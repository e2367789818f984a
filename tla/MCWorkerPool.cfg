\* One client is silent and one may leave; descriptors are used again.
CONSTANTS
  c1 = c1
  c2 = c2
  c3 = c3
  c4 = c4
  Client = {c1, c2, c3, c4}
  Silent = {c1}
  Leaving = {c2}
  NoClient = NoClient
  N = 2
  MaxQueue = 2
  MaxFd = 4
SPECIFICATION FairSpec
INVARIANTS TypeOK NotDropped OneKeeper
PROPERTIES EveryoneAnswered
CHECK_DEADLOCK FALSE

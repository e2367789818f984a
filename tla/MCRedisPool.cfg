\* GETs, which may miss, and POSTs of one and two values, each in one piece.
CONSTANTS
  N = 2
  PerThread = 3
  Requests <- WholeValues
  MaxRequests = 3
  ValueLen = 1
SPECIFICATION FairSpec
INVARIANTS TypeOK  
 
CHECK_DEADLOCK FALSE

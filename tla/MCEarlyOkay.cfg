\* Values that arrive in two pieces, two connections per thread.
CONSTANTS
  N = 2
  PerThread = 2
  Requests <- SplitValues
  MaxRequests = 2
  ValueLen = 1
SPECIFICATION Spec
INVARIANTS StoredOnceOkay
CHECK_DEADLOCK FALSE

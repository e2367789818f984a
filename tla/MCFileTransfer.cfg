\* Two uploads under one name and a client_multi, more of them than there are
\* process ids; the sequence numbers wrap in the middle of a file.
CONSTANTS
  a = a
  b = b
  m = m
  Client = {a, b, m}
  Multi = {m}
  Length <- MCLength
  Name <- MCName
  Pid = {p1, p2}
  p1 = p1
  p2 = p2
  SeqMod = 3
  Start = {2}
  MaxFd = 3
SPECIFICATION FairSpec
INVARIANTS TypeOK StoredWhole ExactUnlessLeftOver
PROPERTIES PublishedFinal UploadStored
CHECK_DEADLOCK FALSE

\* Each of the three servers; b may stop or leave in the middle of its body;
\* descriptors for two served connections.
CONSTANTS
  a = a
  b = b
  x = x
  Kinds = {"fork", "thread", "libevent"}
  Client = {a, b, x}
  Requests <- MCRequests
  Stalling = {b}
  Leaving = {b}
  NoClient = NoClient
  NoValue = NoValue
  MaxFd = 4
SPECIFICATION FairSpec
INVARIANTS TypeOK OkStored PostsApart
PROPERTIES Served
CHECK_DEADLOCK FALSE

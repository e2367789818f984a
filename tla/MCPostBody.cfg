\* Every body of up to three characters or escapes and some longer ones, cut in
\* every way, and every head of up to three lines, behind a short first request.
CONSTANTS
  Plans <- MCPlans
  MaxTokens = 3
  MaxLines = 3
  MaxRequests = 2
  MaxBody = 12
SPECIFICATION BodySpec
INVARIANTS BodyTypeOK HeadsRead BlockingRight StoredAsSent
CHECK_DEADLOCK FALSE

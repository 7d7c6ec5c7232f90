\* A single process: the local map stands in when Redis does not answer, and a
\* fence counter may run out under a lease.
SPECIFICATION FairSpec
CONSTANTS
  w1 = w1
  w2 = w2
  p1 = p1
  p2 = p2
  Workers = {w1, w2}
  Process = {p1}
  Host <- OneHost
  Clustered = FALSE
  Candidates = 1
  ConfirmAttempts = 1
  FenceExpires = TRUE
INVARIANTS NothingRevived
PROPERTIES EveryDelegationEnds
CHECK_DEADLOCK FALSE

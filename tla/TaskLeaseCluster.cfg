\* Clustered deployment: two processes, each with its own Redis connection.
SPECIFICATION Spec
CONSTANTS
  w1 = w1
  w2 = w2
  p1 = p1
  p2 = p2
  Workers = {w1, w2}
  Process = {p1, p2}
  Host <- TwoHosts
  Clustered = TRUE
  Candidates = 2
  ConfirmAttempts = 2
  FenceExpires = FALSE
INVARIANTS LostMeansTaken LeaseInv
PROPERTIES PublishFenced ImplementsOwnership
CHECK_DEADLOCK FALSE

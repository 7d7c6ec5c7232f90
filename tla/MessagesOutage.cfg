SPECIFICATION Spec
CONSTANTS
  m1 = m1
  m2 = m2
  c1 = c1
  c2 = c2
  p1 = p1
  p2 = p2
  Messages = {m1}
  Claimers = {c1, c2}
  Process = {p1}
  Home <- OneProcess
  Sender <- FromFirst
  Legacy <- MaybeLegacy
  MaxDeliveries = 2
  Connection = "sometimes"
  Patient = TRUE
  MaxStream = 2
  NoOne = NoOne
INVARIANTS
  SeenMeansDone
  NothingLost
  Exclusive
SYMMETRY Alike

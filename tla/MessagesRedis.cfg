SPECIFICATION FairSpec
CONSTANTS
  m1 = m1
  m2 = m2
  c1 = c1
  c2 = c2
  p1 = p1
  p2 = p2
  Messages = {m1, m2}
  Claimers = {c1, c2}
  Process = {p1, p2}
  Home <- TwoProcesses
  Sender <- FromFirst
  Legacy <- NoLegacy
  MaxDeliveries = 2
  Connection = "always"
  Patient = TRUE
  MaxStream = 3
  NoOne = NoOne
INVARIANTS
  AckedNeverDead
PROPERTIES
  EventuallySettled

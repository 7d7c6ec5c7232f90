\* Three delegations of one mission in two processes.
SPECIFICATION Spec
CONSTANTS
  p = p
  q = q
  first = first
  Children = {first, c2, c3}
  Processes = {p, q}
  Home <- TwoHomes
  Dims <- Budgeted
  Limit <- Ceiling
  Reserve <- Estimate
  Uses <- Used
  TTL = 2
INVARIANTS ReservationsHeld UsageRecorded HardCeiling
PROPERTIES OneEnvelope
CHECK_DEADLOCK FALSE

\* Four runs of two agent types under a global ceiling of two; the caps of the
\* types are reloaded at any time.
SPECIFICATION SlotsFairSpec
CONSTANTS
  busy = busy
  idle = idle
  other = other
  Runs = {r1, r2, r3, other}
  Agents <- AgentTypes
  AgentOf <- Assignment
  Caps = {1, 2, 3}
  GlobalCap = 2
  Global = "__global__"
INVARIANTS
  SlotsSafe
PROPERTIES
  RunsRun

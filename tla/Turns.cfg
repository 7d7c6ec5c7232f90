SPECIFICATION Spec
CONSTANTS
    MaxTurns = 2
    Messages = {m1}
    Questions = {q1}
    Commands = {k1, k2}
    Remote = {k2}
    NoCommand = NoCommand
    MaxEvents = 3
INVARIANTS
    OneFate
    QuestionsClosed
    OneLiveTurn
    StopReaches
CHECK_DEADLOCK FALSE
PROPERTIES
    TurnsEnd

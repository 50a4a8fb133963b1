SPECIFICATION FairSpec
CONSTANTS
    Callers = {c1}
    Workers = {w1, w2}
    Priorities = {0}
    LastJobId = 3
    MaxCompleted = 1
PROPERTIES
    DestructionJoins
CHECK_DEADLOCK FALSE

SPECIFICATION Spec
CONSTANTS
    Backlog = 1
    BatchSize = 2
    MaxEvents = 1
    MaxErrors = 1
INVARIANTS StatsInv  FinalStatus
PROPERTY HeartbeatsGoOn
CHECK_DEADLOCK FALSE

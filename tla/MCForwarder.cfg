\* A backlog of a batch and a half; the agent may be stopped, and then nothing happens any more.
CONSTANTS
    BatchSize = 2
    Interval = 2
    Backlog = 3
    MaxEvents = 4
    MaxFailures = 2
    BackoffSteps <- Steps
    RetryAfters = {0, 5, 12, 13}
    NoHeader = NoHeader
    HalfRange = 128
    Second = 10
    MaxRetryAfter = 60
SPECIFICATION Spec
INVARIANTS ForwarderInv BackoffPerBatch CounterBounded
PROPERTIES AllSent StopEnds
CHECK_DEADLOCK FALSE

\* What the comment at spool.go:423 says of the batch in flight.
CONSTANTS
    MaxDay = 2
    MaxEvents = 3
    BatchSize = 2
    SyncEveryN = 1
    RetentionDays = 1
    MaxBytes = 1
    GzSize = 1
    Faults = {"kill", "clock"}
SPECIFICATION Spec
INVARIANT InflightStillSent

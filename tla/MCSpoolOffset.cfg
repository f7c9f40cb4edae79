\* What the log message at spool.go:235 says of an offset beyond the end.
CONSTANTS
    MaxDay = 2
    MaxEvents = 3
    BatchSize = 2
    SyncEveryN = 2
    RetentionDays = 1
    MaxBytes = 9
    GzSize = 1
    Faults = {"kill", "power"}
SPECIFICATION Spec
INVARIANT ResentFromStart

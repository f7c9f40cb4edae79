\* What the log message at spool.go:394 says of the file being written.
CONSTANTS
    MaxDay = 2
    MaxEvents = 3
    BatchSize = 2
    SyncEveryN = 1
    RetentionDays = 1
    MaxBytes = 1
    GzSize = 1
    Faults = {"kill", "clock"}
SPECIFICATION Spec
INVARIANT OpenFileKept

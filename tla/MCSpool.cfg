\* Every fault, and what happens after a mishap.
CONSTANTS
    MaxDay = 2
    MaxEvents = 2
    BatchSize = 2
    SyncEveryN = 2
    RetentionDays = 1
    MaxBytes = 1
    GzSize = 1
    Faults = {"kill", "power", "io", "fsync", "clock"}
VIEW View
SPECIFICATION Spec
INVARIANTS SpoolInv WriterAhead NoSilentLoss NothingSkipped SettledInOrder CompressedQuiet
PROPERTY NeverRewinds

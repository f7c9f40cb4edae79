\* Three runs on every machine, with two failures of any kind.
CONSTANTS
    MaxRuns = 3
    MaxFailures = 2
SPECIFICATION Spec
INVARIANTS InstallerInv Restored IdentityKept
CHECK_DEADLOCK FALSE

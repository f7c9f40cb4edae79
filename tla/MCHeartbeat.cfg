\* Three requests at a time, a minimum version below and above the agent's,
\* and three failures of any kind.
CONSTANTS
    Requests = {r1, r2, r3}
    NoCall = NoCall
    Versions = {1, 3}
    Version = 2
    MaxAge = 3
    MaxFailures = 3
SPECIFICATION HeartbeatSpec
INVARIANT AckedShown
PROPERTIES RowRenewed VersionLearnt

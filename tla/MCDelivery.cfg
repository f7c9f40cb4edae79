\* Two requests at a time, one restart and two failures of any kind.
CONSTANTS
    KeyOf <- FiveEvents
    Invalid = {"bad"}
    Unstorable = {"nul"}
    BatchSize = 2
    MaxItems = 2
    Requests = {r1, r2}
    NoBatch = NoBatch
    NoCall = NoCall
    StoreFaults = {"auth", "body", "stmt", "commit", "crash"}
    MaxRestarts = 1
    MaxFailures = 2
SPECIFICATION Spec
INVARIANTS DeliveryInv StoredInOrder NoWaitCycle
PROPERTIES HandoffSpec EventuallyAll

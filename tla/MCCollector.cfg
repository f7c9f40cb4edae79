\* Three requests at a time, any batch in any order, with every fault.
CONSTANTS
    Keys = {"k1", "k2", "k3", "bad", "nul"}
    BatchIds = {"a", "b", "c", "d", "e", "f"}
    NoBatch = NoBatch
    Body <- MCBody
    Invalid = {"bad"}
    Unstorable = {"nul"}
    MaxItems = 3
    Requests = {r1, r2, r3}
    StoreFaults = {"auth", "body", "stmt", "commit", "crash"}
SPECIFICATION CollectorSpec
SYMMETRY Symmetry
INVARIANTS BatchAtomic AckedDurable RowsOnce
PROPERTY DedupSpec

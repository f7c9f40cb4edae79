\* Three requests, two at a time, two calls of the test in between, and pairs of
\* records of every kind; numbers of 3 and more are written with an exponent and
\* numbers beyond 4 are rounded.
CONSTANTS
    EventIds <- SomeIds
    Times = {1, 2}
    Exponent = 3
    Mantissa = 4
    Handlers = {h1, h2}
    BatchIds = {"b1", "b2"}
    Bodies <- SomeBodies
    Faults <- SomeFaults
    MaxRequests = 3
    MaxControls = 2
SYMMETRY Symmetry
SPECIFICATION Spec
INVARIANTS MockInv EachOnce MockAgrees FaultExact
CHECK_DEADLOCK FALSE

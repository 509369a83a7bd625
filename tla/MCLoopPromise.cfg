\* Two in flight, tail repair off, three failures outside K/V.
SPECIFICATION Spec
CONSTANTS
    Size = 5
    MaxInFlight = 2
    RepairThreshold = 0
    FirstStep = FALSE
    FaultKinds <- TransactionFaults
    MaxFaults = 3
\* A loop ends.
CHECK_DEADLOCK FALSE
INVARIANTS
    Backpressure
    IndexOnce
PROPERTIES
    KeepsPromise

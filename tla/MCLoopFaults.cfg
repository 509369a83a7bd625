\* Two in flight, default repair, the first step, any two failures.
SPECIFICATION Spec
CONSTANTS
    Size = 3
    MaxInFlight = 2
    RepairThreshold = 64
    FirstStep = TRUE
    FaultKinds <- AnyFault
    MaxFaults = 2
\* A loop ends.
CHECK_DEADLOCK FALSE
INVARIANTS
    TypeOK
    CountersBounded
    ResultsBacked
    FinalizedIsRouted
PROPERTIES
    CountersGrow

\* Three in flight, default repair, nothing fails.
SPECIFICATION Spec
CONSTANTS
    Size = 3
    MaxInFlight = 3
    RepairThreshold = 64
    FirstStep = FALSE
    FaultKinds <- NoFault
    MaxFaults = 0
\* A loop ends.
CHECK_DEADLOCK FALSE
INVARIANTS
    RoutedWhenExecuted

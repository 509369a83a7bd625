\* Three steps with two commands each at most; three batches, one of them posted
\* twice and read by the engine, two acceptor tasks, one stop of the server; two
\* commands in the pending count; an execution with a child and two operators.
SPECIFICATION Spec
CONSTANTS
    Steps = {"s", "a", "j"}
    Entry = "s"
    Arcs <- Playbook
    Inclusive = {"s"}
    Quiet = {}
    MaxRuns = 2
    FailedPosts = TRUE
    DoubleReports = FALSE
    Losses = TRUE
    b1 = b1
    b2 = b2
    b3 = b3
    e1 = e1
    e2 = e2
    Batches = {b1, b2, b3}
    BatchExecutions = {e1, e2}
    ExecutionOf <- BatchOf
    Actionable = {b1}
    Acceptors = {a1, a2}
    QueueMax = 2
    MaxPosts <- PostsOf
    Chunks = 1
    MaxCrashes = 1
    NoAcceptor = NoAcceptor
    SupCommands = {c1, c2}
    c1 = c1
    c2 = c2
    m1 = m1
    m2 = m2
    MarksOf <- TwiceMarked
    MaxAttempts = 2
    parent = parent
    child = child
    Executions = {parent, child}
    ParentOf <- ParentChild
    NoParent = NoParent
    Callers = {o1, o2}
    StepsEach = 2
SYMMETRY Alike
\* Executions and calls end.
CHECK_DEADLOCK FALSE
INVARIANTS
    EngineTypeOK
    FinishedQuiet
    OneCommandPerStep
    EndsOnceAndTruly
    CarriedOnce
    ServedInTurn
    CompletedMeansIssued
    ExactWithoutClash
PROPERTIES
    ProjectedStatusStays
    EngineEndIsFinal

\* A playbook of one step, reported through the batch endpoint; nothing is lost.
SPECIFICATION WorkflowAlone
CONSTANTS
    Steps = {"s"}
    Entry = "s"
    Arcs <- OneStep
    Inclusive = {}
    Quiet = {}
    MaxRuns = 2
    FailedPosts = FALSE
    DoubleReports = FALSE
    Losses = FALSE
    b1 = b1
    b2 = b2
    b3 = b3
    e1 = e1
    e2 = e2
    Batches = {b1, b2}
    BatchExecutions = {e1}
    ExecutionOf <- TwoOf
    Actionable = {b1}
    Acceptors = {a1}
    QueueMax = 1
    MaxPosts <- PostsOfTwo
    Chunks = 1
    MaxCrashes = 0
    NoAcceptor = NoAcceptor
    SupCommands = {c1}
    c1 = c1
    c2 = c2
    m1 = m1
    m2 = m2
    MarksOf <- TwiceMarked
    MaxAttempts = 3
    parent = parent
    child = child
    Executions = {parent, child}
    ParentOf <- ParentChild
    NoParent = NoParent
    Callers = {o1}
    StepsEach = 2
\* Executions and calls end.
CHECK_DEADLOCK FALSE
PROPERTIES
    EntryStepEnds

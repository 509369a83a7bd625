\* A loop of four with three in flight; a playbook of four steps; a batch posted
\* twice to a server that stops once; an execution with a child and an
\* operator; two slots; two server instances; two events and a failed call; two
\* requests.
SPECIFICATION LiveSpec
CONSTANTS
    Size = 4
    MaxInFlight = 3
    RepairThreshold = 64
    FirstStep = TRUE
    FaultKinds <- NoFault
    MaxFaults = 0
    Steps = {"s", "a", "b", "j"}
    Entry = "s"
    Arcs <- Playbook
    Inclusive = {"s"}
    Quiet = {}
    MaxRuns = 2
    FailedPosts = TRUE
    DoubleReports = FALSE
    Losses = FALSE
    b1 = b1
    e1 = e1
    Batches = {b1}
    BatchExecutions = {e1}
    ExecutionOf <- BatchOf
    Actionable = {b1}
    Acceptors = {a1, a2}
    QueueMax = 1
    MaxPosts <- PostsOf
    Chunks = 1
    MaxCrashes = 1
    NoAcceptor = NoAcceptor
    parent = parent
    child = child
    Executions = {parent, child}
    ParentOf <- ParentChild
    NoParent = NoParent
    Callers = {o1}
    StepsEach = 2
    A = A
    B = B
    StageSlots = {A, B}
    MaxExecs <- OncePerSlot
    MaxIndex = 0
    FullLease = 1
    ClaimTries = 1
    NoFrame = NoFrame
    Instances = {i1, i2}
    Interrupted = {n1}
    LeaseTime = 1
    MaxCandidates = 1
    RestartMode = TRUE
    NoInstance = NoInstance
    v1 = v1
    v2 = v2
    x1 = x1
    f1 = f1
    Events = {v1, v2}
    VersionOf <- Versions
    Records = {x1, f1}
    RecordsOf <- Folded
    Drainers = {d1}
    BatchLimit = 2
    MaxInflight = 2
    MaxDeliver = 2
    MaxFailures = 1
    Strands = FALSE
    NoEvent = NoEvent
    r1 = r1
    r2 = r2
    Requests = {r1, r2}
    RetriesAnswer = {r1}
    MinLimit = 10
    MaxLimit = 20
    MaxTries = 2
\* Everything ends.
CHECK_DEADLOCK FALSE
PROPERTIES
    LoopCompletes
    WorkflowFinishes
    BatchesSettle
    EndedRests
    StageCloses
    RecoveryEnds
    EventsShow
    RequestsEnd

\* Two slots, one of them executed twice; two server instances and an interrupted
\* execution; two events, two drainers, two failed calls; three requests.
SPECIFICATION Spec
CONSTANTS
    A = A
    B = B
    StageSlots = {A, B}
    MaxExecs <- Executed
    MaxIndex = 0
    FullLease = 1
    ClaimTries = 1
    NoFrame = NoFrame
    Instances = {i1, i2}
    Interrupted = {n1}
    LeaseTime = 1
    MaxCandidates = 1
    RestartMode = TRUE
    NoInstance = NoInstance
    v1 = v1
    v2 = v2
    x1 = x1
    f1 = f1
    Events = {v1, v2}
    VersionOf <- Versions
    Records = {x1, f1}
    RecordsOf <- Folded
    Drainers = {d1, d2}
    BatchLimit = 2
    MaxInflight = 2
    MaxDeliver = 2
    MaxFailures = 2
    Strands = TRUE
    NoEvent = NoEvent
    r1 = r1
    r2 = r2
    r3 = r3
    Requests = {r1, r2, r3}
    RetriesAnswer = {r1}
    MinLimit = 10
    MaxLimit = 20
    MaxTries = 2
\* Stages, recoveries and requests end.
CHECK_DEADLOCK FALSE
INVARIANTS
    DataTypeOK
    EndsOncePerRevival
    OneRecoversAtATime
    ReplacedOnce
    AckedIsShown
    SlotsBalanced
PROPERTIES
    ChangesHandsRightly
    NeverShowsOlder

\* Two worker processes race for one command through two replicas; one failure.
SPECIFICATION Spec
CONSTANTS
    w1 = w1
    w2 = w2
    t1 = t1
    t2 = t2
    c1 = c1
    c2 = c2
    s1 = s1
    s2 = s2
    None = None
    Commands = {c1}
    Workers = {w1, w2}
    Servers = {s1, s2}
    Tasks = {t1, t2}
    WorkerOf <- OnePerWorker
    LeaseSeconds = 1
    HeartbeatStale = 1
    HardTimeout = 1
    ReaperStale = 0
    ReaperHard = 0
    PendingRetry = 0
    OfflineAfter = 0
    MaxPerRun = 1
    MaxAge = 1
    MaxBeat = 1
    MaxQueue = 1
    MaxFaults = 1
SYMMETRY AlikeProcesses
INVARIANTS
    TypeOK
    ExecutionImpliesClaim
    CompletedNeverRunning
    PendingIsCarried
PROPERTIES
    OnlyStaleReadersSteal

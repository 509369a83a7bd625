\* Two worker processes, one command, one failure, under fairness.
SPECIFICATION LiveSpec
CONSTANTS
    w1 = w1
    w2 = w2
    t1 = t1
    t2 = t2
    c1 = c1
    c2 = c2
    s1 = s1
    s2 = s2
    None = None
    Commands = {c1}
    Workers = {w1, w2}
    Servers = {s1}
    Tasks = {t1, t2}
    WorkerOf <- OnePerWorker
    LeaseSeconds = 1
    HeartbeatStale = 1
    HardTimeout = 1
    ReaperStale = 0
    ReaperHard = 0
    PendingRetry = 0
    OfflineAfter = 1
    MaxPerRun = 1
    MaxAge = 1
    MaxBeat = 1
    MaxQueue = 1
    MaxFaults = 1
PROPERTIES
    EventuallySettled

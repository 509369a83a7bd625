\* A claim commits over a row that was settled after it was read.
SPECIFICATION Spec
CONSTANTS
    w1 = w1
    w2 = w2
    t1 = t1
    t2 = t2
    c1 = c1
    c2 = c2
    s1 = s1
    s2 = s2
    None = None
    Commands = {c1}
    Workers = {w1, w2}
    Servers = {s1}
    Tasks = {t1, t2}
    WorkerOf <- OnePerWorker
    LeaseSeconds = 1
    HeartbeatStale = 1
    HardTimeout = 2
    ReaperStale = 0
    ReaperHard = 1
    PendingRetry = 0
    OfflineAfter = 0
    MaxPerRun = 1
    MaxAge = 2
    MaxBeat = 1
    MaxQueue = 2
    MaxFaults = 0
PROPERTIES
    TerminalNeverDowngraded

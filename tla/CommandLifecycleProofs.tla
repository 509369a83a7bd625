----------------------- MODULE CommandLifecycleProofs -----------------------
(***************************************************************************)
(* Proofs about CommandLifecycle for every number of commands, workers,    *)
(* replicas and tasks, every threshold and every bound.                    *)
(***************************************************************************)
EXTENDS CommandLifecycle, TLAPS

Claimed(c) == row[c].status \in Active \cup Terminal

\* A busy task names a command; a request inside a server names the command its
\* task waits for, and only a claiming task has one.
Wellformed ==
    \A t \in Tasks :
        /\ task[t].pc # "idle" => task[t].cmd \in Commands
        /\ req[t].pc \in {"read", "locked", "committed"} =>
              /\ req[t].cmd \in Commands
              /\ req[t].server \in Servers
              /\ task[t].pc = "claiming" => task[t].cmd = req[t].cmd
        /\ task[t].pc \notin {"idle", "claiming"} => req[t].pc = "idle"

\* Everybody who believes that a command was claimed is right.
ClaimsKnown ==
    /\ \A t \in Tasks :
        /\ task[t].pc \in {"claimed", "running", "failing"} => Claimed(task[t].cmd)
        /\ req[t].pc = "ok" /\ task[t].pc = "claiming" => Claimed(task[t].cmd)
        /\ req[t].pc = "committed" => Claimed(req[t].cmd)
        /\ req[t].pc \in {"read", "locked"} /\ req[t].snap.status \in Active
              => Claimed(req[t].cmd)
    /\ \A s \in Servers, c \in Commands : cache[s][c] # None => Claimed(c)

\* A request that is about to take over another worker's claim read one whose
\* lease had run out.
TakesExpired ==
    \A t \in Tasks : req[t].pc = "locked" /\ HeldByOther(t)
                        => req[t].snap.age >= LeaseSeconds

\* The inductive invariant.
IInv == /\ TypeOK
        /\ Wellformed
        /\ CompletedNeverRunning
        /\ ClaimsKnown
        /\ TakesExpired

\* The only ways in which a step changes the row of a command.
RowStep(c) ==
    \/ row'[c] = row[c]
    \/ /\ row[c].status = "NONE"
       /\ row'[c] = [row[c] EXCEPT !.status = "PENDING", !.age = 0]
    \/ \E t \in Tasks : /\ req[t].pc = "locked" /\ req[t].cmd = c
                        /\ row'[c] = ClaimedBy(row[c], Owner(t))
    \/ row'[c] = Started(row[c]) /\ (c \in late \/ \E t \in Tasks : task[t].pc = "claimed" /\ task[t].cmd = c)
    \/ \E st \in Terminal : row'[c] = Settled(row[c], st)
    \/ row'[c] = Aged(row[c])

-----------------------------------------------------------------------------
\* What the helpers return.

LEMMA NotifyType ==
    ASSUME TypeOK, NEW C, Notify(C)
    PROVE  queue' \in [Commands -> 0 .. MaxQueue]
  BY LifecycleAssumption DEF TypeOK, Notify, More

LEMMA OlderType ==
    ASSUME NEW bound \in Nat, NEW n \in 0 .. bound
    PROVE  Older(n, bound) \in 0 .. bound /\ Older(n, bound) >= n
  BY DEF Older

LEMMA AgedType ==
    ASSUME NEW r \in Row
    PROVE  /\ Aged(r) \in Row
           /\ Aged(r).status = r.status /\ Aged(r).worker = r.worker
           /\ Aged(r).done = r.done /\ Aged(r).age >= r.age
  <1>1. r.age \in 0 .. MaxAge /\ MaxAge \in Nat
    BY LifecycleAssumption DEF Row, Ages
  <1>2. Older(r.age, MaxAge) \in Ages /\ Older(r.age, MaxAge) >= r.age
    BY <1>1, OlderType DEF Ages
  <1>3. QED
    BY <1>1, <1>2 DEF Aged, Row

LEMMA RowUpdates ==
    ASSUME NEW r \in Row
    PROVE  /\ \A w \in Workers : ClaimedBy(r, w) \in Row
           /\ Started(r) \in Row
           /\ \A st \in Terminal : Settled(r, st) \in Row
           /\ [r EXCEPT !.status = "PENDING", !.age = 0] \in Row
  <1>1. 0 \in Ages
    BY LifecycleAssumption DEF Ages
  <1>2. \A w \in Workers : ClaimedBy(r, w) \in Row
    BY <1>1 DEF ClaimedBy, Row, Status, Active
  <1>3. Started(r) \in Row
    BY DEF Started, Row, Status, Active
  <1>4. \A st \in Terminal : Settled(r, st) \in Row
    BY <1>1 DEF Settled, Row, Status
  <1>5. [r EXCEPT !.status = "PENDING", !.age = 0] \in Row
    BY <1>1 DEF Row, Status
  <1>6. QED
    BY <1>2, <1>3, <1>4, <1>5

LEMMA EmptyRecords == NoRow \in Row /\ NoReq \in Request /\ NoTask \in Task
  <1>1. 0 \in Ages
    BY LifecycleAssumption DEF Ages
  <1>2. NoRow \in Row
    BY <1>1 DEF NoRow, Row, Status
  <1>3. QED
    BY <1>2 DEF NoReq, NoTask, Request, Task

\* A reply that leaves the server.
LEMMA ReplyType ==
    ASSUME NEW p \in {"ok", "conflict", "error"}
    PROVE  [NoReq EXCEPT !.pc = p] \in Request /\ [NoReq EXCEPT !.pc = p].pc = p
  BY EmptyRecords DEF NoReq, Request

\* The initial state satisfies the inductive invariant.
LEMMA InitIInv == Init => IInv
  <1> SUFFICES ASSUME Init PROVE IInv
    OBVIOUS
  <1>1. TypeOK
    <2>1. 0 \in 0 .. MaxBeat /\ 0 \in 0 .. MaxQueue /\ 0 \in 0 .. MaxFaults
      BY LifecycleAssumption
    <2>2. runtime \in [Workers -> [status : RuntimeStatus, hb : 0 .. MaxBeat]]
      BY <2>1 DEF Init, RuntimeStatus
    <2>3. QED
      BY <2>1, <2>2, EmptyRecords DEF Init, TypeOK
  <1>2. Wellformed /\ CompletedNeverRunning /\ ClaimsKnown /\ TakesExpired
    BY DEF Init, Wellformed, CompletedNeverRunning, ClaimsKnown, TakesExpired,
       NoRow, NoReq, NoTask
  <1>3. QED
    BY <1>1, <1>2 DEF IInv

-----------------------------------------------------------------------------
\* Every step changes the row of a command in one of the listed ways.
LEMMA RowSteps ==
    ASSUME TypeOK, Wellformed, Next
    PROVE  /\ \A c \in Commands : RowStep(c)
           /\ row' = [d \in Commands |-> row'[d]]
  <1> DEFINE Goal == /\ \A c \in Commands : RowStep(c)
                    /\ row' = [d \in Commands |-> row'[d]]
  <1> USE DEF RowStep, TypeOK, Wellformed
  <1>0. ASSUME NEW d \in Commands, NEW st \in Terminal,
               row' = [row EXCEPT ![d] = Settled(@, st)]
        PROVE  Goal
    <2>1. row'[d] = Settled(row[d], st) /\ \A c \in Commands \ {d} : row'[c] = row[c]
      BY <1>0
    <2>2. ASSUME NEW c \in Commands PROVE RowStep(c)
      <3>1. CASE c = d
        BY <2>1, <3>1
      <3>2. CASE c # d
        BY <2>1, <3>2
      <3>3. QED
        BY <3>1, <3>2
    <2>3. QED
      BY <1>0, <2>2
  <1>1. ASSUME NEW s \in Servers, NEW d \in Commands, IssueCommand(s, d)
        PROVE  Goal
    BY <1>1 DEF IssueCommand
  <1>2. ASSUME NEW t \in Tasks, ClaimCommit(t)
        PROVE  Goal
    BY <1>2 DEF ClaimCommit
  <1>3. ASSUME NEW t \in Tasks, BeginExecution(t)
        PROVE  Goal
    BY <1>3 DEF BeginExecution
  <1>4. ASSUME NEW d \in Commands, LateStarted(d)
        PROVE  Goal
    BY <1>4 DEF LateStarted
  <1>5. ASSUME NEW t \in Tasks, NEW s \in Servers, NEW st \in Terminal,
               FinishExecution(t, s, st) \/ FinishUnacknowledged(t, s, st)
        PROVE  Goal
    <2>1. task[t].cmd \in Commands
      BY <1>5 DEF FinishExecution, FinishUnacknowledged
    <2>2. row' = row \/ row' = [row EXCEPT ![task[t].cmd] = Settled(@, st)]
      BY <1>5 DEF FinishExecution, FinishUnacknowledged
    <2>3. CASE row' = row
      BY <2>3
    <2>4. QED
      BY <1>0, <2>1, <2>2, <2>3
  <1>6. ASSUME NEW t \in Tasks, NEW s \in Servers, ReportFailure(t, s)
        PROVE  Goal
    <2>1. task[t].cmd \in Commands
      BY <1>6 DEF ReportFailure
    <2>2. row' = row \/ row' = [row EXCEPT ![task[t].cmd] = Settled(@, "FAILED")]
      BY <1>6 DEF ReportFailure
    <2>3. CASE row' = row
      BY <2>3
    <2>4. QED
      BY <1>0, <2>1, <2>2, <2>3 DEF Terminal
  <1>7. CASE Tick
    BY <1>7 DEF Tick
  <1>8. ASSUME row' = row
        PROVE  Goal
    BY <1>8
  <1>9. ASSUME NEW s \in Servers, NEW d \in Commands,
               \/ PublishCommand(s, d) \/ RecoverUnclaimed(s, d) \/ ExpireCache(s, d)
        PROVE  row' = row
    BY <1>9 DEF PublishCommand, RecoverUnclaimed, ExpireCache, database
  <1>10. ASSUME ReaperSweep \/ SweepRuntime \/ EndExecution
                \/ \E s \in Servers : ServerCrash(s)
         PROVE  row' = row
    BY <1>10 DEF ReaperSweep, SweepRuntime, EndExecution, ServerCrash, database
  <1>11. ASSUME NEW t \in Tasks, ClaimStep(t), ~ClaimCommit(t)
         PROVE  row' = row
    BY <1>11 DEF ClaimStep, ClaimCacheHit, ClaimReadRow, ClaimRefuse, ClaimRepeat,
       ClaimLock, ClaimReply, ClaimError, database
  <1>12. ASSUME NEW t \in Tasks,
                \/ \E d \in Commands : Deliver(t, d)
                \/ Redeliver(t) \/ ClaimOk(t) \/ ClaimSkip(t) \/ ClaimRetry(t)
                \/ ClaimAbandon(t) \/ DropReply(t) \/ CallbackTimeout(t)
         PROVE  row' = row
    BY <1>12 DEF Deliver, Redeliver, ClaimOk, ClaimSkip, ClaimRetry, ClaimAbandon,
       DropReply, CallbackTimeout, database
  <1>13. ASSUME NEW w \in Workers, WorkerStep(w)
         PROVE  row' = row
    BY <1>13 DEF WorkerStep, StartWorker, Heartbeat, CrashWorker, StopWorker,
       EndWorker, ExpireRecent, database
  <1>14. ASSUME NEW d \in Commands, LoseNotification(d)
         PROVE  row' = row
    BY <1>14 DEF LoseNotification, database
  <1>15. QED
    BY <1>1, <1>2, <1>3, <1>4, <1>5, <1>6, <1>7, <1>8, <1>9, <1>10, <1>11, <1>12,
       <1>13, <1>14 DEF Next, ServerStep, TaskStep

\* A claimed command stays claimed, and a completed one is not shown as running.
LEMMA ClaimedStays ==
    ASSUME TypeOK, Wellformed, Next, NEW c \in Commands, Claimed(c)
    PROVE  Claimed(c)'
  <1>1. row[c] \in Row
    BY DEF TypeOK
  <1>2. RowStep(c)
    BY RowSteps
  <1>3. row[c].status \in Active \cup Terminal
    BY DEF Claimed
  <1>4. Aged(row[c]).status = row[c].status
    BY <1>1, AgedType
  <1>5. \A w : ClaimedBy(row[c], w).status = "CLAIMED"
    BY <1>1 DEF ClaimedBy, Row
  <1>6. Started(row[c]).status \in {row[c].status, "RUNNING"}
    BY <1>1 DEF Started, Row
  <1>7. \A st : Settled(row[c], st).status = st
    BY <1>1 DEF Settled, Row
  <1>8. row'[c].status \in Active \cup Terminal
    BY <1>2, <1>3, <1>4, <1>5, <1>6, <1>7 DEF RowStep, Active, Terminal
  <1>9. QED
    BY <1>8 DEF Claimed

LEMMA CompletedStep ==
    ASSUME TypeOK, Wellformed, CompletedNeverRunning, Next
    PROVE  CompletedNeverRunning'
  <1> SUFFICES ASSUME NEW c \in Commands, row'[c].done, row'[c].status = "RUNNING"
               PROVE  FALSE
    BY DEF CompletedNeverRunning
  <1>1. row[c] \in Row /\ RowStep(c) /\ (row[c].done => row[c].status # "RUNNING")
    BY RowSteps DEF TypeOK, CompletedNeverRunning
  <1>2. Aged(row[c]).status = row[c].status /\ Aged(row[c]).done = row[c].done
    BY <1>1, AgedType
  <1>3. \A w : ClaimedBy(row[c], w).status # "RUNNING"
    BY <1>1 DEF ClaimedBy, Row
  <1>4. Started(row[c]).done => Started(row[c]).status # "RUNNING"
    BY <1>1 DEF Started, Row
  <1>5. \A st \in Terminal : Settled(row[c], st).status # "RUNNING"
    BY <1>1 DEF Settled, Row, Terminal
  <1>6. QED
    BY <1>1, <1>2, <1>3, <1>4, <1>5 DEF RowStep, Row

-----------------------------------------------------------------------------
\* The only ways in which a step changes the claim request of a task.
ReqStep(t) ==
    LET c == task[t].cmd IN
    \/ req'[t] = req[t]
    \/ req'[t] = [req[t] EXCEPT !.snap = Aged(@)]
    \/ /\ task[t].pc = "claiming" /\ req[t].pc = "idle"
       /\ req'[t].pc \in {"read", "conflict"}
       /\ req'[t].pc = "read" => /\ req'[t].cmd = c /\ req'[t].server \in Servers
                                 /\ req'[t].snap = row[c]
    \/ /\ req[t].pc = "read" /\ ~KeepsClaim(t) /\ req'[t] = [req[t] EXCEPT !.pc = "locked"]
    \/ /\ req[t].pc = "locked"
       /\ req'[t] = [req[t] EXCEPT !.pc = "committed", !.snap = NoRow]
       /\ row'[req[t].cmd].status = "CLAIMED"
    \/ /\ req'[t].pc = "ok" /\ \/ req[t].pc = "read" /\ RepeatsClaim(t)
                               \/ req[t].pc = "committed"
    \/ req'[t].pc \in {"conflict", "error"} /\ req[t].pc \in {"read", "locked", "committed"}
    \/ req'[t].pc = "idle" /\ req[t].pc \in {"ok", "conflict", "error"}

LEMMA ReqSteps ==
    ASSUME TypeOK, Wellformed, Next
    PROVE  (\A t \in Tasks : ReqStep(t)) /\ req' \in [Tasks -> Request]
  <1> DEFINE Goal == (\A t \in Tasks : ReqStep(t)) /\ req' \in [Tasks -> Request]
  <1>0. req \in [Tasks -> Request] /\ row \in [Commands -> Row]
    BY DEF TypeOK
  <1>1. ASSUME req' = req PROVE Goal
    BY <1>0, <1>1 DEF ReqStep
  <1>2. ASSUME NEW u \in Tasks, NEW s \in Servers, ClaimCacheHit(u, s)
        PROVE  Goal
    BY <1>0, <1>2 DEF ClaimCacheHit, ReqStep, Request
  <1>3. ASSUME NEW u \in Tasks, NEW s \in Servers, ClaimReadRow(u, s)
        PROVE  Goal
    <2>1. task[u].cmd \in Commands
      BY <1>3 DEF ClaimReadRow, Wellformed
    <2>2. CASE req' = [req EXCEPT ![u].pc = "conflict"]
      BY <1>0, <1>3, <2>2 DEF ClaimReadRow, ReqStep, Request
    <2>3. CASE req' = [req EXCEPT ![u] = [pc |-> "read", cmd |-> task[u].cmd,
                                          server |-> s, snap |-> row[task[u].cmd]]]
      <3>1. [pc |-> "read", cmd |-> task[u].cmd, server |-> s,
             snap |-> row[task[u].cmd]] \in Request
        BY <1>0, <2>1 DEF Request
      <3>2. QED
        BY <1>0, <1>3, <2>3, <3>1 DEF ClaimReadRow, ReqStep
    <2>4. QED
      BY <1>3, <2>2, <2>3 DEF ClaimReadRow
  <1>4. ASSUME NEW u \in Tasks, ClaimRefuse(u) \/ ClaimRepeat(u) \/ ClaimReply(u) \/ ClaimError(u)
        PROVE  Goal
    BY <1>0, <1>4, ReplyType DEF ClaimRefuse, ClaimRepeat, ClaimReply, ClaimError, ReqStep
  <1>5. ASSUME NEW u \in Tasks, ClaimLock(u)
        PROVE  Goal
    BY <1>0, <1>5 DEF ClaimLock, ReqStep, Request
  <1>6. ASSUME NEW u \in Tasks, ClaimCommit(u)
        PROVE  Goal
    <2>1. req[u].cmd \in Commands /\ row[req[u].cmd] \in Row
      BY <1>0, <1>6 DEF ClaimCommit, Wellformed
    <2>2. row'[req[u].cmd].status = "CLAIMED"
      BY <1>0, <1>6, <2>1 DEF ClaimCommit, ClaimedBy, Row
    <2>3. QED
      BY <1>0, <1>6, <2>2, EmptyRecords DEF ClaimCommit, ReqStep, Request
  <1>7. ASSUME NEW s \in Servers, ServerCrash(s)
        PROVE  Goal
    BY <1>0, <1>7, ReplyType DEF ServerCrash, ReqStep
  <1>8. ASSUME NEW u \in Tasks, req' = [req EXCEPT ![u] = NoReq],
               req[u].pc \in {"ok", "conflict", "error"}
        PROVE  Goal
    BY <1>0, <1>8, EmptyRecords DEF ReqStep, NoReq
  <1>9. CASE Tick
    <2>1. \A u \in Tasks : req[u].snap \in Row
      BY <1>0 DEF Request
    <2>2. \A u \in Tasks : [req[u] EXCEPT !.snap = Aged(@)] \in Request
      BY <1>0, <2>1, AgedType DEF Request
    <2>3. QED
      BY <1>0, <1>9, <2>2 DEF Tick, ReqStep
  <1>10. ASSUME NEW s \in Servers, NEW d \in Commands,
                \/ IssueCommand(s, d) \/ PublishCommand(s, d)
                \/ RecoverUnclaimed(s, d) \/ ExpireCache(s, d)
         PROVE  req' = req
    BY <1>10 DEF IssueCommand, PublishCommand, RecoverUnclaimed, ExpireCache
  <1>11. ASSUME ReaperSweep \/ SweepRuntime \/ EndExecution
         PROVE  req' = req
    BY <1>11 DEF ReaperSweep, SweepRuntime, EndExecution
  <1>12. ASSUME NEW u \in Tasks,
                \/ \E d \in Commands : Deliver(u, d)
                \/ Redeliver(u) \/ ClaimAbandon(u) \/ BeginExecution(u)
                \/ \E s \in Servers, st \in Terminal :
                      FinishExecution(u, s, st) \/ FinishUnacknowledged(u, s, st)
                \/ \E s \in Servers : ReportFailure(u, s)
                \/ CallbackTimeout(u)
         PROVE  req' = req
    BY <1>12 DEF Deliver, Redeliver, ClaimAbandon, BeginExecution, FinishExecution,
       FinishUnacknowledged, ReportFailure, CallbackTimeout
  <1>13. ASSUME NEW w \in Workers, WorkerStep(w)
         PROVE  req' = req
    BY <1>13 DEF WorkerStep, StartWorker, Heartbeat, CrashWorker, StopWorker,
       EndWorker, ExpireRecent
  <1>14. ASSUME NEW d \in Commands, LateStarted(d) \/ LoseNotification(d)
         PROVE  req' = req
    BY <1>14 DEF LateStarted, LoseNotification
  <1>15. ASSUME NEW u \in Tasks, ClaimOk(u) \/ ClaimSkip(u) \/ ClaimRetry(u) \/ DropReply(u)
         PROVE  Goal
    BY <1>8, <1>15 DEF ClaimOk, ClaimSkip, ClaimRetry, DropReply, ReplyTaken
  <1>16. QED
    BY <1>1, <1>2, <1>3, <1>4, <1>5, <1>6, <1>7, <1>9, <1>10, <1>11, <1>12,
       <1>13, <1>14, <1>15 DEF Next, ServerStep, ClaimStep, TaskStep

\* The only ways in which a step changes what a task does.
TaskChange(t) ==
    \/ task'[t] = task[t]
    \/ task'[t] = NoTask
    \/ /\ task[t].pc = "idle" /\ req'[t].pc = "idle"
       /\ task'[t].pc = "claiming" /\ task'[t].cmd \in Commands
    \/ /\ task[t].pc = "claiming" /\ req[t].pc = "ok" /\ req'[t].pc = "idle"
       /\ task'[t] = [task[t] EXCEPT !.pc = "claimed"]
    \/ task[t].pc = "claimed" /\ task'[t] = [task[t] EXCEPT !.pc = "running"]
    \/ task[t].pc = "running" /\ task'[t] = [task[t] EXCEPT !.pc = "failing"]

LEMMA TaskChanges ==
    ASSUME TypeOK, Next
    PROVE  (\A t \in Tasks : TaskChange(t)) /\ task' \in [Tasks -> Task]
  <1> DEFINE Goal == (\A t \in Tasks : TaskChange(t)) /\ task' \in [Tasks -> Task]
  <1>0. task \in [Tasks -> Task] /\ NoTask \in Task /\ req \in [Tasks -> Request]
    BY EmptyRecords DEF TypeOK
  <1>1. ASSUME task' = task PROVE Goal
    BY <1>0, <1>1 DEF TaskChange
  <1>2. ASSUME NEW u \in Tasks, task' = [task EXCEPT ![u] = NoTask] PROVE Goal
    BY <1>0, <1>2 DEF TaskChange
  <1>3. ASSUME NEW u \in Tasks, NEW d \in Commands, Deliver(u, d) PROVE Goal
    BY <1>0, <1>3 DEF Deliver, TaskChange, Task
  <1>4. ASSUME NEW u \in Tasks, ClaimOk(u) PROVE Goal
    BY <1>0, <1>4 DEF ClaimOk, ReplyTaken, TaskChange, Task, NoReq
  <1>5. ASSUME NEW u \in Tasks, BeginExecution(u) PROVE Goal
    BY <1>0, <1>5 DEF BeginExecution, TaskChange, Task
  <1>6. ASSUME NEW u \in Tasks, NEW s \in Servers, NEW st \in Terminal,
               FinishUnacknowledged(u, s, st)
        PROVE  Goal
    BY <1>0, <1>6 DEF FinishUnacknowledged, TaskChange, Task
  <1>7. ASSUME NEW u \in Tasks,
               \/ ClaimSkip(u) \/ ClaimAbandon(u) \/ CallbackTimeout(u)
               \/ \E s \in Servers, st \in Terminal : FinishExecution(u, s, st)
        PROVE  Goal
    BY <1>2, <1>7 DEF ClaimSkip, ClaimAbandon, CallbackTimeout, FinishExecution, Ack, Nak
  <1>8. ASSUME NEW u \in Tasks,
               ClaimRetry(u) \/ \E s \in Servers : ReportFailure(u, s)
        PROVE  Goal
    BY <1>1, <1>2, <1>8 DEF ClaimRetry, ReportFailure, Ack, Nak
  <1>9. ASSUME NEW w \in Workers, CrashWorker(w) \/ StopWorker(w)
        PROVE  Goal
    BY <1>0, <1>9 DEF CrashWorker, StopWorker, EndWorker, TaskChange
  <1>10. ASSUME ServerStep
         PROVE  task' = task
    BY <1>10 DEF ServerStep, IssueCommand, PublishCommand, RecoverUnclaimed, ExpireCache,
       ReaperSweep, SweepRuntime, ServerCrash, workerside
  <1>11. ASSUME NEW u \in Tasks, ClaimStep(u) \/ Redeliver(u) \/ DropReply(u)
         PROVE  task' = task
    BY <1>11 DEF ClaimStep, ClaimCacheHit, ClaimReadRow, ClaimRefuse, ClaimRepeat,
       ClaimLock, ClaimCommit, ClaimReply, ClaimError, Redeliver, DropReply, workerside
  <1>12. ASSUME NEW w \in Workers, \/ StartWorker(w) \/ Heartbeat(w)
                                   \/ \E d \in Commands : ExpireRecent(w, d)
         PROVE  task' = task
    BY <1>12 DEF StartWorker, Heartbeat, ExpireRecent, workerside
  <1>13. ASSUME \/ EndExecution \/ Tick
                \/ \E d \in Commands : LateStarted(d) \/ LoseNotification(d)
         PROVE  task' = task
    BY <1>13 DEF EndExecution, Tick, LateStarted, LoseNotification, workerside
  <1>14. QED
    BY <1>1, <1>3, <1>4, <1>5, <1>6, <1>7, <1>8, <1>9, <1>10, <1>11, <1>12, <1>13
       DEF Next, TaskStep, WorkerStep

LEMMA WellformedStep ==
    ASSUME TypeOK, Wellformed, Next
    PROVE  Wellformed'
  <1> SUFFICES ASSUME NEW t \in Tasks
      PROVE /\ task'[t].pc # "idle" => task'[t].cmd \in Commands
            /\ req'[t].pc \in {"read", "locked", "committed"} =>
                 /\ req'[t].cmd \in Commands
                 /\ req'[t].server \in Servers
                 /\ task'[t].pc = "claiming" => task'[t].cmd = req'[t].cmd
            /\ task'[t].pc \notin {"idle", "claiming"} => req'[t].pc = "idle"
    BY DEF Wellformed
  <1>1. TaskChange(t) /\ ReqStep(t)
    BY TaskChanges, ReqSteps
  <1>2. /\ task[t].pc # "idle" => task[t].cmd \in Commands
        /\ req[t].pc \in {"read", "locked", "committed"} =>
             /\ req[t].cmd \in Commands
             /\ req[t].server \in Servers
             /\ task[t].pc = "claiming" => task[t].cmd = req[t].cmd
        /\ task[t].pc \notin {"idle", "claiming"} => req[t].pc = "idle"
    BY DEF Wellformed
  <1>3. task[t] \in Task /\ req[t] \in Request
    BY DEF TypeOK
  <1>4. task'[t].pc # "idle" => task'[t].cmd \in Commands
    BY <1>1, <1>2, <1>3 DEF TaskChange, NoTask, Task
  <1>5. task'[t].pc = "claiming" =>
          task'[t] = task[t] \/ req'[t].pc = "idle"
    BY <1>1, <1>3 DEF TaskChange, NoTask, Task
  <1>6. req'[t].pc \in {"read", "locked", "committed"} =>
          \/ /\ req[t].pc = "idle" /\ task[t].pc = "claiming"
             /\ req'[t].cmd = task[t].cmd /\ req'[t].server \in Servers
          \/ /\ req[t].pc \in {"read", "locked", "committed"}
             /\ req'[t].cmd = req[t].cmd /\ req'[t].server = req[t].server
    BY <1>1, <1>3 DEF ReqStep, Request
  <1>7. task'[t].pc \notin {"idle", "claiming"} =>
          \/ req'[t].pc = "idle"
          \/ task[t].pc \notin {"idle", "claiming"}
    BY <1>1, <1>3 DEF TaskChange, NoTask, Task
  <1>8. req[t].pc = "idle" /\ task[t].pc # "claiming" => req'[t].pc = "idle"
    BY <1>1, <1>3 DEF ReqStep, Request
  <1>9. QED
    BY <1>2, <1>4, <1>5, <1>6, <1>7, <1>8

\* What a replica caches about a command: what it cached before, nothing, or the
\* holder of a claim that the request or the row shows.
CacheChange(s, c) ==
    \/ cache'[s][c] \in {cache[s][c], None}
    \/ /\ cache'[s][c] \in Workers
       /\ \E t \in Tasks :
            /\ req[t].cmd = c
            /\ \/ req[t].pc = "committed"
               \/ req[t].pc = "read" /\ req[t].snap.status \in Active

LEMMA CacheChanges ==
    ASSUME TypeOK, Wellformed, Next
    PROVE  /\ \A s \in Servers, c \in Commands : CacheChange(s, c)
           /\ cache' \in [Servers -> [Commands -> Workers \cup {None}]]
  <1> DEFINE Goal == /\ \A s \in Servers, c \in Commands : CacheChange(s, c)
                     /\ cache' \in [Servers -> [Commands -> Workers \cup {None}]]
  <1>0. /\ cache \in [Servers -> [Commands -> Workers \cup {None}]]
        /\ req \in [Tasks -> Request]
        /\ \A t \in Tasks : Owner(t) \in Workers
    BY LifecycleAssumption DEF TypeOK, Owner
  <1>1. ASSUME cache' = cache PROVE Goal
    BY <1>0, <1>1 DEF CacheChange
  <1>2. ASSUME NEW s \in Servers, NEW d \in Commands,
               cache' = [cache EXCEPT ![s][d] = None]
        PROVE  Goal
    BY <1>0, <1>2 DEF CacheChange
  <1>3. ASSUME NEW s \in Servers, NEW d \in Commands, NEW w \in Workers, NEW t \in Tasks,
               cache' = [cache EXCEPT ![s][d] = w],
               req[t].cmd = d,
               \/ req[t].pc = "committed"
               \/ req[t].pc = "read" /\ req[t].snap.status \in Active
        PROVE  Goal
    BY <1>0, <1>3 DEF CacheChange
  <1>4. ASSUME NEW s \in Servers, ServerCrash(s) PROVE Goal
    BY <1>0, <1>4 DEF ServerCrash, CacheChange
  <1>5. ASSUME NEW s \in Servers, NEW d \in Commands, ExpireCache(s, d) PROVE Goal
    BY <1>2, <1>5 DEF ExpireCache
  <1>6. ASSUME NEW t \in Tasks, NEW s \in Servers, ClaimReadRow(t, s) PROVE Goal
    <2>1. task[t].cmd \in Commands
      BY <1>6 DEF ClaimReadRow, Wellformed
    <2>2. QED
      BY <1>1, <1>2, <1>6, <2>1 DEF ClaimReadRow
  <1>7. ASSUME NEW t \in Tasks, ClaimRefuse(t) PROVE Goal
    <2>1. req[t].cmd \in Commands /\ req[t].server \in Servers /\ req[t].pc = "read"
      BY <1>7 DEF ClaimRefuse, Wellformed
    <2>2. CASE cache' = cache \/ cache' = [cache EXCEPT ![req[t].server][req[t].cmd] = None]
      BY <1>1, <1>2, <2>1, <2>2
    <2>3. CASE /\ KeepsClaim(t)
               /\ cache' = [cache EXCEPT ![req[t].server][req[t].cmd] = req[t].snap.worker]
      <3>1. req[t].snap.status \in Active
        BY <2>3 DEF KeepsClaim, HeldByOther, HeldBySelf
      <3>2. req[t].snap.worker \in Workers \cup {None}
        BY <1>0 DEF Request, Row
      <3>3. CASE req[t].snap.worker = None
        BY <1>2, <2>1, <2>3, <3>3
      <3>4. CASE req[t].snap.worker \in Workers
        BY <1>3, <2>1, <2>3, <3>1, <3>4
      <3>5. QED
        BY <3>2, <3>3, <3>4
    <2>4. QED
      BY <1>7, <2>2, <2>3 DEF ClaimRefuse
  <1>8. ASSUME NEW t \in Tasks, ClaimRepeat(t) \/ ClaimReply(t) PROVE Goal
    <2>1. req[t].cmd \in Commands /\ req[t].server \in Servers
      BY <1>8 DEF ClaimRepeat, ClaimReply, Wellformed
    <2>2. \/ req[t].pc = "committed"
          \/ req[t].pc = "read" /\ req[t].snap.status \in Active
      BY <1>8 DEF ClaimRepeat, ClaimReply, RepeatsClaim, HeldBySelf
    <2>3. cache' = [cache EXCEPT ![req[t].server][req[t].cmd] = Owner(t)]
      BY <1>8 DEF ClaimRepeat, ClaimReply
    <2>4. QED
      BY <1>0, <1>3, <2>1, <2>2, <2>3
  <1>9. ASSUME NEW t \in Tasks, NEW s \in Servers,
               \/ \E st \in Terminal : FinishExecution(t, s, st) \/ FinishUnacknowledged(t, s, st)
               \/ ReportFailure(t, s)
        PROVE  Goal
    <2>1. task[t].cmd \in Commands
      BY <1>9 DEF FinishExecution, FinishUnacknowledged, ReportFailure, Wellformed
    <2>2. cache' = cache \/ cache' = [cache EXCEPT ![s][task[t].cmd] = None]
      BY <1>9 DEF FinishExecution, FinishUnacknowledged, ReportFailure
    <2>3. QED
      BY <1>1, <1>2, <2>1, <2>2
  <1>10. ASSUME \/ \E s \in Servers, c \in Commands :
                     IssueCommand(s, c) \/ PublishCommand(s, c) \/ RecoverUnclaimed(s, c)
                \/ ReaperSweep \/ SweepRuntime \/ EndExecution \/ Tick
                \/ \E d \in Commands : LateStarted(d) \/ LoseNotification(d)
         PROVE  cache' = cache
    BY <1>10 DEF IssueCommand, PublishCommand, RecoverUnclaimed, ReaperSweep, SweepRuntime,
       EndExecution, Tick, LateStarted, LoseNotification, replica
  <1>11. ASSUME NEW t \in Tasks, NEW s \in Servers,
                \/ ClaimCacheHit(t, s) \/ ClaimLock(t) \/ ClaimCommit(t) \/ ClaimError(t)
         PROVE  cache' = cache
    BY <1>11 DEF ClaimCacheHit, ClaimLock, ClaimCommit, ClaimError, replica
  <1>12. ASSUME NEW t \in Tasks,
                \/ \E d \in Commands : Deliver(t, d)
                \/ Redeliver(t) \/ ClaimOk(t) \/ ClaimSkip(t) \/ ClaimRetry(t)
                \/ ClaimAbandon(t) \/ DropReply(t) \/ BeginExecution(t) \/ CallbackTimeout(t)
         PROVE  cache' = cache
    BY <1>12 DEF Deliver, Redeliver, ClaimOk, ClaimSkip, ClaimRetry, ClaimAbandon,
       DropReply, BeginExecution, CallbackTimeout, replica
  <1>13. ASSUME NEW w \in Workers, WorkerStep(w)
         PROVE  cache' = cache
    BY <1>13 DEF WorkerStep, StartWorker, Heartbeat, CrashWorker, StopWorker,
       EndWorker, ExpireRecent, replica
  <1>14. ASSUME NEW t \in Tasks, ClaimLock(t) \/ ClaimCommit(t) \/ ClaimError(t)
         PROVE  cache' = cache
    BY <1>14 DEF ClaimLock, ClaimCommit, ClaimError, replica
  <1>15. QED
    BY <1>1, <1>4, <1>5, <1>6, <1>7, <1>8, <1>9, <1>10, <1>11, <1>12, <1>13, <1>14
       DEF Next, ServerStep, ClaimStep, TaskStep

\* The variables that a step changes by itself.
RestOK ==
    /\ ended \in BOOLEAN
    /\ runtime \in [Workers -> [status : RuntimeStatus, hb : 0 .. MaxBeat]]
    /\ unpublished \in [Servers -> SUBSET Commands]
    /\ recovery \in [Servers -> SUBSET Commands]
    /\ queue \in [Commands -> 0 .. MaxQueue]
    /\ late \in SUBSET Commands
    /\ recent \in [Workers -> SUBSET Commands]
    /\ up \in [Workers -> {"new", "up", "dead"}]
    /\ faults \in 0 .. MaxFaults

LEMMA RestStep ==
    ASSUME TypeOK, Wellformed, Next
    PROVE  RestOK'
  <1>0. /\ RestOK
        /\ MaxFaults \in Nat /\ MaxBeat \in Nat /\ MaxQueue \in Nat
        /\ \A t \in Tasks : Owner(t) \in Workers
    BY LifecycleAssumption DEF TypeOK, RestOK, Owner
  <1>1. ASSUME Fault PROVE faults' \in 0 .. MaxFaults
    BY <1>0, <1>1 DEF Fault, RestOK
  <1>2. \A C : Notify(C) => queue' \in [Commands -> 0 .. MaxQueue]
    BY NotifyType
  <1>3. ASSUME NEW s \in Servers, NEW c \in Commands,
               IssueCommand(s, c) \/ PublishCommand(s, c) \/ RecoverUnclaimed(s, c)
               \/ ExpireCache(s, c)
        PROVE  RestOK'
    <2>1. unpublished' \in [Servers -> SUBSET Commands]
      <3>1. \/ unpublished' = unpublished
            \/ unpublished' = [unpublished EXCEPT ![s] = @ \cup {c}]
            \/ unpublished' = [unpublished EXCEPT ![s] = @ \ {c}]
        BY <1>3 DEF IssueCommand, PublishCommand, RecoverUnclaimed, ExpireCache
      <3>2. QED
        BY <1>0, <3>1 DEF RestOK
    <2>2. recovery' \in [Servers -> SUBSET Commands]
      <3>1. \/ recovery' = recovery
            \/ recovery' = [recovery EXCEPT ![s] = @ \cup {c}]
            \/ recovery' = [recovery EXCEPT ![s] = @ \ {c}]
        BY <1>3 DEF IssueCommand, PublishCommand, RecoverUnclaimed, ExpireCache
      <3>2. QED
        BY <1>0, <3>1 DEF RestOK
    <2>3. queue' \in [Commands -> 0 .. MaxQueue] /\ faults' \in 0 .. MaxFaults
      <3>1. queue' = queue \/ Notify({c})
        BY <1>3 DEF IssueCommand, PublishCommand, RecoverUnclaimed, ExpireCache, network
      <3>2. faults' = faults \/ Fault
        BY <1>3 DEF IssueCommand, PublishCommand, RecoverUnclaimed, ExpireCache
      <3>3. QED
        BY <1>0, <1>1, <1>2, <3>1, <3>2 DEF RestOK
    <2>4. UNCHANGED <<ended, runtime, late, recent, up>>
      BY <1>3 DEF IssueCommand, PublishCommand, RecoverUnclaimed, ExpireCache,
         database, network, workerside
    <2>5. QED
      BY <1>0, <2>1, <2>2, <2>3, <2>4 DEF RestOK
  <1>4. CASE ReaperSweep
    BY <1>0, <1>2, <1>4 DEF ReaperSweep, RestOK, database, replica, workerside
  <1>5. CASE SweepRuntime
    <2>1. runtime' \in [Workers -> [status : RuntimeStatus, hb : 0 .. MaxBeat]]
      BY <1>0, <1>5 DEF SweepRuntime, RestOK, RuntimeStatus
    <2>2. QED
      BY <1>0, <1>5, <2>1 DEF SweepRuntime, RestOK, replica, network, workerside
  <1>6. ASSUME NEW s \in Servers, ServerCrash(s) PROVE RestOK'
    BY <1>0, <1>1, <1>6 DEF ServerCrash, RestOK, database, network, workerside
  <1>7. ASSUME NEW t \in Tasks, ClaimStep(t) PROVE RestOK'
    BY <1>0, <1>1, <1>7 DEF ClaimStep, ClaimCacheHit, ClaimReadRow, ClaimRefuse,
       ClaimRepeat, ClaimLock, ClaimCommit, ClaimReply, ClaimError, RestOK,
       database, replica, network, workerside
  <1>8. ASSUME NEW t \in Tasks, NEW c \in Commands, Deliver(t, c) PROVE RestOK'
    BY <1>0, <1>8 DEF Deliver, RestOK, database, replica
  <1>9. ASSUME NEW t \in Tasks,
               Redeliver(t) \/ ClaimRetry(t) \/ ClaimAbandon(t) \/ CallbackTimeout(t)
        PROVE  RestOK'
    BY <1>0, <1>1, <1>2, <1>9 DEF Redeliver, ClaimRetry, ClaimAbandon, CallbackTimeout,
       Nak, RestOK, database, replica, workerside
  <1>10. ASSUME NEW t \in Tasks, ClaimOk(t) \/ ClaimSkip(t) \/ DropReply(t)
         PROVE  RestOK'
    <2>1. task[t].pc = "claiming" => task[t].cmd \in Commands
      BY DEF Wellformed
    <2>2. recent' \in [Workers -> SUBSET Commands]
      BY <1>0, <1>10, <2>1 DEF ClaimOk, ClaimSkip, DropReply, ReplyTaken, Remember,
         RestOK, workerside
    <2>3. UNCHANGED <<ended, runtime, unpublished, recovery, queue, late, up, faults>>
      BY <1>10 DEF ClaimOk, ClaimSkip, DropReply, Ack, database, replica, network, workerside
    <2>4. QED
      BY <1>0, <2>2, <2>3 DEF RestOK
  <1>11. ASSUME NEW t \in Tasks, BeginExecution(t) PROVE RestOK'
    <2>1. task[t].cmd \in Commands
      BY <1>11 DEF BeginExecution, Wellformed
    <2>2. late' \in SUBSET Commands /\ faults' \in 0 .. MaxFaults
      BY <1>0, <1>1, <1>11, <2>1 DEF BeginExecution, RestOK
    <2>3. UNCHANGED <<ended, runtime, unpublished, recovery, queue, recent, up>>
      BY <1>11 DEF BeginExecution, replica
    <2>4. QED
      BY <1>0, <2>2, <2>3 DEF RestOK
  <1>12. ASSUME NEW t \in Tasks, NEW s \in Servers, NEW st \in Terminal,
                \/ FinishExecution(t, s, st) \/ FinishUnacknowledged(t, s, st)
                \/ ReportFailure(t, s)
         PROVE  RestOK'
    <2>1. queue' \in [Commands -> 0 .. MaxQueue] /\ faults' \in 0 .. MaxFaults
      BY <1>0, <1>1, <1>2, <1>12 DEF FinishExecution, FinishUnacknowledged, ReportFailure,
         Ack, Nak, RestOK, network
    <2>2. UNCHANGED <<ended, runtime, unpublished, recovery, late, recent, up>>
      BY <1>12 DEF FinishExecution, FinishUnacknowledged, ReportFailure, network
    <2>3. QED
      BY <1>0, <2>1, <2>2 DEF RestOK
  <1>13. ASSUME NEW w \in Workers, StartWorker(w) \/ Heartbeat(w) PROVE RestOK'
    <2>1. [status |-> "ready", hb |-> 0] \in [status : RuntimeStatus, hb : 0 .. MaxBeat]
      BY <1>0 DEF RuntimeStatus
    <2>2. runtime' = [runtime EXCEPT ![w] = [status |-> "ready", hb |-> 0]]
      BY <1>13 DEF StartWorker, Heartbeat
    <2>3. up' = up \/ up' = [up EXCEPT ![w] = "up"]
      BY <1>13 DEF StartWorker, Heartbeat, workerside
    <2>4. UNCHANGED <<ended, unpublished, recovery, queue, late, recent, faults>>
      BY <1>13 DEF StartWorker, Heartbeat, replica, network, workerside
    <2>5. QED
      BY <1>0, <2>1, <2>2, <2>3, <2>4 DEF RestOK
  <1>14. ASSUME NEW w \in Workers, NEW st \in RuntimeStatus, EndWorker(w, st)
         PROVE  RestOK'
    BY <1>0, <1>1, <1>2, <1>14 DEF EndWorker, RestOK, replica
  <1>15. ASSUME NEW w \in Workers, WorkerStep(w) PROVE RestOK'
    <2>1. runtime[w].status \in RuntimeStatus /\ "offline" \in RuntimeStatus
      BY <1>0 DEF RestOK, RuntimeStatus
    <2>2. CASE \E c \in Commands : ExpireRecent(w, c)
      BY <1>0, <2>2 DEF ExpireRecent, RestOK, database, replica, network
    <2>3. QED
      BY <1>13, <1>14, <1>15, <2>1, <2>2 DEF WorkerStep, CrashWorker, StopWorker
  <1>16. ASSUME NEW c \in Commands, LateStarted(c) \/ LoseNotification(c) PROVE RestOK'
    BY <1>0, <1>1, <1>16 DEF LateStarted, LoseNotification, RestOK, database, replica,
       workerside
  <1>17. CASE EndExecution
    BY <1>0, <1>17 DEF EndExecution, RestOK, replica, network, workerside
  <1>18. CASE Tick
    <2>1. \A w \in Workers : Older(runtime[w].hb, MaxBeat) \in 0 .. MaxBeat
      BY <1>0, OlderType DEF RestOK
    <2>2. runtime' \in [Workers -> [status : RuntimeStatus, hb : 0 .. MaxBeat]]
      BY <1>0, <1>18, <2>1 DEF Tick, RestOK
    <2>3. QED
      BY <1>0, <1>18, <2>2 DEF Tick, RestOK, replica, network, workerside
  <1>19. QED
    <2>1. CASE ServerStep
      BY <1>3, <1>4, <1>5, <1>6, <2>1 DEF ServerStep
    <2>2. ASSUME NEW t \in Tasks, TaskStep(t) PROVE RestOK'
      <3>1. CASE \E s \in Servers, st \in Terminal :
                   \/ FinishExecution(t, s, st) \/ FinishUnacknowledged(t, s, st)
                   \/ ReportFailure(t, s)
        BY <1>12, <3>1
      <3>2. CASE \E s \in Servers : ReportFailure(t, s)
        BY <1>12, <3>2 DEF Terminal
      <3>3. QED
        BY <1>8, <1>9, <1>10, <1>11, <2>2, <3>1, <3>2 DEF TaskStep
    <2>3. QED
      BY <1>7, <1>15, <1>16, <1>17, <1>18, <2>1, <2>2 DEF Next

\* Every variable keeps its type.
LEMMA TypeStep ==
    ASSUME TypeOK, Wellformed, Next
    PROVE  TypeOK'
  <1>1. row' \in [Commands -> Row]
    <2>1. ASSUME NEW c \in Commands PROVE row'[c] \in Row
      <3>1. row[c] \in Row /\ RowStep(c)
        BY RowSteps DEF TypeOK
      <3>2. \A t \in Tasks : Owner(t) \in Workers
        BY LifecycleAssumption DEF Owner
      <3>3. QED
        BY <3>1, <3>2, RowUpdates, AgedType DEF RowStep
    <2>2. QED
      BY <2>1, RowSteps
  <1>2. req' \in [Tasks -> Request] /\ task' \in [Tasks -> Task]
    BY ReqSteps, TaskChanges
  <1>3. cache' \in [Servers -> [Commands -> Workers \cup {None}]]
    BY CacheChanges
  <1>4. RestOK'
    BY RestStep
  <1>5. QED
    BY <1>1, <1>2, <1>3, <1>4 DEF TypeOK, RestOK

\* Whoever believes that a command was claimed stays right.
LEMMA ClaimsKnownStep ==
    ASSUME TypeOK, Wellformed, ClaimsKnown, Next
    PROVE  ClaimsKnown'
  <1> DEFINE StillClaimed(c) == row'[c].status \in Active \cup Terminal
  <1>1. \A c \in Commands : Claimed(c) => StillClaimed(c)
    BY ClaimedStays DEF Claimed
  <1>2. ASSUME NEW t \in Tasks
        PROVE  /\ task'[t].pc \in {"claimed", "running", "failing"} => StillClaimed(task'[t].cmd)
               /\ req'[t].pc = "ok" /\ task'[t].pc = "claiming" => StillClaimed(task'[t].cmd)
               /\ req'[t].pc = "committed" => StillClaimed(req'[t].cmd)
               /\ req'[t].pc \in {"read", "locked"} /\ req'[t].snap.status \in Active
                     => StillClaimed(req'[t].cmd)
    <2>1. TaskChange(t) /\ ReqStep(t) /\ task[t] \in Task /\ req[t] \in Request
      BY TaskChanges, ReqSteps DEF TypeOK
    <2>2. /\ task[t].pc # "idle" => task[t].cmd \in Commands
          /\ req[t].pc \in {"read", "locked", "committed"} =>
               /\ req[t].cmd \in Commands
               /\ task[t].pc = "claiming" => task[t].cmd = req[t].cmd
      BY DEF Wellformed
    <2>3. /\ task[t].pc \in {"claimed", "running", "failing"} => Claimed(task[t].cmd)
          /\ req[t].pc = "ok" /\ task[t].pc = "claiming" => Claimed(task[t].cmd)
          /\ req[t].pc = "committed" => Claimed(req[t].cmd)
          /\ req[t].pc \in {"read", "locked"} /\ req[t].snap.status \in Active
                => Claimed(req[t].cmd)
      BY DEF ClaimsKnown
    <2>4. req[t].snap \in Row /\ Aged(req[t].snap).status = req[t].snap.status
      BY <2>1, AgedType DEF Request
    <2>5. task'[t].pc \in {"claimed", "running", "failing"} => StillClaimed(task'[t].cmd)
      BY <1>1, <2>1, <2>2, <2>3 DEF TaskChange, NoTask, Task
    <2>6. req'[t].pc = "ok" /\ task'[t].pc = "claiming" => StillClaimed(task'[t].cmd)
      <3> SUFFICES ASSUME req'[t].pc = "ok", task'[t].pc = "claiming"
                   PROVE  Claimed(task[t].cmd) /\ task'[t] = task[t]
        BY <1>1, <2>2
      <3>1. task'[t] = task[t]
        BY <2>1 DEF TaskChange, NoTask, Task
      <3>2. \/ req[t].pc = "ok"
            \/ req[t].pc = "read" /\ req[t].snap.status \in Active
            \/ req[t].pc = "committed"
        BY <2>1 DEF ReqStep, Request, RepeatsClaim, HeldBySelf
      <3>3. QED
        BY <2>2, <2>3, <3>1, <3>2
    <2>7. req'[t].pc = "committed" => StillClaimed(req'[t].cmd)
      <3>1. ASSUME req'[t].pc = "committed"
            PROVE  /\ req'[t].cmd = req[t].cmd
                   /\ \/ req[t].pc = "committed"
                      \/ req[t].pc = "locked" /\ row'[req[t].cmd].status = "CLAIMED"
        BY <2>1, <3>1 DEF ReqStep, Request
      <3>2. QED
        BY <1>1, <2>2, <2>3, <3>1 DEF Claimed, Active
    <2>8. req'[t].pc \in {"read", "locked"} /\ req'[t].snap.status \in Active
             => StillClaimed(req'[t].cmd)
      <3> SUFFICES ASSUME req'[t].pc \in {"read", "locked"}, req'[t].snap.status \in Active
                   PROVE  req'[t].cmd \in Commands /\ Claimed(req'[t].cmd)
        BY <1>1
      <3>1. \/ /\ req[t].pc \in {"read", "locked"} /\ req'[t].cmd = req[t].cmd
               /\ req'[t].snap \in {req[t].snap, Aged(req[t].snap)}
            \/ /\ task[t].pc = "claiming" /\ req'[t].cmd = task[t].cmd
               /\ req'[t].snap = row[task[t].cmd]
        BY <2>1 DEF ReqStep, Request
      <3>2. QED
        BY <2>2, <2>3, <2>4, <3>1 DEF Claimed
    <2>9. QED
      BY <2>5, <2>6, <2>7, <2>8
  <1>3. ASSUME NEW s \in Servers, NEW c \in Commands, cache'[s][c] # None
        PROVE  StillClaimed(c)
    <2>1. CacheChange(s, c)
      BY CacheChanges
    <2>2. CASE cache'[s][c] = cache[s][c]
      BY <1>1, <1>3, <2>2 DEF ClaimsKnown
    <2>3. CASE \E t \in Tasks : /\ req[t].cmd = c
                                /\ \/ req[t].pc = "committed"
                                   \/ req[t].pc = "read" /\ req[t].snap.status \in Active
      BY <1>1, <2>3 DEF ClaimsKnown
    <2>4. QED
      BY <1>3, <2>1, <2>2, <2>3 DEF CacheChange
  <1>4. QED
    BY <1>2, <1>3 DEF ClaimsKnown, Claimed

\* A request that locks another worker's claim has seen an expired lease.
LEMMA TakesExpiredStep ==
    ASSUME TypeOK, Wellformed, TakesExpired, Next
    PROVE  TakesExpired'
  <1> SUFFICES ASSUME NEW t \in Tasks, req'[t].pc = "locked", HeldByOther(t)'
               PROVE  req'[t].snap.age >= LeaseSeconds
    BY DEF TakesExpired
  <1>1. ReqStep(t) /\ req[t] \in Request /\ req[t].snap \in Row
    BY ReqSteps DEF TypeOK, Request
  <1>2. /\ req'[t].snap.status \in Active
        /\ req'[t].snap.worker # Owner(t)
    BY DEF HeldByOther, Owner
  <1>3. CASE req'[t] = req[t]
    BY <1>2, <1>3 DEF TakesExpired, HeldByOther
  <1>4. CASE req'[t] = [req[t] EXCEPT !.snap = Aged(@)]
    <2>1. /\ req'[t].snap = Aged(req[t].snap) /\ req[t].pc = "locked"
      BY <1>1, <1>4 DEF Request
    <2>2. HeldByOther(t)
      BY <1>1, <1>2, <2>1, AgedType DEF HeldByOther
    <2>3. req[t].snap.age >= LeaseSeconds /\ Aged(req[t].snap).age >= req[t].snap.age
      BY <1>1, <2>1, <2>2, AgedType DEF TakesExpired
    <2>4. req[t].snap.age \in Int /\ Aged(req[t].snap).age \in Int /\ LeaseSeconds \in Int
      BY <1>1, AgedType, ThresholdsAssumption DEF Row, Ages
    <2>5. QED
      BY <2>1, <2>3, <2>4
  <1>5. CASE ~KeepsClaim(t) /\ req'[t] = [req[t] EXCEPT !.pc = "locked"]
    <2>1. req'[t].snap = req[t].snap
      BY <1>1, <1>5 DEF Request
    <2>2. Reclaimable(req[t].snap.age, runtime[req[t].snap.worker])
      BY <1>2, <1>5, <2>1 DEF KeepsClaim, HeldByOther
    <2>3. QED
      BY <2>1, <2>2 DEF Reclaimable
  <1>6. QED
    BY <1>1, <1>3, <1>4, <1>5 DEF ReqStep, Request

\* The invariant is inductive.
LEMMA IInvStep == IInv /\ [Next]_vars => IInv'
  <1> SUFFICES ASSUME IInv, [Next]_vars PROVE IInv'
    OBVIOUS
  <1>1. CASE Next
    BY <1>1, TypeStep, WellformedStep, CompletedStep, ClaimsKnownStep, TakesExpiredStep
       DEF IInv
  <1>2. CASE UNCHANGED vars
    BY <1>2 DEF vars, IInv, TypeOK, Wellformed, CompletedNeverRunning, ClaimsKnown,
       Claimed, TakesExpired, HeldByOther, Owner
  <1>3. QED
    BY <1>1, <1>2

LEMMA Invariance == Spec => []IInv
  BY InitIInv, IInvStep, PTL DEF Spec

-----------------------------------------------------------------------------
\* Rows only hold statuses of the lifecycle and names of workers, and every
\* other variable keeps its type.
THEOREM TypeCorrect == Spec => []TypeOK
  <1>1. IInv => TypeOK
    BY DEF IInv
  <1>2. QED
    BY <1>1, Invariance, PTL

\* However many workers, replicas, failures and retries there are, nobody
\* executes or caches a command that was not claimed.
THEOREM ExecutionIsClaimed == Spec => []ExecutionImpliesClaim
  <1>1. IInv => ExecutionImpliesClaim
    BY DEF IInv, ClaimsKnown, ExecutionImpliesClaim, Claimed
  <1>2. QED
    BY <1>1, Invariance, PTL

\* The guard of command.started keeps a completed command from being shown as
\* running, although a claim may show it as claimed.
THEOREM CompletedStaysCompleted == Spec => []CompletedNeverRunning
  <1>1. IInv => CompletedNeverRunning
    BY DEF IInv
  <1>2. QED
    BY <1>1, Invariance, PTL

\* One step: the row of a command goes from one owner to another only by the
\* commit of a request that read an expired lease or a row that changed since.
LEMMA StealStep ==
    ASSUME IInv, Next, NEW c \in Commands,
           row[c].status \in Active, row'[c].worker # row[c].worker
    PROVE  \/ row[c].age >= LeaseSeconds
           \/ \E t \in Tasks : /\ req[t].pc = "locked" /\ req[t].cmd = c
                               /\ Owner(t) = row'[c].worker
                               /\ ~SameClaim(req[t].snap, row[c])
  <1>1. RowStep(c) /\ row[c] \in Row
    BY RowSteps DEF IInv, TypeOK
  <1>2. Aged(row[c]).worker = row[c].worker
    BY <1>1, AgedType
  <1>3. /\ Started(row[c]).worker = row[c].worker
        /\ \A st : Settled(row[c], st).worker = row[c].worker
        /\ \A w : ClaimedBy(row[c], w).worker = w
    BY <1>1 DEF Started, Settled, ClaimedBy, Row
  <1>4. PICK t \in Tasks : /\ req[t].pc = "locked" /\ req[t].cmd = c
                           /\ row'[c].worker = Owner(t)
    BY <1>1, <1>2, <1>3 DEF RowStep, Active
  <1>5. CASE SameClaim(req[t].snap, row[c])
    <2>1. HeldByOther(t)
      BY <1>4, <1>5 DEF SameClaim, HeldByOther
    <2>2. QED
      BY <1>4, <1>5, <2>1 DEF SameClaim, IInv, TakesExpired
  <1>6. CASE ~SameClaim(req[t].snap, row[c])
    BY <1>4, <1>6
  <1>7. QED
    BY <1>5, <1>6

\* For every number of workers and requests in flight, a claim changes hands
\* only if its lease ran out or the taker's reading was stale.
THEOREM StealsAreStaleOrExpired == Spec => OnlyStaleReadersSteal
  <1> DEFINE Step == \A c \in Commands :
         /\ row[c].status \in Active /\ row'[c].status \in Active
         /\ row'[c].worker # row[c].worker
         => \/ row[c].age >= LeaseSeconds
            \/ \E t \in Tasks : /\ req[t].pc = "locked" /\ req[t].cmd = c
                                /\ Owner(t) = row'[c].worker
                                /\ ~SameClaim(req[t].snap, row[c])
  <1>1. IInv /\ [Next]_vars => [Step]_vars
    BY StealStep
  <1>2. QED
    BY <1>1, Invariance, PTL DEF Spec, OnlyStaleReadersSteal

-----------------------------------------------------------------------------
\* Who carries a PENDING command.

\* A message, a publisher or a claiming task is still going to offer c.
Carrier(c) ==
    \/ queue[c] > 0
    \/ \E s \in Servers : c \in unpublished[s]
    \/ \E t \in Tasks : task[t].pc = "claiming" /\ task[t].cmd = c

\* Somebody has heard of c.
Touched(c) ==
    \/ queue[c] > 0
    \/ \E s \in Servers : c \in unpublished[s] \cup recovery[s]
    \/ \E w \in Workers : c \in recent[w]
    \/ \E t \in Tasks : task[t].pc # "idle" /\ task[t].cmd = c

\* A worker remembers c, or is about to, because its claim was refused.
Refused(c) ==
    \/ \E w \in Workers : c \in recent[w]
    \/ \E t \in Tasks : req[t].pc = "conflict" /\ task[t].cmd = c

Locker(c) == \E t \in Tasks : req[t].pc = "locked" /\ req[t].cmd = c

\* A PENDING command is refused only while another request holds its lock; that
\* request's task carries it.
CarriedWell(c) ==
    /\ Touched(c) => row[c].status # "NONE"
    /\ row[c].status = "PENDING" /\ ~ended =>
          Carrier(c) /\ (Refused(c) => Locker(c))

\* While nothing fails, a request belongs to the task that waits for it, and
\* neither is given up.
Paired == \A t \in Tasks : /\ req[t].pc # "idle" => task[t].pc = "claiming"
                          /\ req[t].pc # "error" /\ task[t].pc # "failing"

CarryInv == faults = 0 => Paired /\ \A c \in Commands : CarriedWell(c)

\* A notification that is sent waits, unless the bound admits none at all.
LEMMA NotifyAdds ==
    ASSUME TypeOK, MaxQueue > 0, NEW C, Notify(C), NEW c \in Commands
    PROVE  /\ c \in C => queue'[c] > 0
           /\ queue[c] > 0 => queue'[c] > 0
           /\ queue'[c] > 0 => queue[c] > 0 \/ c \in C
  <1>1. queue'[c] = IF c \in C THEN More(queue[c]) ELSE queue[c]
    BY DEF Notify
  <1>2. queue[c] \in 0 .. MaxQueue /\ MaxQueue \in Nat
    BY LifecycleAssumption DEF TypeOK
  <1>3. More(queue[c]) > 0
    BY <1>2 DEF More
  <1>4. QED
    BY <1>1, <1>2, <1>3

\* Steps that leave the messages, the publishers and the requests in place.
LEMMA BystanderStep ==
    ASSUME NEW c \in Commands, CarriedWell(c), UNCHANGED <<queue, unpublished, recovery>>,
           \A t \in Tasks : /\ task'[t].cmd = task[t].cmd
                            /\ task'[t].pc = "idle" <=> task[t].pc = "idle"
                            /\ task'[t].pc = "claiming" <=> task[t].pc = "claiming"
                            /\ req'[t].pc = req[t].pc /\ req'[t].cmd = req[t].cmd,
           \A w \in Workers : recent'[w] \subseteq recent[w],
           row'[c].status \in {row[c].status} \cup Active \cup Terminal,
           ended => ended'
    PROVE  CarriedWell(c)'
  <1>1. /\ row'[c].status = "PENDING" => row[c].status = "PENDING"
        /\ row'[c].status = "NONE" => row[c].status = "NONE"
    BY DEF Active, Terminal
  <1>2. Touched(c)' => Touched(c)
    BY DEF Touched
  <1>3. Carrier(c) => Carrier(c)'
    BY DEF Carrier
  <1>4. (Refused(c)' => Refused(c)) /\ (Locker(c) => Locker(c)')
    BY DEF Refused, Locker
  <1>5. QED
    BY <1>1, <1>2, <1>3, <1>4 DEF CarriedWell

\* Steps of a request inside a server.
LEMMA RequestStep ==
    ASSUME NEW c \in Commands, CarriedWell(c),
           UNCHANGED <<queue, unpublished, recovery, task, recent, ended>>,
           row'[c].status \in {row[c].status} \cup Active,
           row'[c].status = "PENDING" /\ ~ended =>
              /\ Locker(c) => Locker(c)'
              /\ \A t \in Tasks : req'[t].pc = "conflict" /\ task[t].cmd = c
                                  => req[t].pc = "conflict" \/ Locker(c)'
    PROVE  CarriedWell(c)'
  <1>1. /\ row'[c].status = "PENDING" => row[c].status = "PENDING"
        /\ row'[c].status = "NONE" => row[c].status = "NONE"
    BY DEF Active
  <1>2. (Touched(c)' <=> Touched(c)) /\ (Carrier(c)' <=> Carrier(c))
    BY DEF Touched, Carrier
  <1>3. row'[c].status = "PENDING" /\ ~ended /\ Refused(c)' => Refused(c) \/ Locker(c)'
    BY DEF Refused
  <1>4. QED
    BY <1>1, <1>2, <1>3 DEF CarriedWell

\* Steps that only send or drop notifications.
LEMMA NotificationStep ==
    ASSUME NEW c \in Commands, CarriedWell(c), UNCHANGED <<row, ended, task, req, recent>>,
           Touched(c)' => Touched(c) \/ row[c].status # "NONE",
           row[c].status = "PENDING" /\ ~ended => Carrier(c)'
    PROVE  CarriedWell(c)'
  <1>1. (Refused(c)' <=> Refused(c)) /\ (Locker(c)' <=> Locker(c))
    BY DEF Refused, Locker
  <1>2. QED
    BY <1>1 DEF CarriedWell

\* Who holds the lock of a command carries it.
LEMMA LockerCarries ==
    ASSUME Wellformed, Paired, NEW c \in Commands, Locker(c)
    PROVE  \E t \in Tasks : req[t].pc = "locked" /\ req[t].cmd = c
                            /\ task[t].pc = "claiming" /\ task[t].cmd = c
  BY DEF Wellformed, Paired, Locker

-----------------------------------------------------------------------------
\* The claim endpoint.

LEMMA ClaimCarries ==
    ASSUME TypeOK, Wellformed, ClaimsKnown, Paired, NEW c \in Commands, CarriedWell(c),
           NEW t \in Tasks, ClaimStep(t), ~Fault
    PROVE  CarriedWell(c)'
  <1>0. /\ req \in [Tasks -> Request] /\ row \in [Commands -> Row]
        /\ Owner(t) \in Workers /\ None \notin Workers
    BY LifecycleAssumption DEF TypeOK, Owner
  <1>1. ASSUME NEW s \in Servers, ClaimCacheHit(t, s)
        PROVE  CarriedWell(c)'
    <2>1. /\ UNCHANGED <<row, ended, queue, unpublished, recovery, task, recent>>
          /\ req[t].pc = "idle" /\ task[t].cmd \in Commands
          /\ req' = [req EXCEPT ![t].pc = "conflict"]
      BY <1>1 DEF ClaimCacheHit, database, replica, network, workerside, Wellformed
    <2>2. Claimed(task[t].cmd)
      BY <1>1, <2>1 DEF ClaimCacheHit, ClaimsKnown
    <2>3. row[c].status = "PENDING" => task[t].cmd # c
      BY <2>2 DEF Claimed, Active, Terminal
    <2>4. \A u \in Tasks : u # t => req'[u] = req[u]
      BY <1>0, <2>1
    <2>5. Locker(c) => Locker(c)'
      BY <2>1, <2>4 DEF Locker
    <2>6. QED
      BY <2>1, <2>3, <2>4, <2>5, RequestStep
  <1>2. ASSUME NEW s \in Servers, ClaimReadRow(t, s)
        PROVE  CarriedWell(c)'
    <2>1. /\ UNCHANGED <<row, ended, queue, unpublished, recovery, task, recent>>
          /\ req[t].pc = "idle"
      BY <1>2 DEF ClaimReadRow, database, replica, network, workerside
    <2>2. \A u \in Tasks : u # t => req'[u] = req[u]
      BY <1>0, <1>2 DEF ClaimReadRow
    <2>3. req'[t].pc = "conflict" => row[task[t].cmd].status \in Terminal
      BY <1>0, <1>2 DEF ClaimReadRow
    <2>4. row[c].status = "PENDING" /\ req'[t].pc = "conflict" => task[t].cmd # c
      BY <2>3 DEF Terminal
    <2>5. Locker(c) => Locker(c)'
      BY <2>1, <2>2 DEF Locker
    <2>6. QED
      BY <2>1, <2>2, <2>4, <2>5, RequestStep
  <1>3. CASE ClaimRefuse(t)
    <2>1. /\ UNCHANGED <<row, ended, queue, unpublished, recovery, task, recent>>
          /\ req[t].pc = "read"
      BY <1>3 DEF ClaimRefuse, database, replica, network, workerside
    <2>2. \A u \in Tasks : u # t => req'[u] = req[u]
      BY <1>0, <1>3 DEF ClaimRefuse
    <2>3. task[t].cmd = req[t].cmd
      BY <2>1 DEF Wellformed, Paired
    <2>4. Locker(c) => Locker(c)'
      BY <2>1, <2>2 DEF Locker
    <2>5. ~ended => Locker(req[t].cmd) \/ KeepsClaim(t)
      BY <1>3 DEF ClaimRefuse, LockFree, Locker
    <2>6. KeepsClaim(t) => Claimed(req[t].cmd)
      BY <2>1 DEF KeepsClaim, HeldByOther, HeldBySelf, ClaimsKnown
    <2>7. row[c].status = "PENDING" /\ ~ended /\ task[t].cmd = c => Locker(c)'
      BY <2>3, <2>4, <2>5, <2>6 DEF Claimed, Active, Terminal
    <2>8. QED
      BY <2>1, <2>2, <2>4, <2>7, RequestStep
  <1>4. CASE ClaimRepeat(t) \/ ClaimReply(t)
    <2>1. /\ UNCHANGED <<row, ended, queue, unpublished, recovery, task, recent>>
          /\ req[t].pc # "locked"
      BY <1>4 DEF ClaimRepeat, ClaimReply, database, replica, network, workerside
    <2>2. /\ \A u \in Tasks : u # t => req'[u] = req[u]
          /\ req'[t].pc = "ok"
      BY <1>0, <1>4, EmptyRecords DEF ClaimRepeat, ClaimReply, Request
    <2>3. Locker(c) => Locker(c)'
      BY <2>1, <2>2 DEF Locker
    <2>4. QED
      BY <2>1, <2>2, <2>3, RequestStep
  <1>5. CASE ClaimLock(t)
    <2>1. /\ UNCHANGED <<row, ended, queue, unpublished, recovery, task, recent>>
          /\ req[t].pc = "read"
      BY <1>5 DEF ClaimLock, database, replica, network, workerside
    <2>2. /\ \A u \in Tasks : u # t => req'[u] = req[u]
          /\ req'[t].pc = "locked"
      BY <1>0, <1>5 DEF ClaimLock, Request
    <2>3. Locker(c) => Locker(c)'
      BY <2>1, <2>2 DEF Locker
    <2>4. QED
      BY <2>1, <2>2, <2>3, RequestStep
  <1>6. CASE ClaimCommit(t)
    <2>1. /\ UNCHANGED <<ended, queue, unpublished, recovery, task, recent>>
          /\ req[t].pc = "locked"
          /\ row' = [row EXCEPT ![req[t].cmd] = ClaimedBy(@, Owner(t))]
      BY <1>6 DEF ClaimCommit, replica, network, workerside
    <2>2. /\ \A u \in Tasks : u # t => req'[u] = req[u]
          /\ req'[t].pc = "committed"
      BY <1>0, <1>6 DEF ClaimCommit, Request
    <2>3. /\ c # req[t].cmd => row'[c] = row[c]
          /\ c = req[t].cmd => row'[c].status = "CLAIMED"
      BY <1>0, <2>1 DEF ClaimedBy, Row
    <2>4. c # req[t].cmd => (Locker(c) => Locker(c)')
      BY <2>1, <2>2 DEF Locker
    <2>5. row'[c].status \in {row[c].status} \cup Active
      BY <2>3 DEF Active
    <2>6. row'[c].status = "PENDING" => c # req[t].cmd
      BY <2>3
    <2>7. QED
      BY <2>1, <2>2, <2>4, <2>5, <2>6, RequestStep
  <1>7. ~ClaimError(t)
    BY DEF ClaimError
  <1>8. QED
    BY <1>1, <1>2, <1>3, <1>4, <1>5, <1>6, <1>7 DEF ClaimStep

-----------------------------------------------------------------------------
\* The worker's tasks.

\* A step of task t, which is not about c.
LEMMA OtherStep ==
    ASSUME NEW c \in Commands, NEW t \in Tasks, CarriedWell(c),
           UNCHANGED <<ended, unpublished, recovery>>,
           row'[c] = row[c], queue'[c] = queue[c],
           \A u \in Tasks \ {t} : task'[u] = task[u] /\ req'[u] = req[u],
           task[t].pc = "idle" \/ task[t].cmd # c,
           task'[t].pc = "idle" \/ task'[t].cmd # c,
           req[t].pc # "locked", req'[t].pc \in {"idle", req[t].pc},
           req'[t].pc # "idle" => task'[t] = task[t] /\ task[t].pc # "idle",
           \A w \in Workers : c \in recent'[w] => c \in recent[w]
    PROVE  CarriedWell(c)'
  <1>1. Touched(c)' => Touched(c)
    BY DEF Touched
  <1>2. Carrier(c) => Carrier(c)'
    BY DEF Carrier
  <1>3. Locker(c) => Locker(c)'
    BY DEF Locker
  <1>4. Refused(c)' => Refused(c)
    BY DEF Refused
  <1>5. QED
    BY <1>1, <1>2, <1>3, <1>4 DEF CarriedWell

LEMMA DeliverCarries ==
    ASSUME TypeOK, Wellformed, Paired, NEW c \in Commands, CarriedWell(c),
           NEW t \in Tasks, NEW d \in Commands, Deliver(t, d)
    PROVE  CarriedWell(c)'
  <1>0. /\ UNCHANGED <<row, ended, unpublished, recovery, req, recent>>
        /\ task[t].pc = "idle" /\ req[t].pc = "idle" /\ queue[d] > 0
        /\ queue' = [queue EXCEPT ![d] = @ - 1]
        /\ \/ d \in recent[Owner(t)] /\ task' = task
           \/ task' = [task EXCEPT ![t] = [pc |-> "claiming", cmd |-> d]]
    BY DEF Deliver, database, replica
  <1>1. /\ \A u \in Tasks \ {t} : task'[u] = task[u]
        /\ task'[t] = task[t] \/ task'[t] = [pc |-> "claiming", cmd |-> d]
        /\ d # c => queue'[c] = queue[c]
    BY <1>0 DEF TypeOK
  <1>2. CASE d # c
    <2>1. task'[t].pc = "idle" \/ task'[t].cmd # c
      BY <1>0, <1>1, <1>2
    <2>2. QED
      BY <1>0, <1>1, <1>2, <2>1, OtherStep
  <1>3. CASE d = c
    <2>1. Touched(c)
      BY <1>0, <1>3 DEF Touched
    <2>2. Refused(c)' => Refused(c)
      BY <1>0, <1>1 DEF Refused
    <2>3. Locker(c) => Locker(c)'
      BY <1>0 DEF Locker
    <2>4. ASSUME Locker(c) PROVE Carrier(c)'
      BY <1>0, <1>1, <2>4, LockerCarries DEF Carrier
    <2>5. ASSUME row[c].status = "PENDING", ~ended PROVE Carrier(c)'
      <3>1. CASE d \in recent[Owner(t)]
        <4>1. Refused(c)
          BY <1>3, <3>1, LifecycleAssumption DEF Refused, Owner
        <4>2. QED
          BY <2>4, <2>5, <4>1 DEF CarriedWell
      <3>2. CASE task' = [task EXCEPT ![t] = [pc |-> "claiming", cmd |-> d]]
        BY <1>3, <3>2 DEF Carrier, TypeOK
      <3>3. QED
        BY <1>0, <3>1, <3>2
    <2>6. QED
      BY <1>0, <2>1, <2>2, <2>3, <2>5 DEF CarriedWell
  <1>4. QED
    BY <1>2, <1>3

LEMMA ReplyCarries ==
    ASSUME TypeOK, Wellformed, ClaimsKnown, Paired, NEW c \in Commands, CarriedWell(c),
           NEW t \in Tasks, ClaimOk(t) \/ ClaimSkip(t)
    PROVE  CarriedWell(c)'
  <1>0. /\ UNCHANGED <<row, ended, unpublished, recovery, queue>>
        /\ task[t].pc = "claiming" /\ task[t].cmd \in Commands
        /\ req[t].pc \in {"ok", "conflict"}
        /\ req' = [req EXCEPT ![t] = NoReq]
        /\ recent' = [recent EXCEPT ![Owner(t)] = @ \cup {task[t].cmd}]
    BY DEF ClaimOk, ClaimSkip, ReplyTaken, Remember, Ack, database, replica, network,
       Wellformed
  <1>1. /\ \A u \in Tasks \ {t} : task'[u] = task[u] /\ req'[u] = req[u]
        /\ req'[t].pc = "idle"
        /\ \/ task'[t].pc = "idle"
           \/ task'[t].cmd = task[t].cmd /\ req[t].pc = "ok"
    BY <1>0 DEF TypeOK, NoReq, NoTask, ClaimOk, ClaimSkip, ReplyTaken, Ack, Task
  <1>2. \A w \in Workers : recent'[w] \subseteq recent[w] \cup {task[t].cmd}
    BY <1>0 DEF TypeOK
  <1>3. CASE task[t].cmd # c
    <2>1. \A w \in Workers : c \in recent'[w] => c \in recent[w]
      BY <1>2, <1>3
    <2>2. task'[t].pc = "idle" \/ task'[t].cmd # c
      BY <1>1, <1>3
    <2>3. QED
      BY <1>0, <1>1, <1>3, <2>1, <2>2, OtherStep
  <1>4. CASE task[t].cmd = c
    <2>1. Touched(c)
      BY <1>0, <1>4 DEF Touched
    <2>2. CASE req[t].pc = "ok"
      <3>1. Claimed(c)
        BY <1>0, <1>4, <2>2 DEF ClaimsKnown
      <3>2. QED
        BY <1>0, <3>1 DEF CarriedWell, Claimed, Active, Terminal
    <2>3. CASE req[t].pc = "conflict"
      <3>1. Refused(c)
        BY <1>4, <2>3 DEF Refused
      <3>2. ASSUME Locker(c) PROVE Locker(c)' /\ Carrier(c)'
        <4>1. PICK u \in Tasks : /\ req[u].pc = "locked" /\ req[u].cmd = c
                                 /\ task[u].pc = "claiming" /\ task[u].cmd = c
          BY <3>2, LockerCarries
        <4>2. req'[u] = req[u] /\ task'[u] = task[u]
          BY <1>1, <2>3, <4>1
        <4>3. QED
          BY <4>1, <4>2 DEF Locker, Carrier
      <3>3. QED
        BY <1>0, <2>1, <3>1, <3>2 DEF CarriedWell
    <2>4. QED
      BY <1>0, <2>2, <2>3
  <1>5. QED
    BY <1>3, <1>4

LEMMA ExecutionCarries ==
    ASSUME TypeOK, Wellformed, NEW c \in Commands, CarriedWell(c), NEW t \in Tasks, ~Fault,
           \/ BeginExecution(t)
           \/ \E s \in Servers, st \in Terminal : FinishExecution(t, s, st)
    PROVE  CarriedWell(c)'
  <1>0. row \in [Commands -> Row] /\ task \in [Tasks -> Task]
    BY DEF TypeOK
  <1>1. CASE BeginExecution(t)
    <2>1. /\ UNCHANGED <<ended, queue, unpublished, recovery, req, recent>>
          /\ task[t].pc = "claimed" /\ task' = [task EXCEPT ![t].pc = "running"]
          /\ row' = [row EXCEPT ![task[t].cmd] = Started(@)]
      BY <1>1 DEF BeginExecution, replica
    <2>2. \A u \in Tasks : /\ task'[u].cmd = task[u].cmd
                           /\ task'[u].pc = "idle" <=> task[u].pc = "idle"
                           /\ task'[u].pc = "claiming" <=> task[u].pc = "claiming"
      BY <1>0, <2>1 DEF Task
    <2>3. row'[c].status \in {row[c].status, "RUNNING"}
      BY <1>0, <2>1 DEF Started, Row
    <2>4. row'[c].status \in {row[c].status} \cup Active \cup Terminal
      BY <2>3 DEF Active
    <2>5. QED
      BY <2>1, <2>2, <2>4, BystanderStep
  <1>2. ASSUME NEW s \in Servers, NEW st \in Terminal, FinishExecution(t, s, st)
        PROVE  CarriedWell(c)'
    <2>1. /\ UNCHANGED <<ended, queue, unpublished, recovery, req, recent>>
          /\ task[t].pc = "running" /\ task' = [task EXCEPT ![t] = NoTask]
          /\ row' = [row EXCEPT ![task[t].cmd] = Settled(@, st)]
      BY <1>2 DEF FinishExecution, Ack
    <2>2. /\ \A u \in Tasks \ {t} : task'[u] = task[u]
          /\ task'[t].pc = "idle" /\ req[t].pc = "idle"
      BY <1>0, <2>1 DEF NoTask, Wellformed
    <2>3. CASE task[t].cmd = c
      <3>1. row'[c].status = st
        BY <1>0, <2>1, <2>3 DEF Settled, Row
      <3>2. QED
        BY <3>1 DEF CarriedWell, Terminal
    <2>4. CASE task[t].cmd # c
      <3>1. row'[c] = row[c]
        BY <1>0, <2>1, <2>4
      <3>2. QED
        BY <2>1, <2>2, <2>4, <3>1, OtherStep
    <2>5. QED
      BY <2>3, <2>4
  <1>3. QED
    BY <1>1, <1>2
-----------------------------------------------------------------------------
\* Issuing, announcing and everything else.

LEMMA IssueCarries ==
    ASSUME TypeOK, Paired, NEW c \in Commands, CarriedWell(c),
           NEW s \in Servers, NEW d \in Commands, IssueCommand(s, d)
    PROVE  CarriedWell(c)'
  <1>0. /\ UNCHANGED <<ended, queue, recovery, req, task, recent>>
        /\ row[d].status = "NONE"
        /\ unpublished' = [unpublished EXCEPT ![s] = @ \cup {d}]
    BY DEF IssueCommand
  <1>1. /\ d \in unpublished'[s]
        /\ \A r \in Servers : /\ unpublished[r] \subseteq unpublished'[r]
                              /\ unpublished'[r] \subseteq unpublished[r] \cup {d}
    BY <1>0 DEF TypeOK
  <1>2. (Refused(c)' <=> Refused(c)) /\ (Locker(c)' <=> Locker(c))
    BY <1>0 DEF Refused, Locker
  <1>3. Carrier(c) => Carrier(c)'
    BY <1>0, <1>1 DEF Carrier
  <1>4. CASE d # c
    <2>1. row'[c] = row[c]
      BY <1>4 DEF IssueCommand, TypeOK
    <2>2. Touched(c)' => Touched(c)
      BY <1>0, <1>1, <1>4 DEF Touched
    <2>3. QED
      BY <1>0, <1>2, <1>3, <2>1, <2>2 DEF CarriedWell
  <1>5. CASE d = c
    <2>1. row'[c].status = "PENDING"
      BY <1>5 DEF IssueCommand, TypeOK, Row
    <2>2. ~Touched(c)
      BY <1>0, <1>5 DEF CarriedWell
    <2>3. ~Refused(c)
      BY <2>2 DEF Touched, Refused, Paired
    <2>4. Carrier(c)'
      BY <1>1, <1>5 DEF Carrier
    <2>5. QED
      BY <1>2, <2>1, <2>3, <2>4 DEF CarriedWell
  <1>6. QED
    BY <1>4, <1>5

LEMMA AnnounceCarries ==
    ASSUME TypeOK, MaxQueue > 0, NEW c \in Commands, CarriedWell(c), ~Fault,
           \/ \E s \in Servers, d \in Commands : PublishCommand(s, d) \/ RecoverUnclaimed(s, d)
           \/ ReaperSweep
    PROVE  CarriedWell(c)'
  <1>1. ASSUME NEW s \in Servers, NEW d \in Commands, PublishCommand(s, d)
        PROVE  CarriedWell(c)'
    <2>1. /\ UNCHANGED <<row, ended, task, req, recent>> /\ Notify({d})
          /\ d \in unpublished[s]
          /\ unpublished' = [unpublished EXCEPT ![s] = @ \ {d}]
          /\ recovery' = [recovery EXCEPT ![s] = @ \cup {d}]
      BY <1>1 DEF PublishCommand, database, workerside
    <2>2. \A r \in Servers : /\ unpublished'[r] \subseteq unpublished[r]
                             /\ unpublished[r] \subseteq unpublished'[r] \cup {d}
                             /\ recovery'[r] \subseteq recovery[r] \cup {d}
      BY <2>1 DEF TypeOK
    <2>3. /\ queue[c] > 0 \/ c = d => queue'[c] > 0
          /\ queue'[c] > 0 => queue[c] > 0 \/ c = d
      BY <2>1, NotifyAdds
    <2>4. c = d => Touched(c)
      BY <2>1 DEF Touched
    <2>5. Touched(c)' => Touched(c)
      BY <2>1, <2>2, <2>3, <2>4 DEF Touched
    <2>6. Carrier(c) => Carrier(c)'
      BY <2>1, <2>2, <2>3 DEF Carrier
    <2>7. QED
      BY <2>1, <2>5, <2>6, NotificationStep DEF CarriedWell
  <1>2. ASSUME NEW s \in Servers, NEW d \in Commands, RecoverUnclaimed(s, d)
        PROVE  CarriedWell(c)'
    <2>1. /\ UNCHANGED <<row, ended, task, req, recent, unpublished>>
          /\ d \in recovery[s] /\ recovery' = [recovery EXCEPT ![s] = @ \ {d}]
          /\ queue' = queue \/ Notify({d})
      BY <1>2 DEF RecoverUnclaimed, database, workerside
    <2>2. \A r \in Servers : recovery'[r] \subseteq recovery[r]
      BY <2>1 DEF TypeOK
    <2>3. /\ queue[c] > 0 => queue'[c] > 0
          /\ queue'[c] > 0 => queue[c] > 0 \/ c = d
      BY <2>1, NotifyAdds
    <2>4. c = d => Touched(c)
      BY <2>1 DEF Touched
    <2>5. Touched(c)' => Touched(c)
      BY <2>1, <2>2, <2>3, <2>4 DEF Touched
    <2>6. Carrier(c) => Carrier(c)'
      BY <2>1, <2>3 DEF Carrier
    <2>7. QED
      BY <2>1, <2>5, <2>6, NotificationStep DEF CarriedWell
  <1>3. CASE ReaperSweep
    <2>1. PICK O \in SUBSET Orphaned, P \in SUBSET Stranded : Notify(O \cup P)
      BY <1>3 DEF ReaperSweep, OldestFirst
    <2>2. UNCHANGED <<row, ended, task, req, recent, unpublished, recovery>>
      BY <1>3 DEF ReaperSweep, database, replica, workerside
    <2>3. /\ queue[c] > 0 => queue'[c] > 0
          /\ queue'[c] > 0 => queue[c] > 0 \/ c \in O \cup P
      BY <2>1, NotifyAdds
    <2>4. c \in O \cup P => row[c].status # "NONE"
      BY <2>1 DEF Orphaned, Stranded, Active
    <2>5. Touched(c)' => Touched(c) \/ row[c].status # "NONE"
      BY <2>2, <2>3, <2>4 DEF Touched
    <2>6. Carrier(c) => Carrier(c)'
      BY <2>2, <2>3 DEF Carrier
    <2>7. QED
      BY <2>2, <2>5, <2>6, NotificationStep DEF CarriedWell
  <1>4. QED
    BY <1>1, <1>2, <1>3

LEMMA QuietCarries ==
    ASSUME TypeOK, NEW c \in Commands, CarriedWell(c),
           \/ \E s \in Servers, d \in Commands : ExpireCache(s, d)
           \/ \E w \in Workers : \/ StartWorker(w) \/ Heartbeat(w)
                                 \/ \E d \in Commands : ExpireRecent(w, d)
           \/ SweepRuntime \/ EndExecution \/ UNCHANGED vars
    PROVE  CarriedWell(c)'
  <1>1. UNCHANGED <<row, queue, unpublished, recovery, req, task>>
    BY DEF ExpireCache, StartWorker, Heartbeat, ExpireRecent, SweepRuntime, EndExecution,
       vars, database, replica, network, workerside
  <1>2. \A w \in Workers : recent'[w] \subseteq recent[w]
    BY DEF TypeOK, ExpireCache, StartWorker, Heartbeat, ExpireRecent, SweepRuntime,
       EndExecution, vars, workerside
  <1>3. ended => ended'
    BY DEF ExpireCache, StartWorker, Heartbeat, ExpireRecent, SweepRuntime, EndExecution,
       vars, database
  <1>4. QED
    BY <1>1, <1>2, <1>3, BystanderStep

LEMMA TimeCarries ==
    ASSUME TypeOK, NEW c \in Commands, CarriedWell(c),
           Tick \/ \E d \in Commands : LateStarted(d)
    PROVE  CarriedWell(c)'
  <1>0. /\ UNCHANGED <<ended, queue, unpublished, recovery, task, recent>>
        /\ row[c] \in Row /\ req \in [Tasks -> Request]
    BY DEF Tick, LateStarted, replica, network, workerside, TypeOK
  <1>1. CASE Tick
    <2>1. row'[c].status = row[c].status
      BY <1>0, <1>1, AgedType DEF Tick
    <2>2. \A t \in Tasks : req'[t].pc = req[t].pc /\ req'[t].cmd = req[t].cmd
      BY <1>0, <1>1 DEF Tick, Request
    <2>3. QED
      BY <1>0, <2>1, <2>2, BystanderStep
  <1>2. ASSUME NEW d \in Commands, LateStarted(d)
        PROVE  CarriedWell(c)'
    <2>1. row'[c].status \in {row[c].status, "RUNNING"} /\ req' = req
      BY <1>0, <1>2 DEF LateStarted, Started, Row, TypeOK
    <2>2. QED
      BY <1>0, <2>1, BystanderStep DEF Active
  <1>3. QED
    BY <1>1, <1>2
\* While nothing fails, requests and tasks stay together.
LEMMA PairedStep ==
    ASSUME TypeOK, Wellformed, Paired, Next, ~Fault
    PROVE  Paired'
  <1>0. /\ req \in [Tasks -> Request] /\ task \in [Tasks -> Task]
        /\ NoReq.pc = "idle" /\ NoTask.pc = "idle"
    BY DEF TypeOK, NoReq, NoTask
  <1>1. ASSUME NEW t \in Tasks, ClaimStep(t)
        PROVE  Paired'
    <2>1. task' = task /\ \A u \in Tasks \ {t} : req'[u] = req[u]
      BY <1>0, <1>1 DEF ClaimStep, ClaimCacheHit, ClaimReadRow, ClaimRefuse, ClaimRepeat,
         ClaimLock, ClaimCommit, ClaimReply, ClaimError, workerside
    <2>2. task[t].pc = "claiming"
      BY <1>1 DEF Paired, ClaimStep, ClaimCacheHit, ClaimReadRow, ClaimRefuse, ClaimRepeat,
         ClaimLock, ClaimCommit, ClaimReply, ClaimError
    <2>3. req'[t].pc # "error"
      BY <1>0, <1>1 DEF Request, ClaimStep, ClaimCacheHit, ClaimReadRow, ClaimRefuse,
         ClaimRepeat, ClaimLock, ClaimCommit, ClaimReply, ClaimError, NoReq
    <2>4. QED
      BY <2>1, <2>2, <2>3 DEF Paired
  <1>2. ASSUME NEW t \in Tasks, TaskStep(t)
        PROVE  Paired'
    <2>1. ASSUME NEW d \in Commands, Deliver(t, d) PROVE Paired'
      BY <1>0, <2>1 DEF Deliver, Paired, Task
    <2>2. CASE ClaimOk(t) \/ ClaimSkip(t)
      BY <1>0, <2>2 DEF ClaimOk, ClaimSkip, ReplyTaken, Ack, Paired, Task
    <2>3. CASE BeginExecution(t)
      BY <1>0, <2>3 DEF BeginExecution, Paired, Task
    <2>4. ASSUME NEW s \in Servers, NEW st \in Terminal, FinishExecution(t, s, st)
          PROVE  Paired'
      BY <1>0, <2>4 DEF FinishExecution, Ack, Paired
    <2>5. ~DropReply(t) /\ ~ClaimRetry(t) /\ \A s \in Servers : ~ReportFailure(t, s)
      BY DEF Paired, DropReply, ClaimRetry, ReplyTaken, ReportFailure
    <2>6. QED
      BY <1>2, <2>1, <2>2, <2>3, <2>4, <2>5 DEF TaskStep, Redeliver, ClaimAbandon,
         CallbackTimeout, FinishUnacknowledged
  <1>3. CASE Tick
    BY <1>0, <1>3 DEF Tick, Paired, Request, workerside
  <1>4. CASE ServerStep \/ EndExecution
    <2>1. req' = req /\ task' = task
      BY <1>4 DEF ServerStep, IssueCommand, PublishCommand, RecoverUnclaimed, ExpireCache,
         ReaperSweep, SweepRuntime, ServerCrash, EndExecution, workerside
    <2>2. QED
      BY <2>1 DEF Paired
  <1>5. ASSUME NEW w \in Workers, WorkerStep(w)
        PROVE  Paired'
    <2>1. ~CrashWorker(w) /\ ~StopWorker(w)
      BY DEF CrashWorker, StopWorker, EndWorker
    <2>2. req' = req /\ task' = task
      BY <1>5, <2>1 DEF WorkerStep, StartWorker, Heartbeat, ExpireRecent, workerside
    <2>3. QED
      BY <2>2 DEF Paired
  <1>6. ASSUME NEW d \in Commands, LateStarted(d) \/ LoseNotification(d)
        PROVE  Paired'
    BY <1>6 DEF Paired, LateStarted, LoseNotification, workerside
  <1>7. QED
    BY <1>1, <1>2, <1>3, <1>4, <1>5, <1>6 DEF Next

LEMMA CarriedStep ==
    ASSUME TypeOK, Wellformed, ClaimsKnown, Paired, MaxQueue > 0, ~Fault, Next,
           NEW c \in Commands, CarriedWell(c)
    PROVE  CarriedWell(c)'
  <1>1. CASE ServerStep
    <2>1. ASSUME NEW s \in Servers PROVE ~ServerCrash(s)
      BY DEF ServerCrash
    <2>2. QED
      BY <1>1, <2>1, IssueCarries, AnnounceCarries, QuietCarries DEF ServerStep
  <1>2. ASSUME NEW t \in Tasks, TaskStep(t)
        PROVE  CarriedWell(c)'
    <2>1. ~DropReply(t) /\ ~ClaimRetry(t) /\ \A s \in Servers : ~ReportFailure(t, s)
      BY DEF Paired, DropReply, ClaimRetry, ReplyTaken, ReportFailure
    <2>2. /\ ~Redeliver(t) /\ ~ClaimAbandon(t) /\ ~CallbackTimeout(t)
          /\ \A s \in Servers, st \in Terminal : ~FinishUnacknowledged(t, s, st)
      BY DEF Redeliver, ClaimAbandon, CallbackTimeout, FinishUnacknowledged
    <2>3. QED
      BY <1>2, <2>1, <2>2, DeliverCarries, ReplyCarries, ExecutionCarries DEF TaskStep
  <1>3. ASSUME NEW w \in Workers, WorkerStep(w)
        PROVE  CarriedWell(c)'
    <2>1. ~CrashWorker(w) /\ ~StopWorker(w)
      BY DEF CrashWorker, StopWorker, EndWorker
    <2>2. QED
      BY <1>3, <2>1, QuietCarries DEF WorkerStep
  <1>4. ASSUME NEW d \in Commands PROVE ~LoseNotification(d)
    BY DEF LoseNotification
  <1>5. QED
    BY <1>1, <1>2, <1>3, <1>4, ClaimCarries, QuietCarries, TimeCarries DEF Next

\* Failures are only counted up, and none is left out.
LEMMA FaultsCount ==
    ASSUME TypeOK, Next, faults' = 0
    PROVE  faults = 0 /\ ~Fault
  <1>1. faults \in Nat /\ (Fault => faults' = faults + 1)
    BY LifecycleAssumption DEF TypeOK, Fault
  <1>2. UNCHANGED faults \/ Fault
    BY DEF Next, ServerStep, IssueCommand, PublishCommand, RecoverUnclaimed, ExpireCache,
       ReaperSweep, SweepRuntime, ServerCrash, ClaimStep, ClaimCacheHit, ClaimReadRow,
       ClaimRefuse, ClaimRepeat, ClaimLock, ClaimCommit, ClaimReply, ClaimError, TaskStep,
       Deliver, Redeliver, ClaimOk, ClaimSkip, ClaimRetry, ClaimAbandon, DropReply,
       BeginExecution, FinishExecution, FinishUnacknowledged, ReportFailure,
       CallbackTimeout, WorkerStep, StartWorker, Heartbeat, CrashWorker, StopWorker,
       EndWorker, ExpireRecent, LateStarted, LoseNotification, EndExecution, Tick
  <1>3. QED
    BY <1>1, <1>2

LEMMA CarryStep ==
    ASSUME MaxQueue > 0, IInv, CarryInv, [Next]_vars
    PROVE  CarryInv'
  <1> SUFFICES ASSUME faults' = 0 PROVE Paired' /\ \A c \in Commands : CarriedWell(c)'
    BY DEF CarryInv
  <1>1. TypeOK /\ Wellformed /\ ClaimsKnown
    BY DEF IInv
  <1>2. CASE Next
    <2>1. faults = 0 /\ ~Fault
      BY <1>1, <1>2, FaultsCount
    <2>2. Paired /\ \A c \in Commands : CarriedWell(c)
      BY <2>1 DEF CarryInv
    <2>3. Paired'
      BY <1>1, <1>2, <2>1, <2>2, PairedStep
    <2>4. \A c \in Commands : CarriedWell(c)'
      BY <1>1, <1>2, <2>1, <2>2, CarriedStep
    <2>5. QED
      BY <2>3, <2>4
  <1>3. CASE UNCHANGED vars
    <2>1. Paired /\ \A c \in Commands : CarriedWell(c)
      BY <1>3 DEF CarryInv, vars
    <2>2. Paired'
      BY <1>3, <2>1 DEF Paired, vars
    <2>3. ASSUME NEW c \in Commands PROVE CarriedWell(c)'
      <3>1. CarriedWell(c)
        BY <2>1
      <3>2. QED
        BY <1>1, <1>3, <3>1, QuietCarries
    <2>4. QED
      BY <2>2, <2>3
  <1>4. QED
    BY <1>2, <1>3

LEMMA CarryInit == Init => CarryInv
  <1> SUFFICES ASSUME Init PROVE Paired /\ \A c \in Commands : CarriedWell(c)
    BY DEF CarryInv
  <1>1. Paired
    BY DEF Init, Paired, NoReq, NoTask
  <1>2. ASSUME NEW c \in Commands PROVE CarriedWell(c)
    <2>1. row[c].status = "NONE"
      BY DEF Init, NoRow
    <2>2. ~Touched(c)
      BY DEF Init, Touched, NoTask
    <2>3. QED
      BY <2>1, <2>2 DEF CarriedWell
  <1>3. QED
    BY <1>1, <1>2

\* While nothing fails, a PENDING command of a live execution always has a
\* message, a publisher or a task that carries it: the worker's shortcuts (ack on
\* refusal, recent activity) drop duplicates only.  For every number of replicas,
\* workers and tasks.
THEOREM PendingAlwaysCarried == ASSUME MaxQueue > 0 PROVE Spec => []PendingIsCarried
  <1>1. IInv /\ CarryInv /\ [Next]_vars => CarryInv'
    BY CarryStep
  <1>2. CarryInv => PendingIsCarried
    BY DEF CarryInv, CarriedWell, Carrier, PendingIsCarried
  <1>3. QED
    BY <1>1, <1>2, CarryInit, Invariance, PTL DEF Spec
=============================================================================

-------------------------- MODULE CommandLifecycle --------------------------
(***************************************************************************)
(* The life of a command: issued by the server as a row of noetl.command,  *)
(* announced over NATS, claimed by a worker through                        *)
(* POST /api/commands/{event_id}/claim, executed, settled by an event      *)
(* batch, and recovered by the publish-recovery task, by NATS redelivery   *)
(* and by the command reaper.  One execution, several API replicas, worker *)
(* processes that run several notifications at once.                       *)
(*                                                                         *)
(* The claim handler is not atomic: it reads the row, later takes an       *)
(* advisory lock, decides on the row it read, and commits.  A failure of   *)
(* any party (crash, lost or late call) spends one of MaxFaults.           *)
(***************************************************************************)
EXTENDS ClaimPolicy, FiniteSets

CONSTANTS
    Commands, Workers, Servers, Tasks,
    WorkerOf,      \* the worker process a notification task runs in
    OfflineAfter,  \* settings.runtime_offline_seconds
    MaxPerRun,     \* _REAPER_MAX_PER_RUN
    None,
    MaxAge,        \* bound: ages of rows saturate here, at or above the thresholds
    MaxBeat,       \* bound: heartbeat ages saturate here, likewise
    MaxQueue,      \* bound: identical notifications counted per command
    MaxFaults      \* bound: failures in a behaviour

ASSUME LifecycleAssumption ==
    /\ WorkerOf \in [Tasks -> Workers]
    /\ None \notin Workers \cup Commands \cup Servers
    /\ {OfflineAfter, MaxPerRun, MaxAge, MaxBeat, MaxQueue, MaxFaults} \subseteq Nat

VARIABLES
    row,          \* noetl.command: status, worker_id, age of created_at or
                  \* claimed_at, and done (completed_at IS NOT NULL)
    ended,        \* a terminal event of the execution is in noetl.event
    runtime,      \* noetl.runtime: status and heartbeat age of each worker
    cache,        \* per replica: _active_claim_cache
    unpublished,  \* per replica: rows committed, notification not yet sent
    recovery,     \* per replica: _PUBLISH_RECOVERY_TASKS
    queue,        \* NATS: notifications waiting for delivery
    late,         \* command.started posts the worker gave up on, still travelling
    req,          \* per task: its claim request inside a server
    task,         \* per task: what the worker does with its notification
    recent,       \* per worker: _recent_command_activity
    up,           \* per worker process: new, up or dead
    faults

database   == <<row, ended, runtime>>
replica    == <<cache, unpublished, recovery>>
network    == <<queue, late>>
workerside == <<task, recent, up>>
vars == <<row, ended, runtime, cache, unpublished, recovery, queue, late,
          req, task, recent, up, faults>>

Active    == {"CLAIMED", "RUNNING"}
Terminal  == {"COMPLETED", "FAILED"}
Status    == {"NONE", "PENDING"} \cup Active \cup Terminal
Ages      == 0 .. MaxAge
Row       == [status : Status, worker : Workers \cup {None},
              age : Ages, done : BOOLEAN]
Request   == [pc : {"idle", "read", "locked", "committed",
                    "ok", "conflict", "error"},
              cmd : Commands \cup {None}, server : Servers \cup {None},
              snap : Row]
Task      == [pc : {"idle", "claiming", "claimed", "running", "failing"},
              cmd : Commands \cup {None}]

NoRow  == [status |-> "NONE", worker |-> None, age |-> 0, done |-> FALSE]
NoReq  == [pc |-> "idle", cmd |-> None, server |-> None, snap |-> NoRow]
NoTask == [pc |-> "idle", cmd |-> None]

Init ==
    /\ row = [c \in Commands |-> NoRow]
    /\ ended = FALSE
    /\ runtime = [w \in Workers |-> [status |-> "missing", hb |-> 0]]
    /\ cache = [s \in Servers |-> [c \in Commands |-> None]]
    /\ unpublished = [s \in Servers |-> {}]
    /\ recovery = [s \in Servers |-> {}]
    /\ queue = [c \in Commands |-> 0]
    /\ late = {}
    /\ req = [t \in Tasks |-> NoReq]
    /\ task = [t \in Tasks |-> NoTask]
    /\ recent = [w \in Workers |-> {}]
    /\ up = [w \in Workers |-> "new"]
    /\ faults = 0

Fault == faults < MaxFaults /\ faults' = faults + 1

\* One more notification of a command; copies are identical, so the count
\* saturates.
More(n) == IF n < MaxQueue THEN n + 1 ELSE n
Notify(C) == queue' = [c \in Commands |-> IF c \in C THEN More(queue[c])
                                          ELSE queue[c]]

Older(n, bound) == IF n < bound THEN n + 1 ELSE n
\* Only rows that are waited for have an age that anyone reads.
Aged(r)  == IF r.status \in {"PENDING"} \cup Active
            THEN [r EXCEPT !.age = Older(r.age, MaxAge)] ELSE r

-----------------------------------------------------------------------------
\* The server issues and announces commands.

\* handle_event / _issue_commands_for_batch: the row is committed first.
IssueCommand(s, c) ==
    /\ row[c].status = "NONE"
    /\ row' = [row EXCEPT ![c].status = "PENDING", ![c].age = 0]
    /\ unpublished' = [unpublished EXCEPT ![s] = @ \cup {c}]
    /\ UNCHANGED <<ended, runtime, cache, recovery, queue, late, req,
                   task, recent, up, faults>>

\* _publish_commands_with_recovery: whether or not the publish succeeds, a
\* delayed recovery task is scheduled in this process.
PublishCommand(s, c) ==
    /\ c \in unpublished[s]
    /\ unpublished' = [unpublished EXCEPT ![s] = @ \ {c}]
    /\ recovery' = [recovery EXCEPT ![s] = @ \cup {c}]
    /\ \/ Notify({c}) /\ UNCHANGED faults
       \/ Fault /\ UNCHANGED queue
    /\ UNCHANGED <<database, cache, late, req, workerside>>

\* _recover_unclaimed_command_after_delay: one re-publish if nobody claimed.
RecoverUnclaimed(s, c) ==
    /\ c \in recovery[s]
    /\ recovery' = [recovery EXCEPT ![s] = @ \ {c}]
    /\ \/ row[c].status \in Active \cup Terminal /\ UNCHANGED <<queue, faults>>
       \/ row[c].status = "PENDING" /\ Notify({c}) /\ UNCHANGED faults
       \/ row[c].status = "PENDING" /\ Fault /\ UNCHANGED queue
    /\ UNCHANGED <<database, cache, unpublished, late, req, workerside>>

\* Mutant: a reaper that looks for CLAIMED rows and forgets RUNNING ones.
OrphanedClaimedOnly ==
    {c \in Commands : /\ row[c].status = "CLAIMED"
                      /\ LooksOrphaned(row[c].age, runtime[row[c].worker])}
Orphaned == {c \in Commands : /\ row[c].status \in Active
                              /\ LooksOrphaned(row[c].age, runtime[row[c].worker])}
Stranded == {c \in Commands : /\ row[c].status = "PENDING"
                              /\ LooksStranded(row[c].age)}

\* ORDER BY claimed_at / created_at ASC LIMIT n
OldestFirst(C, n) ==
    {D \in SUBSET C :
        /\ Cardinality(D) = IF Cardinality(C) < n THEN Cardinality(C) ELSE n
        /\ \A c \in D, d \in C \ D : row[c].age >= row[d].age}

\* reap_orphaned_commands_once: orphans first, stranded rows in what is left
\* of the limit.  A publish that fails there leaves the state as it is.
ReaperSweep ==
    /\ ~ended
    /\ \E O \in OldestFirst(Orphaned, MaxPerRun) :
         \E P \in OldestFirst(Stranded, MaxPerRun - Cardinality(O)) :
            /\ \E c \in O \cup P : queue[c] < MaxQueue
            /\ Notify(O \cup P)
    /\ UNCHANGED <<database, replica, late, req, workerside, faults>>

-----------------------------------------------------------------------------
\* The claim endpoint, claim_command.

Owner(t) == WorkerOf[t]

\* Mutant: the fast path takes "nothing cached" for another worker.
ClaimCacheMissIsHit(t, s) ==
    /\ task[t].pc = "claiming" /\ req[t].pc = "idle"
    /\ cache[s][task[t].cmd] # Owner(t)
    /\ req' = [req EXCEPT ![t].pc = "conflict"]
    /\ UNCHANGED <<database, replica, network, workerside, faults>>
\* Cache fast path: another worker is known to hold the claim.
ClaimCacheHit(t, s) ==
    /\ task[t].pc = "claiming" /\ req[t].pc = "idle"
    /\ cache[s][task[t].cmd] \notin {None, Owner(t)}
    /\ req' = [req EXCEPT ![t].pc = "conflict"]
    /\ UNCHANGED <<database, replica, network, workerside, faults>>

\* The row is read without a lock; a terminal one is refused at once.
ClaimReadRow(t, s) ==
    LET c == task[t].cmd IN
    /\ task[t].pc = "claiming" /\ req[t].pc = "idle"
    /\ cache[s][c] \in {None, Owner(t)}
    /\ IF row[c].status \in Terminal
       THEN /\ cache' = [cache EXCEPT ![s][c] = None]
            /\ req' = [req EXCEPT ![t].pc = "conflict"]
       ELSE /\ req' = [req EXCEPT ![t] = [pc |-> "read", cmd |-> c,
                                          server |-> s, snap |-> row[c]]]
            /\ UNCHANGED cache
    /\ UNCHANGED <<database, unpublished, recovery, network, workerside, faults>>

\* pg_try_advisory_xact_lock(command_id) would succeed for request t.
LockFree(t) == \A u \in Tasks : ~(req[u].pc = "locked" /\ req[u].cmd = req[t].cmd)

\* What the handler concludes from the row it read before the lock.
HeldByOther(t) == /\ req[t].snap.status \in Active
                  /\ req[t].snap.worker # Owner(t)
HeldBySelf(t)  == /\ req[t].snap.status \in Active
                  /\ req[t].snap.worker = Owner(t)
KeepsClaim(t) ==
    \/ HeldByOther(t) /\ ~Reclaimable(req[t].snap.age, runtime[req[t].snap.worker])
    \/ HeldBySelf(t) /\ req[t].snap.status = "RUNNING" /\ req[t].snap.age < HardTimeout
RepeatsClaim(t) == HeldBySelf(t) /\ req[t].snap.status = "CLAIMED"

\* Refusals after the read: the execution is over, the lock is taken, or the
\* existing claim stands (and is cached).
ClaimRefuse(t) ==
    LET c == req[t].cmd  s == req[t].server IN
    /\ req[t].pc = "read"
    /\ \/ ended /\ cache' = [cache EXCEPT ![s][c] = None]
       \/ ~ended /\ ~LockFree(t) /\ UNCHANGED cache
       \/ /\ ~ended /\ LockFree(t) /\ KeepsClaim(t)
          /\ cache' = [cache EXCEPT ![s][c] = req[t].snap.worker]
    /\ req' = [req EXCEPT ![t] = [NoReq EXCEPT !.pc = "conflict"]]
    /\ UNCHANGED <<database, unpublished, recovery, network, workerside, faults>>

\* The same worker claims again a command it holds as CLAIMED: ok, no event.
ClaimRepeat(t) ==
    /\ req[t].pc = "read" /\ ~ended /\ LockFree(t) /\ RepeatsClaim(t)
    /\ cache' = [cache EXCEPT ![req[t].server][req[t].cmd] = Owner(t)]
    /\ req' = [req EXCEPT ![t] = [NoReq EXCEPT !.pc = "ok"]]
    /\ UNCHANGED <<database, unpublished, recovery, network, workerside, faults>>

\* Lock taken, decision made, command.claimed inserted (the execution is
\* checked again by the INSERT); nothing is visible to others before COMMIT.
ClaimLock(t) ==
    /\ req[t].pc = "read" /\ ~ended /\ LockFree(t)
    /\ ~KeepsClaim(t) /\ ~RepeatsClaim(t)
    /\ req' = [req EXCEPT ![t].pc = "locked"]
    /\ UNCHANGED <<database, replica, network, workerside, faults>>

\* UPDATE noetl.command ... WHERE command_id, then COMMIT, which releases the
\* lock.  The UPDATE has no guard on the status.
ClaimedBy(r, w) == [r EXCEPT !.status = "CLAIMED", !.worker = w, !.age = 0]
ClaimCommit(t) ==
    /\ req[t].pc = "locked"
    /\ row' = [row EXCEPT ![req[t].cmd] = ClaimedBy(@, Owner(t))]
    /\ req' = [req EXCEPT ![t].pc = "committed", ![t].snap = NoRow]
    /\ UNCHANGED <<ended, runtime, replica, network, workerside, faults>>

\* After the commit the outbox is drained; only then is the claim cached and
\* the reply sent.
ClaimReply(t) ==
    /\ req[t].pc = "committed"
    /\ cache' = [cache EXCEPT ![req[t].server][req[t].cmd] = Owner(t)]
    /\ req' = [req EXCEPT ![t] = [NoReq EXCEPT !.pc = "ok"]]
    /\ UNCHANGED <<database, unpublished, recovery, network, workerside, faults>>

\* Mutant: the error is logged and the claim answered all the same.
ClaimErrorSwallowed(t) ==
    /\ req[t].pc \in {"read", "locked", "committed"}
    /\ req' = [req EXCEPT ![t] = [NoReq EXCEPT !.pc = "ok"]]
    /\ Fault
    /\ UNCHANGED <<database, replica, network, workerside>>
\* Pool timeout or database error: 503/500, the transaction is rolled back.
ClaimError(t) ==
    /\ req[t].pc \in {"read", "locked", "committed"}
    /\ req' = [req EXCEPT ![t] = [NoReq EXCEPT !.pc = "error"]]
    /\ Fault
    /\ UNCHANGED <<database, replica, network, workerside>>

\* The TTL of a cache entry runs out.
ExpireCache(s, c) ==
    /\ cache[s][c] # None
    /\ cache' = [cache EXCEPT ![s][c] = None]
    /\ UNCHANGED <<database, unpublished, recovery, network, req, workerside, faults>>

\* A replica dies: its memory is gone and its transactions are rolled back.
ServerCrash(s) ==
    /\ Fault
    /\ cache' = [cache EXCEPT ![s] = [c \in Commands |-> None]]
    /\ unpublished' = [unpublished EXCEPT ![s] = {}]
    /\ recovery' = [recovery EXCEPT ![s] = {}]
    /\ req' = [t \in Tasks |-> IF /\ req[t].pc \in {"read", "locked", "committed"}
                                  /\ req[t].server = s
                               THEN [NoReq EXCEPT !.pc = "error"] ELSE req[t]]
    /\ UNCHANGED <<database, network, workerside>>

-----------------------------------------------------------------------------
\* The worker: _handle_command_notification and NATSCommandSubscriber.

Alive(t) == up[Owner(t)] = "up"
Ack(t)   == task' = [task EXCEPT ![t] = NoTask] /\ UNCHANGED queue
Nak(t)   == task' = [task EXCEPT ![t] = NoTask] /\ Notify({task[t].cmd})
Remember(t) == recent' = [recent EXCEPT ![Owner(t)] = @ \cup {task[t].cmd}]

\* A notification is fetched; one about a recently handled command is acked.
Deliver(t, c) ==
    /\ Alive(t) /\ queue[c] > 0
    /\ task[t].pc = "idle" /\ req[t].pc = "idle"
    /\ queue' = [queue EXCEPT ![c] = @ - 1]
    /\ IF c \in recent[Owner(t)]
       THEN UNCHANGED task
       ELSE task' = [task EXCEPT ![t] = [pc |-> "claiming", cmd |-> c]]
    /\ UNCHANGED <<database, replica, late, req, recent, up, faults>>

\* NATS delivers again a message whose task has not acked it yet (an
\* in-progress beat was lost): at-least-once delivery.
Redeliver(t) ==
    /\ task[t].pc # "idle" /\ Fault /\ Notify({task[t].cmd})
    /\ UNCHANGED <<database, replica, late, req, workerside>>

\* Notifications age out of the stream or use up max_deliver.
LoseNotification(c) ==
    /\ queue[c] > 0 /\ Fault
    /\ queue' = [queue EXCEPT ![c] = @ - 1]
    /\ UNCHANGED <<database, replica, late, req, workerside>>

ReplyTaken(t, kind) ==
    /\ task[t].pc = "claiming" /\ req[t].pc = kind
    /\ req' = [req EXCEPT ![t] = NoReq]

ClaimOk(t) ==
    /\ ReplyTaken(t, "ok") /\ Remember(t)
    /\ task' = [task EXCEPT ![t].pc = "claimed"]
    /\ UNCHANGED <<database, replica, network, up, faults>>

\* 409: another worker has it, or it is over; remembered and acked.
ClaimSkip(t) ==
    /\ ReplyTaken(t, "conflict") /\ Remember(t) /\ Ack(t)
    /\ UNCHANGED <<database, replica, late, up, faults>>

\* 5xx: retried, and after the last attempt given back to the queue.
ClaimRetry(t) ==
    /\ ReplyTaken(t, "error")
    /\ \/ UNCHANGED <<task, queue>>
       \/ Nak(t)
    /\ UNCHANGED <<database, replica, late, recent, up, faults>>

\* Transport failures: the worker gives the message back while the request
\* may still be at work in a server; its reply is dropped.
ClaimAbandon(t) ==
    /\ task[t].pc = "claiming" /\ req[t].pc # "idle"
    /\ Fault /\ Nak(t)
    /\ UNCHANGED <<database, replica, late, req, recent, up>>

DropReply(t) ==
    /\ task[t].pc = "idle" /\ req[t].pc \in {"ok", "conflict", "error"}
    /\ req' = [req EXCEPT ![t] = NoReq]
    /\ UNCHANGED <<database, replica, network, workerside, faults>>

\* Mutants: command.started without its guard; the event's name as status.
StartedUnguarded(r) == [r EXCEPT !.status = "RUNNING"]
SettledUnmapped(r, st) == [r EXCEPT !.status = "command.done", !.done = TRUE, !.age = 0]
\* command.started in the batch tables and in /events: never downgrades a row
\* whose completed_at is set.
Started(r) == IF r.done THEN r ELSE [r EXCEPT !.status = "RUNNING"]
\* command.completed / command.failed: no guard on the row.
Settled(r, st) == [r EXCEPT !.status = st, !.done = TRUE, !.age = 0]

\* _execute_command begins; the initial batch is best effort.
BeginExecution(t) ==
    LET c == task[t].cmd IN
    /\ task[t].pc = "claimed"
    /\ task' = [task EXCEPT ![t].pc = "running"]
    /\ \/ row' = [row EXCEPT ![c] = Started(@)] /\ UNCHANGED <<late, faults>>
       \/ Fault /\ UNCHANGED <<row, late>>
       \/ Fault /\ late' = late \cup {c} /\ UNCHANGED row
    /\ UNCHANGED <<ended, runtime, replica, queue, req, recent, up>>

LateStarted(c) ==
    /\ c \in late
    /\ late' = late \ {c}
    /\ row' = [row EXCEPT ![c] = Started(@)]
    /\ UNCHANGED <<ended, runtime, replica, queue, req, workerside, faults>>

\* The terminal batch is accepted by replica s, which forgets its cached
\* claim; the notification is acked.
FinishExecution(t, s, st) ==
    LET c == task[t].cmd IN
    /\ task[t].pc = "running"
    /\ row' = [row EXCEPT ![c] = Settled(@, st)]
    /\ cache' = [cache EXCEPT ![s][c] = None]
    /\ Ack(t)
    /\ UNCHANGED <<ended, runtime, unpublished, recovery, late, req, recent, up, faults>>

\* Every attempt to post the terminal batch failed for the worker, though the
\* server may have stored it; the worker goes on to report a failure.
FinishUnacknowledged(t, s, st) ==
    LET c == task[t].cmd IN
    /\ task[t].pc = "running" /\ Fault
    /\ task' = [task EXCEPT ![t].pc = "failing"]
    /\ \/ UNCHANGED <<row, cache>>
       \/ /\ row' = [row EXCEPT ![c] = Settled(@, st)]
          /\ cache' = [cache EXCEPT ![s][c] = None]
    /\ UNCHANGED <<ended, runtime, unpublished, recovery, network, req, recent, up>>

ReportFailure(t, s) ==
    LET c == task[t].cmd IN
    /\ task[t].pc = "failing"
    /\ \/ /\ row' = [row EXCEPT ![c] = Settled(@, "FAILED")]
          /\ cache' = [cache EXCEPT ![s][c] = None]
          /\ Ack(t) /\ UNCHANGED faults
       \/ Fault /\ Nak(t) /\ UNCHANGED <<row, cache>>
    /\ UNCHANGED <<ended, runtime, unpublished, recovery, late, req, recent, up>>

\* The subscriber's callback timeout cancels the task and naks the message.
CallbackTimeout(t) ==
    /\ task[t].pc \in {"claimed", "running"} /\ Fault /\ Nak(t)
    /\ UNCHANGED <<database, replica, late, req, recent, up>>

ExpireRecent(w, c) ==
    /\ c \in recent[w]
    /\ recent' = [recent EXCEPT ![w] = @ \ {c}]
    /\ UNCHANGED <<database, replica, network, req, task, up, faults>>

-----------------------------------------------------------------------------
\* Worker processes and the runtime table.  A process has a fresh worker_id,
\* so a dead one never comes back under the same name.

StartWorker(w) ==
    /\ up[w] = "new"
    /\ up' = [up EXCEPT ![w] = "up"]
    /\ runtime' = [runtime EXCEPT ![w] = [status |-> "ready", hb |-> 0]]
    /\ UNCHANGED <<row, ended, replica, network, req, task, recent, faults>>

\* Re-registering every 15 s is the heartbeat.
Heartbeat(w) ==
    /\ up[w] = "up" /\ runtime[w] # [status |-> "ready", hb |-> 0]
    /\ runtime' = [runtime EXCEPT ![w] = [status |-> "ready", hb |-> 0]]
    /\ UNCHANGED <<row, ended, replica, network, req, workerside, faults>>

\* A process ends, by a crash or by cleanup(), which deregisters it; what its
\* tasks had not acked is delivered again.
EndWorker(w, status) ==
    /\ up[w] = "up" /\ Fault
    /\ up' = [up EXCEPT ![w] = "dead"]
    /\ runtime' = [runtime EXCEPT ![w].status = status]
    /\ recent' = [recent EXCEPT ![w] = {}]
    /\ task' = [t \in Tasks |-> IF Owner(t) = w THEN NoTask ELSE task[t]]
    /\ Notify({c \in Commands : \E t \in Tasks :
                  Owner(t) = w /\ task[t].pc # "idle" /\ task[t].cmd = c})
    /\ UNCHANGED <<row, ended, replica, late, req>>

CrashWorker(w) == EndWorker(w, runtime[w].status)
StopWorker(w)  == EndWorker(w, "offline")

\* _runtime_sweeper of app.py.
SweepRuntime ==
    LET W == {w \in Workers : /\ runtime[w].status = "ready"
                              /\ runtime[w].hb > OfflineAfter} IN
    /\ W # {}
    /\ runtime' = [w \in Workers |-> IF w \in W
                                     THEN [runtime[w] EXCEPT !.status = "offline"]
                                     ELSE runtime[w]]
    /\ UNCHANGED <<row, ended, replica, network, req, workerside, faults>>

\* playbook.completed, playbook.failed, execution.cancelled ...
EndExecution ==
    /\ ~ended /\ ended' = TRUE
    /\ UNCHANGED <<row, runtime, replica, network, req, workerside, faults>>

\* One time unit: every timestamp, the ones a handler has read included, is
\* that much older.
Tick ==
    /\ row' = [c \in Commands |-> Aged(row[c])]
    /\ req' = [t \in Tasks |-> [req[t] EXCEPT !.snap = Aged(@)]]
    /\ runtime' = [w \in Workers |-> IF runtime[w].status = "missing" THEN runtime[w]
                                     ELSE [runtime[w] EXCEPT !.hb = Older(@, MaxBeat)]]
    /\ UNCHANGED <<ended, replica, network, workerside, faults>>

-----------------------------------------------------------------------------
ServerStep ==
    \/ \E s \in Servers, c \in Commands :
          IssueCommand(s, c) \/ PublishCommand(s, c) \/ RecoverUnclaimed(s, c)
          \/ ExpireCache(s, c)
    \/ ReaperSweep
    \/ SweepRuntime
    \/ \E s \in Servers : ServerCrash(s)

ClaimStep(t) ==
    \/ \E s \in Servers : ClaimCacheHit(t, s) \/ ClaimReadRow(t, s)
    \/ ClaimRefuse(t) \/ ClaimRepeat(t) \/ ClaimLock(t)
    \/ ClaimCommit(t) \/ ClaimReply(t) \/ ClaimError(t)

TaskStep(t) ==
    \/ \E c \in Commands : Deliver(t, c)
    \/ Redeliver(t) \/ ClaimOk(t) \/ ClaimSkip(t) \/ ClaimRetry(t)
    \/ ClaimAbandon(t) \/ DropReply(t) \/ BeginExecution(t)
    \/ \E s \in Servers, st \in Terminal :
          FinishExecution(t, s, st) \/ FinishUnacknowledged(t, s, st)
    \/ \E s \in Servers : ReportFailure(t, s)
    \/ CallbackTimeout(t)

WorkerStep(w) ==
    \/ StartWorker(w) \/ Heartbeat(w) \/ CrashWorker(w) \/ StopWorker(w)
    \/ \E c \in Commands : ExpireRecent(w, c)

Next ==
    \/ ServerStep
    \/ \E t \in Tasks : ClaimStep(t) \/ TaskStep(t)
    \/ \E w \in Workers : WorkerStep(w)
    \/ \E c \in Commands : LateStarted(c) \/ LoseNotification(c)
    \/ EndExecution
    \/ Tick

Spec == Init /\ [][Next]_vars

\* A task and its claim request are one sequential process: what they do next
\* when nothing fails.
Proceed(t) ==
    \/ ClaimStep(t)
    \/ \E c \in Commands : Deliver(t, c)
    \/ ClaimOk(t) \/ ClaimSkip(t) \/ ClaimRetry(t) \/ DropReply(t) \/ BeginExecution(t)
    \/ \E s \in Servers, st \in Terminal : FinishExecution(t, s, st)
    \/ \E s \in Servers : ReportFailure(t, s)

\* What keeps going: time, the periodic loops of live servers and workers,
\* every handler and task that has begun, the delivery of waiting messages and
\* the expiry of TTLs.  Failures, the end of the execution, the recovery tasks
\* and the engine are left to chance.
Fairness ==
    /\ WF_vars(Tick) /\ WF_vars(ReaperSweep)
    /\ \A s \in Servers, c \in Commands :
          WF_vars(PublishCommand(s, c)) /\ WF_vars(ExpireCache(s, c))
    /\ \A w \in Workers :
          /\ WF_vars(StartWorker(w) \/ Heartbeat(w))
          /\ \A c \in Commands : WF_vars(ExpireRecent(w, c))
    /\ \A t \in Tasks : WF_vars(Proceed(t))

FairSpec == Spec /\ Fairness

-----------------------------------------------------------------------------
\* Every variable keeps its type; in particular the row only holds statuses of
\* the lifecycle and names of workers.
TypeOK ==
    /\ row \in [Commands -> Row]
    /\ ended \in BOOLEAN
    /\ runtime \in [Workers -> [status : RuntimeStatus, hb : 0 .. MaxBeat]]
    /\ cache \in [Servers -> [Commands -> Workers \cup {None}]]
    /\ unpublished \in [Servers -> SUBSET Commands]
    /\ recovery \in [Servers -> SUBSET Commands]
    /\ queue \in [Commands -> 0 .. MaxQueue]
    /\ late \in SUBSET Commands
    /\ req \in [Tasks -> Request]
    /\ task \in [Tasks -> Task]
    /\ recent \in [Workers -> SUBSET Commands]
    /\ up \in [Workers -> {"new", "up", "dead"}]
    /\ faults \in 0 .. MaxFaults

\* A worker executes a command, or a replica names a worker as its holder, only
\* after a claim of it was committed: no lost reply, retry, rollback, stale
\* cache or redelivery lets a worker run what is still PENDING.
ExecutionImpliesClaim ==
    /\ \A t \in Tasks : task[t].pc \in {"claimed", "running", "failing"}
                          => row[task[t].cmd].status \in Active \cup Terminal
    /\ \A s \in Servers, c \in Commands :
          cache[s][c] # None => row[c].status \in Active \cup Terminal

\* A command that was completed once is never shown as RUNNING again, however
\* late its command.started arrives and whoever claims it afterwards.
CompletedNeverRunning ==
    \A c \in Commands : row[c].done => row[c].status # "RUNNING"

\* Two readings of a row saw the same claim.
SameClaim(r, q) == r.status \in Active /\ r.worker = q.worker /\ r.age = q.age

\* A claim changes hands only when its lease has run out, or when the taker
\* decided on a row that had changed since it read it: the policy and the lock
\* are enough for every taker whose reading is still current.
OnlyStaleReadersSteal ==
    [][\A c \in Commands :
         /\ row[c].status \in Active /\ row'[c].status \in Active
         /\ row'[c].worker # row[c].worker
         => \/ row[c].age >= LeaseSeconds
            \/ \E t \in Tasks : /\ req[t].pc = "locked" /\ req[t].cmd = c
                                /\ Owner(t) = row'[c].worker
                                /\ ~SameClaim(req[t].snap, row[c])]_vars

\* While nothing fails, a notification is acked only once its command is
\* claimed: a PENDING command of a live execution always has a message, a task
\* or a publisher that carries it (skip_ack, recent activity and lock refusals
\* drop duplicates only).
PendingIsCarried ==
    \A c \in Commands :
        row[c].status = "PENDING" /\ ~ended /\ faults = 0
        => \/ queue[c] > 0
           \/ \E s \in Servers : c \in unpublished[s]
           \/ \E t \in Tasks : task[t].pc = "claiming" /\ task[t].cmd = c

\* Whatever crashed or was lost, an issued command is settled in the end, or its
\* execution is over: the reaper and the reclaim policy leave no command behind.
EventuallySettled ==
    \A c \in Commands : row[c].status \in {"PENDING"} \cup Active
                         ~> (ended \/ row[c].status \in Terminal)

\* events.py: "never downgrade terminal state".
TerminalNeverDowngraded ==
    [][\A c \in Commands : row[c].status \in Terminal
                            => row'[c].status \in Terminal]_vars
=============================================================================

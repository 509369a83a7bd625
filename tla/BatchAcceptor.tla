---- MODULE BatchAcceptor ----
(***************************************************************************)
(* The batch acceptor of the server (server/api/core/batch.py).  A worker  *)
(* posts a batch of events under an idempotency key and repeats the post   *)
(* with the same key until it is answered 202 (nats_worker.py).  A post    *)
(* records the batch in one transaction, then puts a job on a bounded      *)
(* asyncio queue; acceptor tasks take jobs off it, one execution at a time.*)
(*                                                                         *)
(* A post <<b, n>> is the n-th attempt to deliver batch b.  The request    *)
(* that a post creates has the name of the post.                           *)
(***************************************************************************)
EXTENDS Naturals, Sequences, FiniteSets, SequencesExt

CONSTANTS Batches,      \* batches of events, each with its idempotency key
          BatchExecutions, \* executions
          ExecutionOf,  \* the execution of each batch
          Actionable,   \* batches with an event for the engine
          Acceptors,    \* acceptor tasks the server may be configured with
          QueueMax,     \* _BATCH_ACCEPT_QUEUE_MAXSIZE
          MaxPosts,     \* attempts of _emit_batch_events, for each batch
          Chunks,       \* chunks of commands that an engine pass issues
          MaxCrashes,   \* bound on stops of the server
          NoAcceptor    \* no acceptor task

ASSUME BatchAssumption ==
    /\ ExecutionOf \in [Batches -> BatchExecutions]
    /\ Actionable \subseteq Batches
    /\ QueueMax \in Nat \ {0}
    /\ MaxPosts \in [Batches -> Nat \ {0}]
    /\ Chunks \in Nat
    /\ MaxCrashes \in Nat
    /\ IsFiniteSet(Acceptors)
    /\ NoAcceptor \notin Acceptors

VARIABLES
    configured,  \* the acceptor tasks this deployment runs
    post,        \* where the handler of each post is
    request,     \* the latest status event of each request
    queue,       \* _batch_accept_queue: requests
    putters,     \* posts that wait for room in the queue, first come first
    acceptor,    \* jobs and phase of each acceptor task
    lockOf,      \* _batch_execution_locks
    unfinished,  \* unfinished tasks of the queue
    puts,        \* history: requests in the order they were queued
    passes,      \* history: engine passes committed for each request
    chunksIssued, \* history: chunks of commands committed for each request
    lost,        \* history: requests a stop or a failed status write dropped
    crashes

batchVars == <<configured, post, request, queue, putters, acceptor, lockOf,
               unfinished, puts, passes, chunksIssued, lost, crashes>>

Posts == UNION {{b} \X (1..MaxPosts[b]) : b \in Batches}
ExecOf(r) == ExecutionOf[r[1]]

Off == [phase |-> "off", jobs |-> <<>>, first |-> FALSE]
IdleAcceptor == [phase |-> "get", jobs |-> <<>>, first |-> FALSE]
Phases == {"off", "get", "lock", "status", "engine", "issue", "finish"}

BatchInit ==
    /\ configured \in {A \in SUBSET Acceptors : A # {}}
    /\ post = [h \in Posts |-> "none"]
    /\ request = [h \in Posts |-> "none"]
    /\ queue = <<>>
    /\ putters = <<>>
    /\ acceptor = [a \in Acceptors |-> Off]
    /\ lockOf = [e \in BatchExecutions |-> NoAcceptor]
    /\ unfinished = 0
    /\ puts = <<>>
    /\ passes = [h \in Posts |-> 0]
    /\ chunksIssued = [h \in Posts |-> 0]
    /\ lost = {}
    /\ crashes = 0

----
(* The handler of POST /events/batch. *)

Accepted202(b)  == \E n \in 1..MaxPosts[b] : post[<<b, n>>] \in {"ok", "duplicate"}
Recorded(b)  == \E n \in 1..MaxPosts[b] : request[<<b, n>>] # "none"
RoomInQueue == Len(queue) < QueueMax

\* The worker sends the next attempt while none was answered 202; an earlier
\* one whose answer timed out may still run.  The handler starts the acceptor
\* tasks and looks for an acceptance with the same key.
PostRead(b, n) ==
    /\ post[<<b, n>>] = "none"
    /\ ~Accepted202(b)
    /\ \A k \in 1..(n - 1) : post[<<b, k>>] # "none"
    /\ post' = [post EXCEPT ![<<b, n>>] = IF Recorded(b) THEN "duplicate" ELSE "read"]
    /\ acceptor' = [a \in Acceptors |->
                      IF a \in configured /\ acceptor[a].phase = "off" THEN IdleAcceptor
                      ELSE acceptor[a]]
    /\ UNCHANGED <<configured, request, queue, putters, lockOf, unfinished, puts,
                   passes, chunksIssued, lost, crashes>>

\* Events, batch.accepted and outbox rows are committed in the transaction that
\* did the look-up; nothing makes the key unique.
PostCommit(h) ==
    /\ post[h] = "read"
    /\ post' = [post EXCEPT ![h] = "put"]
    /\ request' = [request EXCEPT ![h] = "accepted"]
    /\ UNCHANGED <<configured, queue, putters, acceptor, lockOf, unfinished, puts,
                   passes, chunksIssued, lost, crashes>>

\* The transaction fails: the worker is answered 503 or 500.
PostFail(h) ==
    /\ post[h] = "read"
    /\ post' = [post EXCEPT ![h] = "refused"]
    /\ UNCHANGED <<configured, request, queue, putters, acceptor, lockOf, unfinished,
                   puts, passes, chunksIssued, lost, crashes>>

\* asyncio.Queue.put of a new or a woken putter.
PutNow(h) ==
    /\ post[h] \in {"put", "woken"}
    /\ RoomInQueue
    /\ queue' = Append(queue, h)
    /\ unfinished' = unfinished + 1
    /\ puts' = Append(puts, h)
    /\ post' = [post EXCEPT ![h] = "ok"]
    /\ UNCHANGED <<configured, request, putters, acceptor, lockOf, passes, chunksIssued,
                   lost, crashes>>

PutWait(h) ==
    /\ post[h] \in {"put", "woken"}
    /\ ~RoomInQueue
    /\ putters' = Append(putters, h)
    /\ post' = [post EXCEPT ![h] = "waiting"]
    /\ UNCHANGED <<configured, request, queue, acceptor, lockOf, unfinished, puts,
                   passes, chunksIssued, lost, crashes>>

\* Wake the first putter, as Queue.get and a cancelled put do.
WakeNext(p, ps) == IF ps = <<>> THEN p ELSE [p EXCEPT ![Head(ps)] = "woken"]
AfterWake(ps)   == IF ps = <<>> THEN ps ELSE Tail(ps)

\* The putter of a cancelled put leaves the waiting putters, if it is still there.
WithoutPutter(ps, h) ==
    IF \E i \in DOMAIN ps : ps[i] = h
    THEN RemoveAt(ps, CHOOSE i \in DOMAIN ps : ps[i] = h)
    ELSE ps

\* wait_for gives up: batch.failed is recorded (or only logged, if that write
\* fails) and the worker is answered 503 with Retry-After.
PutTimeout(h) ==
    /\ post[h] \in {"waiting", "woken"}
    /\ LET rest   == WithoutPutter(putters, h)
           passOn == post[h] = "woken" /\ RoomInQueue
           p      == [post EXCEPT ![h] = "refused"]
       IN /\ post' = IF passOn THEN WakeNext(p, rest) ELSE p
          /\ putters' = IF passOn THEN AfterWake(rest) ELSE rest
    /\ \/ /\ request' = [request EXCEPT ![h] = "failed"]
          /\ UNCHANGED lost
       \/ /\ lost' = lost \cup {h}
          /\ UNCHANGED request
    /\ UNCHANGED <<configured, queue, acceptor, lockOf, unfinished, puts, passes,
                   chunksIssued, crashes>>

----
(* The acceptor tasks. *)

WorkerGet(a) ==
    /\ acceptor[a].phase = "get"
    /\ queue # <<>>
    /\ acceptor' = [acceptor EXCEPT ![a] =
                      [phase |-> "lock", jobs |-> <<Head(queue)>>, first |-> TRUE]]
    /\ queue' = Tail(queue)
    /\ post' = WakeNext(post, putters)
    /\ putters' = AfterWake(putters)
    /\ UNCHANGED <<configured, request, lockOf, unfinished, puts, passes, chunksIssued,
                   lost, crashes>>

\* Mutant: the first job of another execution is taken too.
ContiguousAndNext(q, e) ==
    LET others == {i \in DOMAIN q : ExecOf(q[i]) # e}
    IN IF others = {} THEN Len(q) ELSE Min(others)

\* _drain_contiguous_jobs_for_execution: the jobs of execution e at the head of
\* the queue, taken from the deque inside it; no putter is woken.
Contiguous(q, e) ==
    LET others == {i \in DOMAIN q : ExecOf(q[i]) # e}
    IN IF others = {} THEN Len(q) ELSE Min(others) - 1

\* The job that was waited for, then those drained under the lock.
Group(r, drained) == <<r>> \o drained

WorkerLock(a) ==
    /\ acceptor[a].phase = "lock"
    /\ LET r == Head(acceptor[a].jobs)
           e == ExecOf(r)
           n == Contiguous(queue, e)
       IN /\ lockOf[e] = NoAcceptor
          /\ lockOf' = [lockOf EXCEPT ![e] = a]
          /\ acceptor' = [acceptor EXCEPT ![a] =
                            [phase |-> "status",
                             jobs  |-> Group(r, SubSeq(queue, 1, n)),
                             first |-> TRUE]]
          /\ queue' = SubSeq(queue, n + 1, Len(queue))
    /\ UNCHANGED <<configured, post, request, putters, unfinished, puts, passes,
                   chunksIssued, lost, crashes>>

Current(a) == Head(acceptor[a].jobs)
AtPhase(a, p) == [acceptor EXCEPT ![a].phase = p]

JobStatus(a) ==
    /\ acceptor[a].phase = "status"
    /\ request' = [request EXCEPT ![Current(a)] = "processing"]
    /\ acceptor' = AtPhase(a, IF Current(a)[1] \in Actionable THEN "engine" ELSE "finish")
    /\ UNCHANGED <<configured, post, queue, putters, lockOf, unfinished, puts, passes,
                   chunksIssued, lost, crashes>>

\* Mutant: the commands of the pass are not issued.
JobEngineOnly(a) ==
    /\ acceptor[a].phase = "engine"
    /\ passes' = [passes EXCEPT ![Current(a)] = @ + 1]
    /\ acceptor' = AtPhase(a, "finish")
    /\ UNCHANGED <<configured, post, request, queue, putters, lockOf, unfinished, puts,
                   chunksIssued, lost, crashes>>

\* One engine pass over the last actionable event, committed on its own.
JobEngine(a) ==
    /\ acceptor[a].phase = "engine"
    /\ passes' = [passes EXCEPT ![Current(a)] = @ + 1]
    /\ acceptor' = AtPhase(a, IF Chunks > 0 THEN "issue" ELSE "finish")
    /\ UNCHANGED <<configured, post, request, queue, putters, lockOf, unfinished, puts,
                   chunksIssued, lost, crashes>>

JobIssue(a) ==
    /\ acceptor[a].phase = "issue"
    /\ chunksIssued' = [chunksIssued EXCEPT ![Current(a)] = @ + 1]
    /\ acceptor' = AtPhase(a, IF chunksIssued'[Current(a)] = Chunks THEN "finish" ELSE "issue")
    /\ UNCHANGED <<configured, post, request, queue, putters, lockOf, unfinished, puts,
                   passes, lost, crashes>>

\* task_done is called for a drained job when it ends, for the first job of a
\* group when the group ends.
TaskDone(a) ==
    LET drained == IF acceptor[a].first THEN 0 ELSE 1
        last    == IF Len(acceptor[a].jobs) = 1 THEN 1 ELSE 0
    IN drained + last

\* Mutant: the group ends with its first job.
NextGroup(a) ==
    /\ unfinished' = unfinished - TaskDone(a)
    /\ acceptor' = [acceptor EXCEPT ![a] = IdleAcceptor]
    /\ lockOf' = [lockOf EXCEPT ![ExecOf(Current(a))] = NoAcceptor]

\* Mutant: the lock of the execution is kept.
NextJobKeepingLock(a) ==
    /\ unfinished' = unfinished - TaskDone(a)
    /\ acceptor' = [acceptor EXCEPT ![a] =
                      IF Len(@.jobs) = 1 THEN IdleAcceptor
                      ELSE [phase |-> "status", jobs |-> Tail(@.jobs), first |-> FALSE]]
    /\ UNCHANGED lockOf

NextJob(a) ==
    /\ unfinished' = unfinished - TaskDone(a)
    /\ IF Len(acceptor[a].jobs) = 1
       THEN /\ acceptor' = [acceptor EXCEPT ![a] = IdleAcceptor]
            /\ lockOf' = [lockOf EXCEPT ![ExecOf(Current(a))] = NoAcceptor]
       ELSE /\ acceptor' = [acceptor EXCEPT ![a] =
                              [phase |-> "status", jobs |-> Tail(@.jobs), first |-> FALSE]]
            /\ UNCHANGED lockOf

JobFinish(a) ==
    /\ acceptor[a].phase = "finish"
    /\ request' = [request EXCEPT ![Current(a)] = "completed"]
    /\ NextJob(a)
    /\ UNCHANGED <<configured, post, queue, putters, puts, passes, chunksIssued, lost, crashes>>

\* An exception or the processing timeout in any phase: batch.failed is
\* recorded, or only logged.
JobFail(a) ==
    /\ acceptor[a].phase \in {"status", "engine", "issue", "finish"}
    /\ \/ /\ request' = [request EXCEPT ![Current(a)] = "failed"]
          /\ UNCHANGED lost
       \/ /\ lost' = lost \cup {Current(a)}
          /\ UNCHANGED request
    /\ NextJob(a)
    /\ UNCHANGED <<configured, post, queue, putters, puts, passes, chunksIssued, crashes>>

\* The server stops: queue, tasks, locks and handlers end with it.
Unsettled == {h \in Posts : request[h] \in {"accepted", "processing"}}
ServerStop ==
    /\ crashes < MaxCrashes
    /\ crashes' = crashes + 1
    /\ lost' = lost \cup Unsettled
    /\ post' = [h \in Posts |-> IF post[h] \in {"read", "put", "waiting", "woken"}
                                THEN "refused" ELSE post[h]]
    /\ queue' = <<>>
    /\ putters' = <<>>
    /\ puts' = <<>>
    /\ acceptor' = [a \in Acceptors |-> Off]
    /\ lockOf' = [e \in BatchExecutions |-> NoAcceptor]
    /\ unfinished' = 0
    /\ UNCHANGED <<configured, request, passes, chunksIssued>>

JobStep(a) == JobStatus(a) \/ JobEngine(a) \/ JobIssue(a) \/ JobFinish(a)

BatchNext ==
    \/ \E b \in Batches : \E n \in 1..MaxPosts[b] : PostRead(b, n)
    \/ \E h \in Posts : PostCommit(h) \/ PostFail(h)
    \/ \E h \in Posts : PutNow(h) \/ PutWait(h) \/ PutTimeout(h)
    \/ \E a \in Acceptors : WorkerGet(a) \/ WorkerLock(a)
    \/ \E a \in Acceptors : JobStep(a) \/ JobFail(a)
    \/ ServerStop

BatchSpec == BatchInit /\ [][BatchNext]_batchVars

\* The event loop runs every task that is ready.
BatchFairness ==
    /\ \A h \in Posts : WF_batchVars(PutNow(h) \/ PutWait(h))
    /\ \A h \in Posts : WF_batchVars(PutTimeout(h))
    /\ \A a \in Acceptors : WF_batchVars(WorkerGet(a)) /\ WF_batchVars(WorkerLock(a))
    /\ \A a \in Acceptors : WF_batchVars(JobStep(a))

----
(* Properties. *)

JobsOf(a) == Range(acceptor[a].jobs)
Carriers(h) ==
    Cardinality({i \in DOMAIN queue : queue[i] = h})
    + Cardinality({a \in Acceptors : h \in JobsOf(a)})
    + (IF post[h] \in {"put", "waiting", "woken"} THEN 1 ELSE 0)

\* The types; a task_done too many, which raises ValueError in the acceptor task
\* and ends it, would make unfinished negative.
BatchTypeOK ==
    /\ configured \subseteq Acceptors
    /\ post \in [Posts -> {"none", "read", "put", "waiting", "woken", "ok",
                           "duplicate", "refused"}]
    /\ request \in [Posts -> {"none", "accepted", "processing", "completed", "failed"}]
    /\ queue \in Seq(Posts) /\ Len(queue) <= QueueMax
    /\ putters \in Seq(Posts)
    /\ acceptor \in [Acceptors -> [phase : Phases, jobs : Seq(Posts), first : BOOLEAN]]
    /\ lockOf \in [BatchExecutions -> Acceptors \cup {NoAcceptor}]
    /\ unfinished \in Nat
    /\ puts \in Seq(Posts)
    /\ passes \in [Posts -> Nat] /\ chunksIssued \in [Posts -> Nat]
    /\ lost \subseteq Posts
    /\ crashes \in 0..MaxCrashes

\* A request that has not been settled is on its way in exactly one place: with
\* the handler, in the queue or with one acceptor, unless it was lost; nothing
\* else is on its way.  The coalescing of queued jobs (_drain_contiguous_jobs_
\* for_execution) and the give-up of a put neither lose nor double a job.
CarriedOnce ==
    \A h \in Posts :
        Carriers(h) = IF request[h] \in {"accepted", "processing"} /\ h \notin lost
                      THEN 1 ELSE 0

\* The acceptors serve an execution in turn: no two of them work for one
\* execution at a time, the jobs coalesced under a lock belong to the execution
\* it protects, and with one acceptor task, the default, the requests of an
\* execution are worked off in the order they were queued.
ServedInTurn ==
    /\ \A a \in Acceptors : acceptor[a].phase \in {"status", "engine", "issue", "finish"} =>
          \A i \in DOMAIN acceptor[a].jobs : lockOf[ExecOf(acceptor[a].jobs[i])] = a
    /\ Cardinality(configured) = 1 =>
          \A i, j \in DOMAIN puts :
             i < j /\ ExecOf(puts[i]) = ExecOf(puts[j]) /\ request[puts[j]] # "accepted"
             => request[puts[i]] \in {"completed", "failed"} \/ puts[i] \in lost

\* A request is reported completed only after one engine pass and all its
\* chunks of commands; a failed one may have issued part of them, never more.
CompletedMeansIssued ==
    \A h \in Posts :
        /\ request[h] = "completed" /\ h[1] \in Actionable
           => passes[h] = 1 /\ chunksIssued[h] = Chunks
        /\ passes[h] <= 1 /\ chunksIssued[h] <= passes[h] * Chunks

\* What the worker relies on (test_emit_batch_events_reuses_idempotency_key_
\* across_retries: an ack_timeout, then a 202, count as emitted): once a post
\* of a batch is answered 202, a request of the batch reached the queue or its
\* handler is about to put it there.
AckedIsQueued ==
    \A b \in Batches : Accepted202(b) =>
        \E n \in 1..MaxPosts[b] :
            <<b, n>> \in Range(puts) \/ post[<<b, n>>] \in {"read", "put", "waiting", "woken"}

\* Every accepted request is settled, unless a stop or a failed write of its
\* status lost it: putters are woken, the lock is handed on, drained jobs end.
EventuallySettledRequest ==
    \A h \in Posts : request[h] = "accepted"
        ~> (request[h] \in {"completed", "failed"} \/ h \in lost)
====

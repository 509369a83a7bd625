# A TLA+ verification of NoETL

NoETL executes playbooks: workflows written in YAML whose steps call tools. A
server turns a playbook into *commands*, worker processes execute them, and the
*events* they report drive an engine that issues the next commands. This
directory models the parts of that machinery in which processes interact, checks
the models with TLC on small instances, and proves their main invariants for all
instances with TLAPS.

1. [The system](#1-the-system): parts, state, operations, interactions
2. [What is hard, and what should hold](#2-what-is-hard-and-what-should-hold)
3. [The modules](#3-the-modules)
4. [The runs](#4-the-runs)
5. [The proofs](#5-the-proofs)
6. [Findings](#6-findings)
7. [What is left out](#7-what-is-left-out)
8. [Plan](#8-plan)

Paths below are relative to `src/noetl/`.

## 1. The system

```
            /execute, /events, /events/batch, /commands/{id}/claim
  worker ───────────────────────────────────────────────► server replica(s)
    ▲    ◄── command notifications ── NATS JetStream ◄────────  │ │ │
    │                                                           │ │ └─ reaper, sweeper,
    └── heartbeat = registration ───────────────────────────────┘ │    publish-recovery
                                                                  ▼
                      PostgreSQL: event, command, execution, runtime, outbox, frame
                      NATS K/V:   loop counters, iteration items, pending counts
```

| Component | Source | State | Operations | Talks to |
|---|---|---|---|---|
| Claim endpoint | `server/api/core/commands.py`, `cache.py`, `claim_policy.py` | rows of `noetl.command`; a claim cache per replica | `claim_command`: look in the cache, read the row, take an advisory lock, decide, UPDATE, COMMIT, answer | workers, runtime table |
| Event endpoints | `server/api/core/events.py`, `batch.py` | `noetl.event`, status of command rows | accept `command.started`, `call.done`, `command.completed`/`failed`; run the engine; insert its commands | engine, NATS |
| Publication | `server/api/core/recovery.py`, `core/messaging/nats_client.py` | JetStream messages; recovery tasks in memory | publish, republish once after a delay; deliver, ack, nak, redeliver | worker |
| Worker | `worker/nats_worker.py` | tasks in progress, recent-activity map | filter a notification, claim with retries, execute, report, heartbeat, clean up | server |
| Reaper | `server/command_reaper.py` | none of its own | find orphaned and stranded commands, republish them | NATS, runtime table |
| Runtime registry | `server/api/runtime/service.py`, `server/app.py` | `noetl.runtime` | register (= heartbeat), deregister, sweep | workers, reaper, claim policy |
| Loop counters | `core/cache/nats_kv.py` | per loop epoch: completed, scheduled, done-claimed; per index: the iteration item | claim indexes, count a completion, claim `loop.done`, reconcile | engine, supervisor |
| Engine | `core/dsl/engine/executor/*` | `execution.state` (JSON), the event log | one pass per event under an advisory lock: count, repair, continue or finish a loop, evaluate arcs, complete the execution | K/V, database |
| Execution endpoints | `server/api/execution/endpoint.py` | terminal events, `execution.status` | cancel with cascade, clean up stuck executions, finalize | event log, engine state |
| Batch acceptor | `server/api/core/batch.py` | bounded queue in memory, lock per execution | accept (commit), enqueue, drain, process with a time limit | engine |
| Supervision | `server/api/supervision.py` | two K/V entries per execution | register issued, mark terminal | K/V |
| Frames | `server/api/frames/endpoint.py`, `worker/cursor_worker.py` | `noetl.frame` with lease | claim, mint, heartbeat, commit | cursor-loop workers |
| Outbox | `core/outbox.py`, `outbox/worker.py` | `noetl.outbox` rows | claim, publish, mark, back off | NATS |
| Runtime leases | `server/runtime_leases.py` | one row per singleton loop | acquire or renew, release | sweeper, reaper, auto-resume |
| Recovery | `server/auto_resume.py` | a task per server at start-up | wait for the lease and the dependencies, list interrupted executions, restart and cancel each | runtime leases, execution endpoints |
| Event store, projector | `core/event_store`, `core/projector`, `core/projection_store` | streams with versions, projection rows | append, fold, upsert | NATS |
| Adaptive gate | `worker/adaptive_concurrency.py` | active, limit, back-off window | acquire, release, back off, probe | worker |

The others (playbook models and planner, tools, task sequences, retries and
pagination of tools, storage of results, credentials, catalogue, dashboard, MCP,
replay, CP-SAT scheduler) have no protocol between processes, or are input and
output; `PROJECT.json` lists each with the reason.

How a command lives: the engine returns it, the server inserts its row as
PENDING and commits, publishes a notification, and schedules one delayed
republication. A worker receives the notification, drops it if it has dealt with
the command recently, otherwise asks for a claim. The server answers with the
command, with 409 (somebody else has it, or it is over) or with an error. The
worker executes it, reports `command.started` on the way (best effort) and a
batch with `call.done` and the terminal event at the end, and acks the message
when all is done. If anything dies on the way, JetStream redelivers and the
reaper republishes, and the claim policy decides whether the old claim may be
taken away.

How a loop runs: entering the step resets the counters in K/V and claims as many
indexes as may be in flight. Each `call.done` is accepted in a transaction of
its own, later an engine pass records the index as terminal in K/V (once),
increments `completed_count`, runs the tail repair, and either routes
`loop.done` under a one-time claim or claims more indexes; the commands are
inserted after the pass has committed, in another transaction.

## 2. What is hard, and what should hold

`PROJECT.json` lists the hazards with their lines. They fall in six groups.

* **Decisions on stale reads.** `claim_command` reads the row, then takes the
  lock, then decides on what it read. Several replicas cache claims apart from
  one another. *Should hold:* nobody executes what was not claimed; a completed
  command is never running again; a claim changes hands only after its lease.
* **Messages that are late, lost, repeated.** A worker that drops a message
  relies on somebody else having the command. *Should hold:* a PENDING command
  always has a carrier; every command is settled in the end.
* **Two stores, one decision.** Writes in K/V survive an engine transaction that
  rolls back, the commands of a committed pass may never be inserted, and the
  final flush of `execution.state` may fail unnoticed. *Should hold:* the
  counters never go back nor beyond their limits; results are backed by recorded
  iterations; a step that ignores further events was routed.
* **Repairs that race with what they repair.** Tail repair, reconciliation and
  watchdog replay look for lost iterations while the normal path is at work.
  *Should hold:* an index is given to one command only; no more than
  `max_in_flight` commands; `loop.done` is routed once, after the last item.
* **Several parties that end or restart the same thing.** Engine, operators and
  clean-up end an execution, two server instances recover it, branches of a
  playbook meet in one step. *Should hold:* an execution ends once, when nothing
  of it is in flight; an end is final; nothing is replaced twice.
* **Queues, leases, slots.** The batch acceptor takes jobs past the interface of
  its queue; frames change hands under a lease while heartbeats and commits are
  on their way; drainers share outbox rows; a call has many ways to give a slot
  of the gate back. *Should hold:* a job is in one place; a frame ends once; no
  event is lost between outbox and projection; the slot count is exact.

## 3. The modules

| Module | Content | Theorems |
|---|---|---|
| `ClaimPolicy` | `claim_policy.py` and the reaper's staleness tests as predicates on ages | |
| `CommandLifecycle` | issue, publication, claim, execution, settlement and recovery of commands | `CommandLifecycleProofs` |
| `LoopKV` | the K/V record of one loop epoch and its updates | |
| `LoopPromise` | abstract specification: what a loop step promises | |
| `LoopCoordination` | one loop epoch: K/V, engine passes, commands, acceptance; refines `LoopPromise` | `LoopCoordinationProofs` |
| `WorkflowEngine` | arcs, steps in flight, issue of commands, end of the execution | `WorkflowEngineProofs` |
| `BatchAcceptor` | acceptance of batches, bounded queue, acceptor tasks | `BatchAcceptorProofs` |
| `PendingCommands` | the supervisor's count in two K/V keys | `EnginePartsProofs` |
| `ExecutionEnd` | who ends an execution: engine, cancel, cleanup, finalize | `EnginePartsProofs` |
| `FrameLease` | frames of cursor loops under a lease | `FrameLeaseProofs` |
| `AutoResume` | recovery at start-up under a runtime lease | `DataPartsProofs` |
| `EventMirror` | outbox, event stream, projection rows | `EventMirrorProofs` |
| `ConcurrencyGate` | the worker's adaptive limit on calls | `DataPartsProofs` |
| `MCCommandLifecycle`, `MCLoopCoordination` | instances of one component; the first also the specification used for liveness | |
| `MCEngineParts`, `MCDataParts`, `MCPartsLive` | instances of several components, one at a time | `EnginePartsProofs`, `DataPartsProofs` |

`MCEngineParts`, `MCDataParts` and `MCPartsLive` hold several components that
share no variable. Their variable `part` is chosen initially and says which
component runs; the others rest in an initial state. A suite is thus a set of
separate checks in one run, not a composition of interacting parts; that a
behaviour of a suite is a behaviour of each component's own specification is
proved (`EachEnginePart`, `EachDataPart`). Where components do interact
(the engine behind the acceptor, the lifecycle behind a loop), each states what it
takes from the other as its own actions and fairness.

Definitions whose comment says *Mutant* are deliberately wrong variants of the
definition that follows them; no specification uses them, they show which bug
each property detects.

### CommandLifecycle

One execution, any number of commands, worker processes, notification tasks per
process, API replicas.

| Variable | Code |
|---|---|
| `row` | `noetl.command`: status, `worker_id`, age of `created_at`/`claimed_at`, `completed_at IS NOT NULL` |
| `ended` | a terminal event of the execution exists |
| `runtime` | `noetl.runtime` |
| `cache`, `unpublished`, `recovery` | per replica: `_active_claim_cache`, commands between commit and publish, `_PUBLISH_RECOVERY_TASKS` |
| `queue`, `late` | JetStream; `command.started` posts that the worker no longer waits for |
| `req` | a claim request inside a server, with the row it has read (`snap`) |
| `task`, `recent`, `up` | the worker: what each task does, `_recent_command_activity`, life of the process |

The claim handler is cut where other transactions can come in between:
`ClaimCacheHit` or `ClaimReadRow`, then one of `ClaimRefuse`, `ClaimRepeat` or
`ClaimLock`, then `ClaimCommit` (the UPDATE becomes visible and the lock is
released), then `ClaimReply` (outbox drained, claim cached, answer sent);
`ClaimError` and `ServerCrash` can strike at each point. The lock is not a
variable: a request holds it while its `pc` is `"locked"`.

Time is discrete. `Tick` makes every timestamp one unit older, those in a
handler's hands included, and ages saturate at `MaxAge` and `MaxBeat`, chosen so
that a saturated age satisfies the same comparisons as every larger one.
The code's defaults are heartbeat 30 s and reaper below lease 120 s below hard
timeout 1800 s. The instances give the hard timeout the value of the lease, the
least that the policy's `max` admits, so that a healthy owner, too, can lose its
claim; `lifecycle_live` has an `OfflineAfter` that is never passed, which
switches the sweeper off: reaper and policy must do without it. The theorems
hold for all thresholds.

Failures (a crash of a worker or a replica, a lost publish, a lost or late call,
a callback time-out, a database error) share the budget `MaxFaults`. The
resulting state, not the cause, is what matters: one action often stands for
several causes.

### LoopCoordination

One epoch of a task-sequence loop over a collection of `Size` items.

| Variable | Code |
|---|---|
| `kv` | K/V record `loop:step:epoch` |
| `item` | K/V items `loop-item:step:epoch:index` |
| `unissued` | commands returned by a finished pass, not yet inserted |
| `live`, `finished` | command rows that are not terminal, that are |
| `calls` | accepted `call.done` events whose pass has not run |
| `state` | `execution.state`: entered, finalized, number of results, repaired indexes |
| `logged`, `routed` | `loop.done` events in the log; how often the transitions were taken |
| `pass` | the engine pass that holds the advisory lock: program counter and local variables |

A pass is `Begin`, `Record` (`try_record_loop_iteration_terminal`), `Count`
(`increment_loop_completed` or a read), `Repair`, then `Route`
(`try_claim_loop_done`) or `Continue` and its single attempts `Refill` and
`Reconcile`, and `Commit`. It is cut at each K/V request, since acceptances and
inserts of commands of other transactions come between them, and since a crash
leaves the requests made so far in K/V. Every K/V method is a compare-and-swap
loop over one key, hence one step. Ages (cooldown of the reconciliation, minimum
age of an orphan) are not modelled: both outcomes are allowed whenever they
could matter.

`FaultKinds` selects what may fail, `MaxFaults` how often: `"kv"` (a request
fails, having taken effect or not), `"render"` (the creation of continuation
commands raises after the claim), `"flush"` (the final `save_state` fails and is
only logged), `"crash"` (a pass, or the insertion of its commands, dies).
`FirstStep` says whether `/execute` enters the loop: only then do the iteration
items become `"issued"`, because the batch path does not call the supervisor.

`LoopPromise` has two actions: `Execute` an item, and `Route` once, when all
items are executed. `LoopCoordination` instantiates it with `executed` = the
indexes that have a finished command and `routed` = `routed`, and `KeepsPromise`
is its specification as a property: every step of the detailed model is an
`Execute`, a `Route` or a stutter.

### WorkflowEngine

One execution of any playbook graph, without loops. A command `<<s, n>>` is the
n-th command of step `s`.

| Variable | Code |
|---|---|
| `command` | the row of `noetl.command`: not there, made by a pass but not inserted, open, settled, lost |
| `reported`, `waiting` | `call.done`, `call.error` and lone `command.failed` events that are persisted; those the engine has not processed |
| `flow` | `execution.state`: `issued_steps`, `completed_steps`, `failed`, `completed` |
| `outcome` | `workflow.completed` / `workflow.failed` events |
| `supervised`, `kvUp` | commands in the supervisor's count; whether NATS K/V answers |

`EnginePass` is one call of `_handle_event_inner` with `_evaluate_next_transitions`:
what each `when` renders to is chosen anew (match, no match, an error), routing is
exclusive or inclusive, targets in flight are passed over, and if nothing was
routed the completion check looks at the steps in flight, the supervisor and the
rows. `InsertRow` is the later insertion; `LoseCommand` and `LoseEvent` are what a
stop of the server leaves. `PassRaises` is the pass that finds no count at all.
Workers report `call.done` and `call.error` through the batch endpoint
(`ReportBatch`: the event and the settled row are one transaction). The one event
they post by itself (`FailedPosts`) is the `command.failed` of a command whose claim
failed for good or whose report was not accepted (`nats_worker.py:1334`, `:2500`).
`ReportFailed`, `FailRow` and `FailedPass` are the three parts of its handler: the
event, the UPDATE of the row with the supervisor's count (the UPDATE may fail, which
is only logged), the engine pass. That pass routes nothing; it ends the execution
unless something is pending, which it judges without the rows and without taking
the step of the command itself out of flight (`PendingAtFailure`).

### BatchAcceptor

| Variable | Code |
|---|---|
| `post` | where the handler of each attempt to post a batch is |
| `request` | latest status event of the batch request |
| `queue`, `putters`, `unfinished` | the deque, the waiting putters and the task counter inside the `asyncio.Queue` |
| `acceptor`, `lockOf`, `configured` | acceptor tasks with the jobs they hold, the locks per execution, how many tasks a deployment runs |
| `puts`, `passes`, `chunksIssued`, `lost` | history |

A post is `PostRead` (look-up of the idempotency key), `PostCommit` or
`PostFail`, then `PutNow`, `PutWait` or `PutTimeout`, following `asyncio.Queue`:
a `get` wakes the first putter, the drain under the lock (`WorkerLock`) takes
jobs out of the deque and wakes nobody, a cancelled putter passes its wake-up on.
`ServerStop` ends tasks, queue, locks and handlers at any point.

### PendingCommands

`entry` and `exec` are the two K/V values with their revisions, `sup` the calls
of `register_command_issued` and `mark_command_terminal` under way, `clash`
records that a write met a moved revision or that a mark came before its
registration. Each read and write is a step.

### ExecutionEnd

`latest` and `endings` are the last event and the terminal events, `engine` and
`status` the saved state and the projected column of `noetl.execution`, `current`
and `issuedSoFar` the execution's commands (one after the other), `closing` a
`batch.completed` that is still to be written, `call` the requests of operators.
Cancel, cleanup and finalize read, then write in transactions of their own; the
engine works under the lock of the execution.

### FrameLease

`frame` holds the rows of `noetl.frame` (status, owner, lease), `worker` the
executions of the slots' commands with the row a claim has locked (`chosen`),
`beats` and `commitCalls` the requests under way, `ends` and `revivals` history.
The claim is cut at its statements: own frame, expired frame (`SKIP LOCKED`),
insertion, the conflict path, the UPDATE. A heartbeat reads and writes in
separate statements. `Restart` executes a slot's command again, while the first
worker is dead or merely slow.

### AutoResume

`lease` is the row of `noetl.runtime` that stands for the lease, `instance` the
start-up task of each server, `execution`, `stale`, `recent` the candidates,
`replaced`, `unrecorded`, `overran` history. Nothing renews the lease during a
recovery, and `release` leaves owner and heartbeat, as in the code. A restart is
three transactions: the new execution (`StartReplacement`), its commands
(`IssueReplacement`), the cancelled event of the old one (`CancelExecution`); each
may fail, and the server may stop between them. A failure of `IssueReplacement`
makes `_restart_execution` return None, and the old execution is not cancelled
although a new one was started. `unrecorded` counts, per execution, the
replacements that no cancellation followed. `QueryFails` is an exception of the
queries for candidates and status, which ends the recovery.

### EventMirror

`row` is `outbox.status`, `batch` and `doing` the drainers, `stream` the messages
with their deliveries and how many of their records are saved, `shown` the event
each projection row was last folded from, `failures` the failed calls so far. An
error leaves open whether the call took effect: a publication that raised may
have stored up to two copies, a mark that raised may be committed.

### ConcurrencyGate

`limit` (in tenths), `active` and `backoff` are the controller's fields, `at`,
`tries` and `released` the requests. The ways a claim, batch or event call leaves
the gate are `Succeed`, `Overload`, `Fail` and `Leave`; the code's `_released`
flag decides whether a slot is given back.

## 4. The runs

Passing runs:

| Run | Instance | Distinct states | Properties |
|---|---|---|---|
| `lifecycle_race` | 2 processes, 1 command, 2 replicas, 1 failure | 3.1 M | `TypeOK`, `ExecutionImpliesClaim`, `CompletedNeverRunning`, `PendingIsCarried`, `OnlyStaleReadersSteal` |
| `lifecycle_live` | 2 processes, 1 failure, fairness | 0.4 M | `EventuallySettled` |
| `loop_promise` | 5 items, 2 in flight, no tail repair, 3 failures outside K/V | 3.7 k | `KeepsPromise`, `Backpressure`, `IndexOnce` |
| `loop_faults` | 3 items, 2 in flight, first step, any 2 failures | 0.2 M | `TypeOK`, `CountersBounded`, `ResultsBacked`, `FinalizedIsRouted`, `CountersGrow` |
| `engine_parts` | a playbook with a branch, a join and a way back; 3 batches, 2 acceptors, 1 stop; 2 commands in the count; an execution with a child, 2 operators | 2.0 M | `EngineTypeOK`, `FinishedQuiet`, `OneCommandPerStep`, `EndsOnceAndTruly`, `CarriedOnce`, `ServedInTurn`, `CompletedMeansIssued`, `ExactWithoutClash`, `ProjectedStatusStays`, `EngineEndIsFinal` |
| `data_parts` | 2 slots, one executed twice; 2 instances; 2 events, 2 drainers, 2 failed calls; 3 requests | 1.7 M | `DataTypeOK`, `EndsOncePerRevival`, `ChangesHandsRightly`, `OneRecoversAtATime`, `ReplacedOnce`, `AckedIsShown`, `NeverShowsOlder`, `SlotsBalanced` |
| `parts_live` | a loop of 4 with 3 in flight and one small instance of each other part, fairness | 125 k | `LoopCompletes`, `WorkflowFinishes`, `BatchesSettle`, `EndedRests`, `StageCloses`, `RecoveryEnds`, `EventsShow`, `RequestsEnd` |

What they show:

* `ExecutionImpliesClaim`: no lost reply, rollback, stale cache or redelivery
  makes a worker run a command whose row is still PENDING, and no cache names a
  holder of an unclaimed one.
* `CompletedNeverRunning`: the guard on `completed_at` stops a late
  `command.started`, also after a later claim.
* `PendingIsCarried`: while nothing has failed, whoever drops a notification of
  a PENDING command drops a duplicate. After a failure the reaper is the carrier
  and only liveness remains.
* `OnlyStaleReadersSteal`: policy and lock suffice for every request whose
  reading is current; a take-over within the lease is always the work of a
  request that decided on an outdated row.
* `EventuallySettled`: an issued command reaches COMPLETED or FAILED in spite of
  a failure.
* `KeepsPromise`, `Backpressure`, `IndexOnce`: without tail repair and with at
  most two iterations in flight, crashes, rendering errors and lost flushes do
  not break them. A loop may stop for ever after such a failure, which a safety
  property does not exclude.
* `CountersBounded`: what the K/V record admits never exceeds `max_in_flight`
  and the collection, although claims, increments and reconciliations raise its
  two counters independently. `CountersGrow`: no writer takes a counter back.
* `ResultsBacked`: results of committed state are recorded in K/V under an index
  of their own, and a recorded index has a finished command.
* `FinalizedIsRouted`: the recovery of a claimed but unrouted `loop.done` works.
* `FinishedQuiet`, `OneCommandPerStep`, `EndsOnceAndTruly`: whatever order the
  branches finish in, an execution is not ended over a command in flight, neither
  by the completion check nor on a `command.failed`, a join runs once, a failure is
  not reported as success; lost commands and events make
  an execution hang, never end wrongly.
* `CarriedOnce`, `ServedInTurn`, `CompletedMeansIssued`: coalescing, time-outs and
  a stop neither lose nor double a job unseen, an execution is served by one task
  at a time (with one task, in order), and "completed" means that all commands
  were issued.
* `ExactWithoutClash`: overlapping calls and repeated terminal events alone do not
  falsify the pending count; only the named clashes of revisions do.
* `ProjectedStatusStays`, `EngineEndIsFinal`: a finalize that saves a state it
  loaded long ago changes neither a terminal status nor the engine's end.
* `EndsOncePerRevival`, `ChangesHandsRightly`: a frame ends a second time only
  after a heartbeat that had read it before the first end; a live frame changes
  hands only to the slot it was minted for.
* `OneRecoversAtATime`, `ReplacedOnce`: what the lease of the recovery gives
  although it is not renewed: exclusion up to an overrun, and one more replacement
  of an execution only after a replacement that no cancellation followed (a restart
  that failed after it had committed the new execution, a failed write, a stop).
* `AckedIsShown`, `NeverShowsOlder`: two saves and an acknowledgement, cut
  anywhere, redelivered and side by side, lose no event and go back to none.
* `SlotsBalanced`: no way out of a call keeps a slot or gives one back twice.
* `LoopCompletes`, `WorkflowFinishes`, `BatchesSettle`, `EndedRests`,
  `StageCloses`, `RecoveryEnds`, `EventsShow`, `RequestsEnd`: each part gets
  there. `LoopCompletes` is without failures; `WorkflowFinishes` is
  for executions of which nothing is lost and no command given up; `EventsShow` for drainers that do not die.

**Bounds.** Races for a command are races of two parties, for one row and one
lock; a third party only repeats what a second one can do to the first, and
commands interact only through the reaper's limit and the workers. One failure
of any kind, at any point, covers the recovery paths, which are disjoint.
`MaxQueue` bounds the identical notifications of a command. In a loop
the smallest size at which an index remains after the first claim is
`MaxInFlight + 1`; five items with two in flight give two full rounds and a tail.
Two failures of four kinds let a failure hit the pass that repairs another one.
The playbook of `engine_parts` has an inclusive split, a join and a loop back, and
`MaxRuns = 2` lets every step come a second time. Three batches of two executions
on a queue of two make a put wait, a drain stop at a foreign job, and a retry
meet its first attempt. Two slots with one command executed twice give the three
workers needed for own frame, expired frame and conflict to compete. `LeaseTime`
and `FullLease` of one tick leave "within" and "after". Two drainers and two
failed calls allow a row to be claimed again, published twice and delivered
twice. Of three requests at a gate of one or two slots, one waits while another
backs off. The invariants of section 5 are also proved without any bound. Loops,
executions and calls come to an end, so deadlock is not checked where the `.cfg`
says so; in the lifecycle runs time never stops. `SYMMETRY` exchanges processes
together with their tasks, or acceptor tasks; it is used with invariants and
action properties only, never with liveness.

**Fairness.** Weak fairness unless said otherwise; nothing is ever assumed of
failures, stops, lost calls, operators or the order of events.

* Lifecycle: time passes; the reaper loop, a worker's heartbeat and start-up,
  publication by a live handler, expiry of a TTL, and each task with its request
  take their steps when they can. They are loops and awaits that nothing in the
  code stops while the process lives. Recovery tasks, late calls and redelivery
  are not fair. `LiveSpec` leaves out `EndExecution`, since a terminated
  execution satisfies the property trivially, and starts with both workers
  registered; a stopped process does not come back, so one failure leaves one
  worker.
* Loop: the pass proceeds, some accepted event is processed, the commands of each
  index are inserted and executed (the lifecycle shows the latter). Workflow: the
  same, and every accepted event is processed (the acceptor shows it); a handler of
  `POST /events` goes on to its pass. Nothing is assumed of a worker that has posted
  `command.failed`.
* Acceptor: the event loop runs a task that is ready. Ended executions: a claimed
  command is reported and the report processed.
* Frames: the server works on a claim, a worker goes on. Recovery: tasks run and
  the clock ticks. Mirror: the publisher process loops, the broker redelivers, a
  projector task runs to its end.
* Gate: calls end and back-off ends; `Acquire` is strongly fair, since a waiter
  looks again at each notification or time-out of the condition and the probe that
  may start a back-off again comes only every few seconds.

In `MCPartsLive` the fairness of each part is conditional on the part that runs.

Runs that show a disagreement between the code and what it says are in
section 6.

## 5. The proofs

All proof modules follow one pattern: an inductive invariant, the lemmas
`Init => Inv` and `Inv /\ [Next]_vars => Inv'` from one lemma per conjunct or
action, and theorems read off it. Assumptions are those declared with the
constants (`ThresholdsAssumption`: the lease is not above the hard timeout, as
`core.py` clamps it; `LifecycleAssumption`, `LoopAssumption`,
`CoordinationAssumption`, `WorkflowAssumption`, `EndAssumption`,
`BatchAssumption`, `PendingAssumption`, `FrameAssumption`, `ResumeAssumption`,
`MirrorAssumption`, `GateAssumption`).
Nothing bounds the number of commands, workers, tasks, replicas, items, steps,
events or failures; only the gate's requests and the acceptor tasks are assumed
finite, because they are counted (the code creates a configured number of tasks).

| Module | Theorem | Statement |
|---|---|---|
| `CommandLifecycleProofs` | `TypeCorrect` | `[]TypeOK` |
| | `ExecutionIsClaimed` | `[]ExecutionImpliesClaim` |
| | `CompletedStaysCompleted` | `[]CompletedNeverRunning` |
| | `StealsAreStaleOrExpired` | `OnlyStaleReadersSteal` |
| | `PendingAlwaysCarried` | `[]PendingIsCarried`, if a notification can wait at all (`MaxQueue > 0`) |
| `LoopCoordinationProofs` | `TypeCorrect` | `[]TypeOK` |
| | `LimitHolds` | `[]CountersBounded` |
| | `ResultsAreBacked` | `[]ResultsBacked` |
| | `NoSilentEnd` | `[]FinalizedIsRouted` |
| | `CountersNeverGoBack` | `CountersGrow` |
| | `RepeatsLimited` | `[]RepeatsBounded`: an index has at most two commands and one for each failure, with tail repair, watchdog and all failures |
| | `IndexesOnce` | `[]IndexOnce`, without tail repair; requests to K/V may fail unless `/execute` entered the loop (`Calm`) |
| | `CommandsWithinLimit` | `[]Backpressure`, without tail repair and with working K/V (`Careful`) |
| | `LoopKeepsPromise` | `KeepsPromise` (refinement of `LoopPromise`), `Careful` and `MaxInFlight <= 2` |
| `WorkflowEngineProofs` | `WorkflowTypes` | `[]WorkflowTypeOK` |
| | `EndIsQuiet` | `[]FinishedQuiet` |
| | `StepsRunOnceAtATime` | `[]OneCommandPerStep` |
| | `EndIsTrue` | `[]EndsOnceAndTruly` |
| `BatchAcceptorProofs` | `BatchTypesHold` | `[]BatchTypeOK` |
| | `RequestsCarriedOnce` | `[]CarriedOnce` |
| | `RequestsServedInTurn` | `[]ServedInTurn` |
| | `CompletedIsIssued` | `[]CompletedMeansIssued` |
| `EnginePartsProofs` | `PendingTypesHold` | `[]PendingTypeOK` |
| | `PendingCountExact` | `[]ExactWithoutClash` |
| | `EndTypes` | `[]EndTypeOK` |
| | `TerminalStatusStays` | `ProjectedStatusStays` |
| | `EndedEngineIssuesNothing` | `EngineEndIsFinal` |
| | `EachEnginePart` | `MCEngineParts` implements the specification of each of its parts |
| | `EngineTypesHold` | `[]EngineTypeOK` |
| `FrameLeaseProofs` | `FrameTypes` | `[]FrameTypeOK` |
| | `FramesEndOncePerRevival` | `[]EndsOncePerRevival` |
| | `HandsChangeRightly` | `ChangesHandsRightly` |
| `EventMirrorProofs` | `MirrorTypes`, `RowsHaveOneDrainer`, `PublishedStays` | `[]MirrorTypeOK`, `[]OneDrainerPerRow`, `[]PublishedIsInStream` |
| | `AcknowledgedIsShown` | `[]AckedIsShown` |
| | `RecordsMoveOn` | `NeverShowsOlder` |
| `DataPartsProofs` | `GateTypes`, `SlotsAreBalanced` | `[]GateTypeOK`, `[]SlotsBalanced` |
| | `MaximumHolds` | `[]WithinMaximum` |
| | `ResumeTypes`, `FreshOwnsLease` | `[]ResumeTypeOK`, `[]FreshWorkerOwnsLease` |
| | `OneAtATime` | `[]OneRecoversAtATime` |
| | `NoneReplacedTwice` | `[]ReplacedOnce` |
| | `EachDataPart` | `MCDataParts` implements the specification of each of its parts |
| | `DataTypesHold` | `[]DataTypeOK` |

Every safety property of a passing run is thus a theorem too.

How the arguments run, and what has to be added to make the properties inductive:

* **Commands.** `ExecutionImpliesClaim` speaks of executing tasks and of caches,
  while the knowledge comes from a request in flight. `ClaimsKnown` extends it to
  requests that have committed or answered, and to readings of an active row,
  relying on `Wellformed` (a request serves the command of its task) and on
  `ClaimedStays` (a claimed row never becomes PENDING again).
  `StealsAreStaleOrExpired` needs `TakesExpired`: a request that holds the lock
  and read somebody else's claim read it at an age beyond the lease. Since time
  passes for readings and rows alike, either the reading is still the row's
  claim, whose age then is beyond the lease too, or the reading is stale.
  `PendingAlwaysCarried` needs to know why a worker drops a notification
  (`CarriedWell`): a PENDING command is refused, or remembered by a worker, only
  while another request holds its lock, and while nothing fails that request's
  task still waits for it (`Paired`) and so carries the command.
* **Loops.** The counters are treated as data first: `Good(k)` holds of a record
  within its limits, and `ClaimGood`, `IncrementGood`, `ClaimDoneGood`,
  `AdvanceGood` and `ReconciledGood` show that each update leads from a good
  record to a good, later one; `CountersStep` then says which update each action
  makes. `Enter` needs `NotBegun`, because it overwrites the record.
  `ResultsBacked` needs `Counted` (the bound also for the results of the pass
  under way) and `Reported` (a call waiting or in a pass stems from a finished
  command), and the cardinality lemmas of `FiniteSetTheorems`.
  `FinalizedIsRouted` needs `Justified`: a pass that finalizes without routing
  has found a `loop.done` in the log, and the log never shows more than was
  routed. `TypeOK` needs `Budgeted`: a pass in `"refill"` has an attempt left.
  `IndexesOnce` counts what there is of an index, the commands of the pass
  included: at most one, and none of an index that was not claimed (`HeldOnce`).
  For that the watchdog must never replay (`NothingReplayed`): either a finished
  command is reported once (`ReportedOnce`) and every pass makes progress of its
  own (`PassProgresses`), or the loop was not entered by `/execute` and the
  supervisor never saw an issued index. `RepeatsLimited` needs no such
  assumption: a repair or replay takes an index that is not in `Noted`, the
  repaired indexes the next pass will find, and notes it; a note is lost only by
  a failure, which counts. So the commands of an index are at most the claim, the
  note and the failures (`HeldTwice`).
* **Limit and promise of a loop.** `CommandsWithinLimit` and `LoopKeepsPromise`
  rest on `Backed`: whatever the record counts was recorded, for an index of its
  own. Only a reconciliation from the rows of finished commands breaks it, and
  `PassKnows` says when that happens: a pass that has counted leaves room for a
  claim, so it finds none only when all indexes are claimed. Up to that moment
  every command belongs to an index that is claimed and not recorded, and there
  are at most `scheduled - completed` of those; afterwards no index gets a new
  command (`LimitInv`). For the promise the same moment is looked at from the
  other side: all indexes are claimed and fewer than `max_in_flight` of them are
  uncounted. With a limit of two at most one is, and if the rows are ahead of the
  record then, they say that every item has been executed and only the last is
  still to be recorded (`Recorded`); so the pass that finds all completed is the
  one after which no report is left (`RouteLast`). The limit is sharp: with three
  in flight two rows may be ahead, and `loop_early_done` shows what follows.
* **Workflow.** The engine keeps step names, the properties speak of commands.
  `Outstanding(c)` says which command a name in `issued \ completed` stands for:
  the latest of its step, not yet passed over (or the entry command, whose step is
  not in `issued`). `BusyIsOutstanding`: every command without a `call.done` or
  `call.error` and every such report that waits is of an outstanding command; two of
  one step are equal (`OutstandingIsOne`); a pass over one leaves the others
  outstanding (`OthersStay`), because routing skips steps in flight. The completion
  check then sees all of them. A pass over `command.failed` changes neither set of
  steps, so its command stays outstanding, and so does every other one
  (`FailedPassKeeps`): it ends the execution only if no step was issued and the
  command is the entry command itself (`IssuedOrFirst`), or if none is in flight.
  The theorems assume `~DoubleReports`: a command that is reported done and failed
  takes a step out of flight that may be running again.
* **Acceptor.** `BatchInv` says where the job of a request can be (`Places`:
  exactly one of handler, queue and acceptor, by the handler's state), that no
  sequence holds it twice (`NoRepeats`), what the acceptor in each phase holds
  (`Busy`, `InProgress`, `UnderLock`), and what a request has got so far
  (`Progress`). `CarriedOnce` is a count over queue and acceptors and follows from
  the first two. The order of service needs `WorkedOffInOrder`: with one task, what
  was queued is a settled part, followed by the jobs of the task and the queue.
  `BatchTypeOK` says that `unfinished` never gets negative; for that `Unfinished`
  gives its exact value, jobs in queue and tasks plus the groups whose first job
  has been settled.
* **Pending count.** The two keys of a command are written one after the other.
  `Reads`: what a call has read is the key while the revision is the same.
  `Orderly`: without a clash the key of a command goes from absent to issued to
  terminal, by its register call and then by one mark. `CountExact`: the count is
  the number of commands added and not taken off whenever no call that has written
  the first key holds an outdated copy of the second; `AddsBefore` excludes that a
  mark is counted before the command it takes off.
* **Ends.** `SavedWasStarted`: an execution that was not started has no status, no
  state and no commands, and what an operator's call is going to save was started;
  so a late save meets a status that is not `"absent"`.
* **Frames.** `OneLock`: a row is locked by one claim, and `ChosenRightly`: the
  locked row is new, expired, or minted for the rows of the slot itself and not
  ended, and stays so while it is locked.
* **Recovery.** `FreshWorkerOwnsLease`, with the age of the lease bounded by the
  time since it was given; `OverrunsSeen` (an overrun is in the history),
  `ReplacedThenEnded` (without an overrun, as many replacements of an execution as
  are in `unrecorded`, or one more: then it is ended, or about to be cancelled by
  the instance that replaced it) and `RestartedFirst` (whoever is about to restart
  one finds all its replacements in `unrecorded`).
* **Mirror.** `HeldRows` and `AtItsRow` tie a drainer's rows to `IN_FLIGHT`;
  `MarksPublished`: whoever is about to mark has put a message in the stream;
  `SavedIsShown`: the records already saved for a delivery are at least as new.
* **Gate.** `Balanced` (the counter is the number of requests that hold a slot, and
  fits the maximum) and `ReleasedRight` (an attempt that holds a slot has not given
  it back, an answered one has), on which "release unless done" relies.

* **Suites.** A step of a suite is a step of one part and a stutter of the others,
  so the theorems about each part hold of the suite.

Only model-checked: everything with liveness (`EventuallySettled` and the
properties of `parts_live`), which is out of the prover's reach together with
`ENABLED` and induction over data. The hypotheses of
the theorems on loops stand for counterexamples that TLC finds, except in one case:

* with the default tail repair, `IndexOnce`, `Backpressure` and `KeepsPromise` fail
  with two iterations in flight and no failure at all;
* with failing K/V requests and no tail repair, `IndexOnce` fails if `/execute`
  entered the loop, `Backpressure` and `KeepsPromise` with two iterations in
  flight. The exception: with one in flight, in a loop that `/execute` did not
  enter, TLC finds no counterexample to `KeepsPromise`, and no theorem says so;
* `KeepsPromise` fails with a limit above two (section 6).

For commands that are reported both done and failed (`DoubleReports`), `FinishedQuiet` and
`EndsOnceAndTruly` fail; for `OneCommandPerStep` TLC found no counterexample in
the part of the state space that it reached, and the theorem does not cover it.

## 6. Findings

Each is a run that TLC ends with a counterexample to a sentence of the
repository; `PROJECT.json` quotes the sentences.

* `lifecycle_downgrade`: a claim whose handler read the row before another
  process settled it sets the status from COMPLETED back to CLAIMED: the UPDATE
  in `claim_command` has no condition on the status, and the decision precedes
  the lock.
* `loop_early_done`: the reconciliation counts terminal command rows, among them
  iterations whose `call.done` is accepted but not processed. Their passes
  increment the counter again, the sum reaches the size of the collection early,
  and `loop.done` is routed while an iteration is running. Three iterations in
  flight are enough, or two if the tail repair has its default threshold, and
  nothing has to fail. With at most two and the repair off it cannot happen
  (`LoopKeepsPromise`).
* `batch_ack`: the acceptance of a batch is committed before its job is queued.
  After a queue time-out (503) the retry finds the key and is answered 202; the
  events of the batch never reach the engine.
* `workflow_first_step`: an execution whose entry step is its terminal step never
  ends through the batch endpoint: the supervisor still counts the entry command,
  or, without K/V, the fallback query names columns that do not exist.
* `mirror_stranded`: outbox rows claimed by a drainer that dies, or whose
  `mark_outbox_failed` raises, stay IN_FLIGHT and are never claimed again.

Further facts about the models that no run states:

* For the reason of `lifecycle_downgrade`, two handlers that both read PENDING
  succeed one after the other, and both workers execute the command. A repeated
  claim by the owner is answered with the command, so two notifications handled at
  the same time by one worker are both executed.
* The tail repair (`events.py:1115`) starts at `scheduled_count`: with at most 64
  items left it takes indexes that nobody has claimed yet for lost ones. The first
  `call.done` of a sequential loop issues all the others at once. `Backpressure`
  is false with `RepairThreshold = 64`.
* A failing K/V request can break the routing with two iterations in flight, and
  `IndexOnce` with one if `/execute` entered the loop; a lost flush can lead to a
  second routing of `loop.done` with three in flight. After a lost command a
  loop usually stops for ever: the watchdog replays only indexes at or above
  `completed_count` that the supervisor has seen.
* An execution of which a command is given up before it was executed never ends:
  `command.failed` does not take the step of its command out of flight, the pass
  over it finds that step pending (`executor/events.py:2673`), and no other report
  of the command follows. Without the exception `GivenUp`, `EventuallyFinished` is
  false with `FailedPosts = TRUE`. A state rebuilt from the log would not have the
  step in flight: there `command.failed` completes it (`store.py:530`).
* A replacement whose commands could not be inserted stays behind as an execution
  that was started and has nothing to do, next to the old one (`auto_resume.py:472`);
  the next recovery starts another.

## 7. What is left out

* Lifecycle: `command.cancelled` (no code emits it), 404 and other unusual
  replies to a claim, two concurrent posts of one report by the worker's HTTP
  retries, contents of commands and results.
* Loops: the parallel implementation for steps without a task sequence
  (`step.exit` loops), iterations that end with `call.error`, epochs that are not
  pinned or restarted, expiry of K/V entries, failing K/V *reads* other than those
  of `Count`, a failing look-up of `loop.done` in the log.
* Workflow, passes over `step.exit`: the worker posts its events one by one only when
  `/events/batch` answers 404 (`nats_worker.py:3503`), which the server of this
  repository never does. There a `step.exit` with status FAILED ends the execution
  without a look at pending commands (`executor/events.py:2691`), so `FinishedQuiet`
  and `EndIsQuiet` say nothing of workers that talk to such a server. The batches of
  case actions (`nats_worker.py:2342`) end in an actionable `step.exit`, with status
  COMPLETED or CASE_HANDLED, and are left out with them, as is the fallback of a
  `step.exit` to the structural `next` (`executor/events.py:2220`).
* Workflow: immediate and deferred actions of a task, step sets, dispatch of
  cursor loops, retries of steps.
* Mirror: the fold itself, snapshots, several shards; `deliver_policy="new"` of the
  projector's consumer and the stream's `max_age` (a message sent before the consumer
  exists, or older than a day, is not delivered); rows are named by the version of
  their event instead of `outbox_id`, one to one. Leases: those of sweeper and
  reaper, which renew at each round and do idempotent work.
* Without a module: replay of executions (a fold over large data), the playbook
  language (parser, models, planner: sequential translation), task sequences and
  tools, retry and pagination (sequential, mostly rendering of data), result and
  payload storage, credentials and authentication, catalogue, dashboard and MCP
  endpoints (input and output over tables that executions in flight do not share),
  the CP-SAT wrapper (unused by the engine). They make up most of the repository's
  lines, and the models therefore stand for a small share of it: the part in which
  processes interact.

## 8. Plan

Done: the components of section 3, their runs, and theorems for all safety
properties of the passing runs.

What would come next, in order of value:

1. Loops that are not task sequences, and `call.error` iterations, as further
   actions of `LoopCoordination`.
2. A composition of `WorkflowEngine` with `LoopCoordination`: a loop step
   as one of the steps in flight, whose completion check asks K/V.
3. Task sequences: retry, jump and break with their limits, as one sequential
   algorithm against a reference definition.
4. A bound on the number of commands of a whole loop in flight with the tail
   repair on (`RepeatsLimited` bounds those of one index), and `KeepsPromise` for
   one iteration in flight and failing K/V requests.

-------------------------- MODULE LoopCoordination --------------------------
(***************************************************************************)
(* One run (epoch) of a loop step over a collection: the engine claims     *)
(* indexes in NATS K/V, the server issues one command per claimed index,   *)
(* workers execute them, their call.done events are accepted in batches,   *)
(* and one engine pass per call.done counts the iteration, repairs, claims *)
(* more indexes or routes loop.done.                                       *)
(*                                                                         *)
(* Engine passes of an execution exclude one another (an advisory lock and *)
(* FOR UPDATE), but the acceptance of events and the issue of commands are *)
(* transactions of their own, and the K/V writes of a pass survive when    *)
(* its transaction does not.  Commands of the same index are counted, not  *)
(* named.                                                                  *)
(***************************************************************************)
EXTENDS LoopKV, FiniteSets

CONSTANTS
    RepairThreshold,  \* _TASKSEQ_LOOP_REPAIR_THRESHOLD
    FirstStep,        \* the loop is entered by /execute, which supervises commands
    FaultKinds,       \* failures that may happen, see AnyFault
    MaxFaults         \* bound: failures in a behaviour

AnyFault == {"kv",      \* a K/V request fails, applied or not
             "render",  \* the creation of continuation commands raises
             "flush",   \* the final save_state fails and is only logged
             "crash"}   \* a pass or the issue of its commands dies

ASSUME CoordinationAssumption ==
    /\ RepairThreshold \in Nat /\ MaxFaults \in Nat
    /\ FirstStep \in BOOLEAN
    /\ FaultKinds \subseteq AnyFault

VARIABLES
    kv,        \* NATS K/V: the counters of the epoch
    item,      \* NATS K/V: loop-item:step:epoch:index
    unissued,  \* per index: commands of finished passes, not yet inserted
    live,      \* per index: command rows PENDING, CLAIMED or RUNNING
    finished,  \* per index: command rows that are terminal
    calls,     \* per index: accepted call.done events waiting for their pass
    state,     \* execution.state: what is committed of the loop
    logged,    \* loop.done events in noetl.event
    routed,    \* times the loop.done transitions were taken
    pass,      \* the engine pass that holds the lock
    faults

commands == <<unissued, live, finished, calls>>
vars == <<kv, item, unissued, live, finished, calls, state, logged, routed,
          pass, faults>>

Pass == [pc : {"idle", "record", "count", "repair", "route", "continue",
               "refill", "commit"},
         idx : Idx, claim : {"won", "lost", "unknown"}, count : Nat \cup {-1},
         out : [Idx -> Nat],       \* commands the pass will return
         budget : 0 .. MaxInFlight, \* refills left
         progressed : BOOLEAN,      \* last_progress_at was set by this pass
         replayed : BOOLEAN,        \* last_watchdog_repair_at likewise
         results : Nat, repaired : SUBSET Idx,
         finalize : BOOLEAN, route : BOOLEAN]

Zero   == [i \in Idx |-> 0]
NoPass == [pc |-> "idle", idx |-> 0, claim |-> "unknown", count |-> -1,
           out |-> Zero, budget |-> 0, progressed |-> FALSE,
           replayed |-> FALSE, results |-> 0, repaired |-> {},
           finalize |-> FALSE, route |-> FALSE]

Init ==
    /\ kv = Fresh
    /\ item = [i \in Idx |-> "none"]
    /\ unissued = Zero /\ live = Zero /\ finished = Zero /\ calls = Zero
    /\ state = [entered |-> FALSE, finalized |-> FALSE,
                results |-> 0, repaired |-> {}]
    /\ logged = 0 /\ routed = 0
    /\ pass = NoPass
    /\ faults = 0

Fault(kind) == /\ kind \in FaultKinds
               /\ faults < MaxFaults /\ faults' = faults + 1

\* Counts f, one more for every index of I.
PlusOne(f, I) == [i \in Idx |-> IF i \in I THEN f[i] + 1 ELSE f[i]]

Terminals == {i \in Idx : item[i] = "terminal"}
Issued    == {i \in Idx : item[i] = "issued"}

-----------------------------------------------------------------------------
\* Commands outside the engine.

\* _issue_loop_commands on a fresh dispatch: a new epoch, the first claim.
Enter ==
    /\ ~state.entered
    /\ state' = [state EXCEPT !.entered = TRUE]
    /\ kv' = Claim(Fresh, Slots(Fresh))
    /\ unissued' = PlusOne(Zero, 0 .. Slots(Fresh) - 1)
    /\ UNCHANGED <<item, live, finished, calls, logged, routed, pass, faults>>

\* _issue_commands_for_batch; /execute also tells the supervisor, best effort.
Issue(i) ==
    /\ unissued[i] > 0
    /\ unissued' = [unissued EXCEPT ![i] = @ - 1]
    /\ live' = [live EXCEPT ![i] = @ + 1]
    /\ \/ UNCHANGED item
       \/ /\ FirstStep /\ i < Slots(Fresh) /\ item[i] = "none"
          /\ item' = [item EXCEPT ![i] = "issued"]
    /\ UNCHANGED <<kv, finished, calls, state, logged, routed, pass, faults>>

\* The server dies after the engine's commit and before its commands are
\* inserted, or between two chunks of them.
LoseIssue ==
    \E I \in SUBSET {i \in Idx : unissued[i] > 0} :
        /\ I # {} /\ Fault("crash")
        /\ unissued' = [i \in Idx |-> IF i \in I THEN 0 ELSE unissued[i]]
        /\ UNCHANGED <<kv, item, live, finished, calls, state, logged, routed, pass>>

\* Mutant: no idempotency key, a retried report is accepted again.
FinishAgain(i) ==
    /\ live' = [live EXCEPT ![i] = @ - 1]
    /\ finished' = [finished EXCEPT ![i] = @ + 1]
    /\ calls' = [calls EXCEPT ![i] = @ + 1]
    /\ UNCHANGED <<kv, item, unissued, state, logged, routed, pass, faults>>

\* _persist_batch_acceptance: row and event are committed before any pass.
Finish(i) ==
    /\ live[i] > 0
    /\ live' = [live EXCEPT ![i] = @ - 1]
    /\ finished' = [finished EXCEPT ![i] = @ + 1]
    /\ calls' = [calls EXCEPT ![i] = @ + 1]
    /\ UNCHANGED <<kv, item, unissued, state, logged, routed, pass, faults>>

-----------------------------------------------------------------------------
\* An engine pass for one call.done.

\* handle_event: the loop of a finalized state is left alone.
Begin(i) ==
    /\ pass.pc = "idle" /\ calls[i] > 0
    /\ calls' = [calls EXCEPT ![i] = @ - 1]
    /\ pass' = IF state.finalized THEN NoPass
               ELSE [NoPass EXCEPT !.pc = "record", !.idx = i,
                                   !.results = state.results,
                                   !.repaired = state.repaired]
    /\ UNCHANGED <<kv, item, unissued, live, finished, state, logged, routed, faults>>

\* Mutant: whoever reports an iteration counts it.
RecordAlways ==
    /\ pass.pc = "record"
    /\ item' = [item EXCEPT ![pass.idx] = "terminal"]
    /\ pass' = [pass EXCEPT !.pc = "count", !.claim = "won", !.results = @ + 1]
    /\ UNCHANGED <<kv, commands, state, logged, routed, faults>>

\* try_record_loop_iteration_terminal, and add_loop_result for the winner.
Record ==
    /\ pass.pc = "record"
    /\ \/ /\ item[pass.idx] # "terminal"
          /\ item' = [item EXCEPT ![pass.idx] = "terminal"]
          /\ pass' = [pass EXCEPT !.pc = "count", !.claim = "won", !.results = @ + 1]
          /\ UNCHANGED faults
       \/ /\ item[pass.idx] = "terminal"
          /\ pass' = [pass EXCEPT !.pc = "count", !.claim = "lost"]
          /\ UNCHANGED <<item, faults>>
       \/ /\ Fault("kv")
          /\ item' \in {item, [item EXCEPT ![pass.idx] = "terminal"]}
          /\ pass' = [pass EXCEPT !.pc = "count", !.claim = "unknown"]
    /\ UNCHANGED <<kv, commands, state, logged, routed>>

\* The completed count the pass goes on with: from increment_loop_completed for
\* the winner, from get_loop_state for a duplicate, none for a stale epoch.
Count ==
    /\ pass.pc = "count"
    /\ \/ /\ pass.claim = "won"
          /\ kv' = Increment(kv)
          /\ pass' = [pass EXCEPT !.pc = "repair", !.progressed = TRUE,
                                  !.count = kv.completed + 1]
          /\ UNCHANGED faults
       \/ /\ pass.claim = "won" /\ Fault("kv")
          /\ kv' \in {kv, Increment(kv)}
          /\ pass' = [pass EXCEPT !.pc = "repair", !.progressed = (kv' # kv)]
       \/ /\ pass.claim = "lost"
          /\ pass' = [pass EXCEPT !.pc = "repair", !.count = kv.completed]
          /\ UNCHANGED <<kv, faults>>
       \/ /\ pass.claim = "lost" /\ Fault("kv")
          /\ pass' = [pass EXCEPT !.pc = "repair", !.count = 0]
          /\ UNCHANGED kv
       \/ /\ pass.claim = "unknown"
          /\ pass' = [pass EXCEPT !.pc = "repair"]
          /\ UNCHANGED <<kv, faults>>
    /\ UNCHANGED <<item, commands, state, logged, routed>>

\* Indexes the tail repair reissues: those not scheduled yet, when little is
\* left.  Its other source, PENDING rows by iter_index, never has any: the
\* column is filled from metadata keys the loop does not write.
TailMissing ==
    LET sent      == Larger(kv.scheduled, pass.count)
        remaining == Size - pass.count
    IN  IF remaining \in 1 .. RepairThreshold /\ Size - sent <= RepairThreshold
        THEN (sent .. Size - 1) \ pass.repaired ELSE {}

\* Mutant: off by one, all iterations done is not enough.
RepairOffByOne ==
    /\ pass.pc = "repair"
    /\ pass' = [pass EXCEPT !.pc = IF pass.count > Size THEN "route" ELSE "continue",
                            !.out = PlusOne(@, TailMissing),
                            !.repaired = @ \cup TailMissing]
    /\ UNCHANGED <<kv, item, commands, state, logged, routed, faults>>

\* Mutant: scheduled is taken for completed.
RepairCountsScheduled ==
    /\ pass.pc = "repair"
    /\ pass' = [pass EXCEPT !.pc = IF kv.scheduled >= Size THEN "route" ELSE "continue",
                            !.out = PlusOne(@, TailMissing),
                            !.repaired = @ \cup TailMissing]
    /\ UNCHANGED <<kv, item, commands, state, logged, routed, faults>>

\* The tail repair, then the choice between loop.done and more commands.
Repair ==
    /\ pass.pc = "repair"
    /\ pass' = [pass EXCEPT !.pc = IF pass.count >= Size THEN "route" ELSE "continue",
                            !.out = PlusOne(@, TailMissing),
                            !.repaired = @ \cup TailMissing]
    /\ UNCHANGED <<kv, item, commands, state, logged, routed, faults>>

\* Mutant: the loser of the claim trusts the winner.
TrustClaim == FALSE

\* The claim of loop.done is lost: somebody else routes, unless the log has no
\* loop.done of this epoch.
RecoverRoute == logged = 0

\* try_claim_loop_done: the step is finalized either way.
Route ==
    /\ pass.pc = "route"
    /\ \/ /\ ~kv.doneClaimed
          /\ kv' = ClaimDone(kv)
          /\ pass' = [pass EXCEPT !.pc = "commit", !.finalize = TRUE, !.route = TRUE]
          /\ UNCHANGED faults
       \/ /\ kv.doneClaimed
          /\ pass' = [pass EXCEPT !.pc = "commit", !.finalize = TRUE,
                                  !.route = RecoverRoute]
          /\ UNCHANGED <<kv, faults>>
       \/ /\ Fault("kv")
          /\ kv' \in {kv, ClaimDone(kv)}
          /\ pass' = [pass EXCEPT !.pc = "commit", !.finalize = TRUE,
                                  !.route = RecoverRoute]
    /\ UNCHANGED <<item, commands, state, logged, routed>>

\* _issue_loop_commands on a continuation: one batch claim, one command per
\* claimed index.  Without a claim, up to MaxInFlight single attempts follow.
Continue ==
    /\ pass.pc = "continue"
    /\ LET n == Slots(kv)
           claimed == kv.scheduled .. kv.scheduled + n - 1
       IN  \/ /\ n > 0
              /\ kv' = Claim(kv, n)
              /\ pass' = [pass EXCEPT !.pc = "commit", !.out = PlusOne(@, claimed)]
              /\ UNCHANGED faults
           \/ /\ n > 0 /\ Fault("render")  \* the claims stay
              /\ kv' = Claim(kv, n)
              /\ pass' = [pass EXCEPT !.pc = "commit"]
           \/ /\ n = 0
              /\ pass' = [pass EXCEPT !.pc = "refill", !.budget = MaxInFlight]
              /\ UNCHANGED <<kv, faults>>
           \/ /\ Fault("kv")
              /\ kv' \in {kv, Claim(kv, n)}
              /\ pass' = [pass EXCEPT !.pc = "refill", !.budget = MaxInFlight]
    /\ UNCHANGED <<item, commands, state, logged, routed>>

\* The pass with one more command, for index i.
With(i) == [pass EXCEPT !.pc = IF pass.budget = 1 THEN "commit" ELSE "refill",
                        !.budget = @ - 1, !.out = PlusOne(@, {i})]

\* claim_next_loop_index on the counters k.
ClaimOne(k) == /\ kv' = Claim(k, 1)
               /\ pass' = [With(k.scheduled) EXCEPT !.progressed = TRUE]

\* _create_command_for_step, when an index can be claimed.
Refill ==
    /\ pass.pc = "refill" /\ Slots(kv) > 0
    /\ ClaimOne(kv)
    /\ UNCHANGED <<item, commands, state, logged, routed, faults>>

\* completed_count as the pass knows it: a zero counter falls back to the
\* results in the execution state.
Known(k) == IF k.completed = 0 THEN pass.results ELSE k.completed

\* Nothing can be claimed though the loop is not complete.
Parked(k) ==
    /\ Known(k) < Size
    /\ k.scheduled >= Size \/ k.scheduled - Known(k) >= MaxInFlight

\* Raise completed_count to the n terminals found elsewhere, if that is more.
Advance(k, n) ==
    IF Smaller(n, Size) > Known(k)
    THEN [SetLoopState(k, Smaller(n, Size), k.scheduled) EXCEPT !.reconciled = TRUE]
    ELSE k

\* _count_loop_terminal_iterations: terminal rows, not indexes.
TerminalRows == Cardinality(UNION {{i} \X (1 .. finished[i]) : i \in Idx})

\* The counters after the fast reconciliation: first from the supervisor's
\* items, then, at most once per cooldown and if the supervisor has no item
\* waiting for longer than the minimum age, from the terminal command rows.
Reconciled(fromRows) ==
    LET a == Advance(kv, Cardinality(Terminals))
    IN  IF Slots(a) = 0 /\ fromRows THEN Advance(a, TerminalRows) ELSE a

\* Both waits are unobserved: whenever they matter, they may have elapsed or not.
MayReadRows == IF kv.reconciled \/ Issued # {} THEN BOOLEAN ELSE {TRUE}

\* The supervisor's items that the watchdog may replay: the lowest of the
\* RepairThreshold (at least one) oldest indexes seen as issued only.
Orphans(k) ==
    {i \in Issued : /\ Cardinality({j \in Issued : j < i}) < Larger(1, RepairThreshold)
                    /\ i >= Known(k) /\ i \notin pass.repaired}

\* The stall watchdog, once a pass that saw no progress of its own.
Replay(k) ==
    /\ Parked(k) /\ k = kv /\ ~pass.progressed /\ ~pass.replayed
    /\ \E i \in Orphans(k) :
          /\ \A j \in Orphans(k) : i <= j
          /\ pass' = [With(i) EXCEPT !.replayed = TRUE,
                                     !.repaired = @ \cup {i}]
    /\ kv' = k

\* No command: _issue_loop_commands stops.
NoneLeft(k) == /\ Slots(k) = 0
               /\ kv' = k
               /\ pass' = [pass EXCEPT !.pc = "commit"]

\* _create_command_for_step, when the counters leave nothing to claim.
Reconcile ==
    /\ pass.pc = "refill" /\ Slots(kv) = 0
    /\ \/ ~Parked(kv) /\ NoneLeft(kv)
       \/ /\ Parked(kv)
          /\ \E fromRows \in MayReadRows :
                LET k == Reconciled(fromRows)
                IN  \/ Slots(k) > 0 /\ ClaimOne(k)
                    \/ Slots(k) = 0 /\ (Replay(k) \/ NoneLeft(k))
    /\ UNCHANGED <<item, commands, state, logged, routed, faults>>

\* The transaction commits; the commands of the pass are inserted later, in
\* another one.  A failed flush of the state is logged and the commands are
\* returned all the same, whether or not the rest of the transaction survives.
Commit ==
    /\ pass.pc = "commit"
    /\ LET routes == IF pass.route THEN 1 ELSE 0
       IN  /\ routed' = routed + routes
           /\ \/ /\ state' = [state EXCEPT !.finalized = pass.finalize,
                                           !.results = pass.results,
                                           !.repaired = pass.repaired]
                 /\ logged' = logged + routes
                 /\ UNCHANGED faults
              \/ /\ Fault("flush")
                 /\ logged' \in {logged, logged + routes}
                 /\ UNCHANGED state
    /\ unissued' = [i \in Idx |-> unissued[i] + pass.out[i]]
    /\ pass' = NoPass
    /\ UNCHANGED <<kv, item, live, finished, calls>>

\* The pass dies or times out: batch.failed, never retried.  Its transaction
\* rolls back, its K/V writes stay.
Crash ==
    /\ pass.pc # "idle" /\ Fault("crash")
    /\ pass' = NoPass
    /\ UNCHANGED <<kv, item, commands, state, logged, routed>>

-----------------------------------------------------------------------------
PassStep == Record \/ Count \/ Repair \/ Route \/ Continue \/ Refill
            \/ Reconcile \/ Commit

Next ==
    \/ Enter \/ LoseIssue \/ Crash \/ PassStep
    \/ \E i \in Idx : Issue(i) \/ Finish(i) \/ Begin(i)

Spec == Init /\ [][Next]_vars

\* Commands are inserted and executed, accepted events are processed, and a
\* pass runs to its end.
Fairness ==
    /\ WF_vars(Enter) /\ WF_vars(PassStep)
    /\ WF_vars(\E i \in Idx : Begin(i))
    /\ \A i \in Idx : WF_vars(Issue(i)) /\ WF_vars(Finish(i))

FairSpec == Spec /\ Fairness

-----------------------------------------------------------------------------
\* Every variable keeps its type: no pass leaves its budget, no command or event
\* is taken that is not there.
TypeOK ==
    /\ kv \in Counters
    /\ item \in [Idx -> {"none", "issued", "terminal"}]
    /\ {unissued, live, finished, calls} \subseteq [Idx -> Nat]
    /\ state \in [entered : BOOLEAN, finalized : BOOLEAN,
                   results : Nat, repaired : SUBSET Idx]
    /\ {logged, routed} \subseteq Nat
    /\ pass \in Pass
    /\ faults \in 0 .. MaxFaults

Executed == {i \in Idx : finished[i] > 0}

\* The loop keeps its promise: loop.done is routed one time, and only when every
\* item has been executed.
Promise == INSTANCE LoopPromise WITH Items <- Idx, executed <- Executed,
                                     routed <- routed
KeepsPromise == Promise!Spec

\* The transitions of loop.done are taken only when every item was executed:
\* "loop.done: When loop completes" (models/events.py).
RoutedWhenExecuted == routed > 0 => Executed = Idx

\* The commands of the loop that are issued and not finished, or about to be
\* issued, by index and number.
CommandsInFlight == UNION {{i} \X (1 .. unissued[i] + live[i]) : i \in Idx}

\* No more than MaxInFlight commands of the loop are issued or about to be:
\* "sequential: one iteration at a time", "parallel: up to max_in_flight
\* concurrent iterations" (models/workflow.py).
Backpressure == Cardinality(CommandsInFlight) <= MaxInFlight

\* No index is given to a second command.
IndexOnce == \A i \in Idx : unissued[i] + live[i] + finished[i] <= 1

\* Whatever claims, counts, repairs or reconciles, and whatever fails, the record
\* never admits more than MaxInFlight iterations at a time nor an index that the
\* collection does not have.
CountersBounded ==
    /\ kv.completed <= kv.scheduled
    /\ InFlight(kv) <= MaxInFlight
    /\ kv.scheduled <= Larger(Size, kv.completed)

\* Every result in the execution state was recorded for an index of its own,
\* whose command is finished.
ResultsBacked == /\ state.results <= Cardinality(Terminals)
                 /\ Terminals \subseteq Executed

\* A finalized step, which ignores all further call.done events, was routed:
\* a lost claim or a dead winner does not end the playbook silently.
FinalizedIsRouted == state.finalized => routed > 0

\* The epoch's counters never go back and a claimed loop.done stays claimed,
\* whatever writes the record: claims, increments, or a reconciliation.
CountersGrow ==
    [][/\ kv'.completed >= kv.completed /\ kv'.scheduled >= kv.scheduled
       /\ kv.doneClaimed => kv'.doneClaimed]_kv

\* An entered loop is routed in the end, and every item of it executed.
EventuallyComplete == state.entered ~> (routed > 0 /\ Executed = Idx)
=============================================================================

------------------------------- MODULE LoopKV -------------------------------
(***************************************************************************)
(* The distributed counters of one loop epoch: the record that             *)
(* noetl/core/cache/nats_kv.py keeps in NATS K/V under "loop:step:epoch".   *)
(* Every method reads the record and writes it back with its revision,     *)
(* retrying when another writer came first: one step on the record.        *)
(***************************************************************************)
EXTENDS Integers

CONSTANTS
    Size,         \* collection_size: items of the loop
    MaxInFlight   \* loop.spec.max_in_flight; 1 for a sequential loop

ASSUME LoopAssumption == Size \in Nat \ {0} /\ MaxInFlight \in Nat \ {0}

Idx == 0 .. Size - 1

Larger(a, b)  == IF a >= b THEN a ELSE b
Smaller(a, b) == IF a <= b THEN a ELSE b

\* reconciled: last_counter_reconcile_at is set.
Counters == [completed : Nat, scheduled : Nat,
             doneClaimed : BOOLEAN, reconciled : BOOLEAN]

\* The record a claim creates when the key is missing.
Fresh == [completed |-> 0, scheduled |-> 0,
          doneClaimed |-> FALSE, reconciled |-> FALSE]

InFlight(kv) == Larger(0, kv.scheduled - kv.completed)

\* Mutant: the claim looks at the collection only.
SlotsWithoutBackpressure(kv) == Larger(0, Size - kv.scheduled)

\* claim_next_loop_indices: how many indexes may be claimed now.
Slots(kv) == Larger(0, Smaller(MaxInFlight - InFlight(kv), Size - kv.scheduled))

\* Mutant: off by one, the last claimed index is offered again.
ClaimOneLess(kv, n) == [kv EXCEPT !.scheduled = @ + n - 1]

\* The claim of the next n indexes, from kv.scheduled on.
Claim(kv, n) == [kv EXCEPT !.scheduled = @ + n]

\* Mutant: the raise of scheduled_count overwrites it.
IncrementOverwrites(kv) ==
    [kv EXCEPT !.completed = @ + 1, !.scheduled = kv.completed + 1]

\* increment_loop_completed: no cap at the size of the collection.
Increment(kv) ==
    [kv EXCEPT !.completed = @ + 1, !.scheduled = Larger(@, kv.completed + 1)]

\* set_loop_state: counts only grow, up to the size of the collection.
SetLoopState(kv, completed, scheduled) ==
    LET done == Smaller(Size, Larger(kv.completed, completed))
        sent == Smaller(Size, Larger(kv.scheduled, Larger(scheduled, completed)))
    IN  [kv EXCEPT !.completed = done, !.scheduled = Larger(sent, done)]

\* try_claim_loop_done.
ClaimDone(kv) == [kv EXCEPT !.doneClaimed = TRUE]
=============================================================================

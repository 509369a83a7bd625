---------------------------- MODULE LoopPromise ----------------------------
(***************************************************************************)
(* What a loop step promises the rest of the playbook: its items are       *)
(* executed, and once all of them are, the step's outgoing transitions are *)
(* taken, one time.                                                        *)
(***************************************************************************)
EXTENDS Naturals

CONSTANT Items

VARIABLES
    executed,  \* items with a finished command
    routed     \* times the loop.done transitions were taken

Init == executed = {} /\ routed = 0

Execute ==
    \E i \in Items \ executed : executed' = executed \cup {i} /\ UNCHANGED routed

Route ==
    executed = Items /\ routed = 0 /\ routed' = 1 /\ UNCHANGED executed

Spec == Init /\ [][Execute \/ Route]_<<executed, routed>>
=============================================================================

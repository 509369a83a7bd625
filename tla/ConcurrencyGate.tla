-------------------------- MODULE ConcurrencyGate --------------------------
(***************************************************************************)
(* The gate of one worker process in front of the server: claims, batches  *)
(* of events and single events pass through AdaptiveConcurrencyController. *)
(* Every attempt of a request takes a slot and gives it back on one of     *)
(* many paths: an answer, an overload, an error, a cancellation, an error  *)
(* raised after the slot was given back.                                   *)
(*                                                                         *)
(* The limit is a number of tenths (the code's float is rounded down after *)
(* a decrease).  Back-off is a flag; its length is left out.               *)
(***************************************************************************)
EXTENDS Naturals, FiniteSets

CONSTANTS Requests,    \* calls of _claim_command, _emit_batch_events, _emit_event
          RetriesAnswer, \* those that retry after an error past the release (claims)
          MinLimit, MaxLimit, \* in tenths
          MaxTries     \* attempts of one request

ASSUME GateAssumption ==
    /\ IsFiniteSet(Requests)
    /\ RetriesAnswer \subseteq Requests
    /\ MinLimit \in Nat /\ MaxLimit \in Nat /\ MaxTries \in Nat \ {0}
    /\ 10 <= MinLimit /\ MinLimit <= MaxLimit

VARIABLES limit,    \* _limit
          active,   \* _active
          backoff,  \* whether _backoff_until is ahead
          at,       \* where a request is
          tries,    \* attempts it has begun
          released  \* _released of its attempt

gateVars == <<limit, active, backoff, at, tries, released>>

GateTypeOK ==
    /\ limit \in MinLimit..MaxLimit
    /\ active \in 0..Cardinality(Requests)
    /\ backoff \in BOOLEAN
    /\ at \in [Requests -> {"waiting", "sent", "answered", "pausing", "out"}]
    /\ tries \in [Requests -> 1..MaxTries]
    /\ released \in [Requests -> BOOLEAN]

AtLeast(m, n) == IF n < m THEN m ELSE n
AtMost(m, n) == IF n > m THEN m ELSE n

GateInit ==
    /\ limit = AtLeast(MinLimit, MaxLimit \div 2)
    /\ active = 0 /\ backoff = FALSE
    /\ at = [r \in Requests |-> "waiting"]
    /\ tries = [r \in Requests |-> 1]
    /\ released = [r \in Requests |-> FALSE]

-----------------------------------------------------------------------------
Acquire(r) ==
    /\ at[r] = "waiting" /\ ~backoff /\ active < limit \div 10
    /\ active' = active + 1
    /\ at' = [at EXCEPT ![r] = "sent"]
    /\ released' = [released EXCEPT ![r] = FALSE]
    /\ UNCHANGED <<limit, backoff, tries>>

BackoffEnds ==
    /\ backoff /\ backoff' = FALSE
    /\ UNCHANGED <<limit, active, at, tries, released>>

GiveSlotBack == active' = IF active = 0 THEN 0 ELSE active - 1

\* The next attempt, at once or after a pause, or the end of the request.
TryAgain(r, next) ==
    IF tries[r] < MaxTries
    THEN at' = [at EXCEPT ![r] = next] /\ tries' = [tries EXCEPT ![r] = @ + 1]
    ELSE at' = [at EXCEPT ![r] = "out"] /\ UNCHANGED tries

\* release_success: an answer that is no overload.
Succeed(r) ==
    /\ at[r] = "sent"
    /\ GiveSlotBack
    /\ limit' = AtMost(MaxLimit, limit + 1)
    /\ at' = [at EXCEPT ![r] = "answered"]
    /\ released' = [released EXCEPT ![r] = TRUE]
    /\ UNCHANGED <<backoff, tries>>

\* release_overload: the server's pool is saturated.
Overload(r) ==
    /\ at[r] = "sent"
    /\ GiveSlotBack
    /\ limit' = AtLeast(MinLimit, limit \div 2)
    /\ backoff' = TRUE
    /\ released' = [released EXCEPT ![r] = TRUE]
    /\ TryAgain(r, IF r \in RetriesAnswer THEN "pausing" ELSE "waiting")

\* Mutant: the slot is given back without a look at _released.
ReleaseAgain(r) == GiveSlotBack

\* release_error, unless the slot was given back before.
ReleaseUnlessDone(r) == IF released[r] THEN UNCHANGED active ELSE GiveSlotBack

\* Mutant: an error does not give the slot back.
FailKeeping(r) ==
    /\ at[r] = "sent" \/ (at[r] = "answered" /\ r \in RetriesAnswer)
    /\ released' = [released EXCEPT ![r] = TRUE]
    /\ TryAgain(r, "pausing")
    /\ UNCHANGED <<limit, active, backoff>>

\* The call raised (a timeout, an error status), or what follows the answer of
\* a claim did (its body, the context it refers to): the request tries again.
Fail(r) ==
    /\ at[r] = "sent" \/ (at[r] = "answered" /\ r \in RetriesAnswer)
    /\ ReleaseUnlessDone(r)
    /\ released' = [released EXCEPT ![r] = TRUE]
    /\ TryAgain(r, "pausing")
    /\ UNCHANGED <<limit, backoff>>

\* A request that was answered leaves; so does a refused claim (404 and other
\* statuses) and, wherever it is, a cancelled task.
Leave(r) ==
    /\ \/ at[r] \in {"sent", "answered"} /\ ReleaseUnlessDone(r)
       \/ at[r] \in {"waiting", "pausing"} /\ UNCHANGED active
    /\ released' = [released EXCEPT ![r] = TRUE]
    /\ at' = [at EXCEPT ![r] = "out"]
    /\ UNCHANGED <<limit, backoff, tries>>

Pause(r) ==
    /\ at[r] = "pausing" /\ at' = [at EXCEPT ![r] = "waiting"]
    /\ UNCHANGED <<limit, active, backoff, tries, released>>

\* _probe_loop: the server's pool is under pressure, or has room again.
ProbePressure ==
    LET lower == AtLeast(MinLimit, (3 * limit) \div 4) IN
    /\ lower < limit
    /\ limit' = lower /\ backoff' = TRUE
    /\ UNCHANGED <<active, at, tries, released>>

ProbeHealthy ==
    /\ limit < MaxLimit
    /\ limit' = AtMost(MaxLimit, limit + 2)
    /\ UNCHANGED <<active, backoff, at, tries, released>>

GateNext ==
    \/ \E r \in Requests : \/ Acquire(r) \/ Succeed(r) \/ Overload(r)
                           \/ Fail(r) \/ Leave(r) \/ Pause(r)
    \/ BackoffEnds \/ ProbePressure \/ ProbeHealthy

GateSpec == GateInit /\ [][GateNext]_gateVars

(***************************************************************************)
(* Fairness.  A server answers or the call times out; back-off ends; a     *)
(* waiter looks again after a notification or a time-out of the condition, *)
(* at least once between the end of a back-off and the next probe, which   *)
(* are seconds apart (SF).                                                 *)
(***************************************************************************)
Sent(r) == at[r] \in {"sent", "answered"}

GateFairness ==
    /\ WF_gateVars(BackoffEnds)
    /\ \A r \in Requests :
        /\ SF_gateVars(Acquire(r)) /\ WF_gateVars(Pause(r))
        /\ WF_gateVars(Sent(r) /\ (Succeed(r) \/ Overload(r) \/ Fail(r) \/ Leave(r)))

GateFairSpec == GateSpec /\ GateFairness

-----------------------------------------------------------------------------
(* Properties                                                              *)

\* The counter of the gate is the number of requests that hold a slot: no path
\* gives one back twice or keeps it.  The code cannot see a slot given back
\* twice: its counter stops at zero (the claim, batch and event calls).
SlotsBalanced ==
    active = Cardinality({r \in Requests : at[r] = "sent"})

\* The requests under way never exceed the maximum, whatever happened before.
WithinMaximum == 10 * Cardinality({r \in Requests : at[r] = "sent"}) <= MaxLimit

\* Once the gate is in use every request ends: neither lost slots nor the limit
\* keep it out, although the probe may lower the limit and start a back-off again
\* and again.
EventuallyOut == \A r \in Requests : (active > 0 \/ backoff) ~> (at[r] = "out")
=============================================================================

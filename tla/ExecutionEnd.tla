---------------------------- MODULE ExecutionEnd ----------------------------
(***************************************************************************)
(* How executions end, and who may end them: the engine after the last     *)
(* step, an operator who cancels (with all child executions) or finalizes, *)
(* the cleanup of stuck executions.  The engine works under the lock of    *)
(* the execution; the others read the event log or the state, then write,  *)
(* with no lock in between.                                                *)
(*                                                                         *)
(* An execution is a row of commands, one after the other; a child is      *)
(* started by the command its parent is running.                           *)
(***************************************************************************)
EXTENDS Naturals, Sequences, FiniteSets

CONSTANTS Executions,
          ParentOf,    \* the parent of an execution, or NoParent
          NoParent,
          Callers,     \* requests of operators, one call each
          StepsEach    \* commands of an execution

ASSUME EndAssumption ==
    /\ NoParent \notin Executions
    /\ ParentOf \in [Executions -> Executions \cup {NoParent}]
    /\ StepsEach \in Nat \ {0}

VARIABLES
    latest,      \* kind of the execution's last event
    endings,     \* its terminal events, in the order of their ids
    engine,      \* completed and failed of the stored engine state
    status,      \* noetl.execution.status
    issuedSoFar, \* commands issued so far
    current,     \* where the last command is
    closing,     \* a batch.completed event is still to be written
    call         \* what an operator's request is about to write

endVars == <<latest, endings, engine, status, issuedSoFar, current, closing, call>>

TerminalEvents == {"completed", "failed", "cancelled"}
EventKinds == {"none", "work", "commandFailed"} \cup TerminalEvents
NotCalled == [kind |-> "none", targets |-> {}]
AnsweredCall == [kind |-> "answered", targets |-> {}]

EndTypeOK ==
    /\ latest \in [Executions -> EventKinds]
    /\ endings \in [Executions -> Seq(TerminalEvents)]
    /\ engine \in [Executions -> {"absent", "running", "completed", "failed"}]
    /\ status \in [Executions -> {"absent", "RUNNING", "COMPLETED", "FAILED"}]
    /\ issuedSoFar \in [Executions -> 0..StepsEach]
    /\ current \in [Executions -> {"none", "issued", "claimed", "refused", "done", "broken"}]
    /\ closing \in [Executions -> BOOLEAN]
    /\ call \in [Callers -> [kind : {"none", "cancel", "finalize", "save", "answered"},
                             targets : SUBSET Executions]]

EndInit ==
    /\ latest = [x \in Executions |-> "none"]
    /\ endings = [x \in Executions |-> <<>>]
    /\ engine = [x \in Executions |-> "absent"]
    /\ status = [x \in Executions |-> "absent"]
    /\ issuedSoFar = [x \in Executions |-> 0]
    /\ current = [x \in Executions |-> "none"]
    /\ closing = [x \in Executions |-> FALSE]
    /\ call = [c \in Callers |-> NotCalled]

Started(x) == engine[x] # "absent"

-----------------------------------------------------------------------------
(* The engine and the workers                                              *)

Start(x) ==
    /\ ~Started(x)
    /\ ParentOf[x] # NoParent => current[ParentOf[x]] = "claimed"
    /\ engine' = [engine EXCEPT ![x] = "running"]
    /\ status' = [status EXCEPT ![x] = "RUNNING"]
    /\ issuedSoFar' = [issuedSoFar EXCEPT ![x] = 1]
    /\ current' = [current EXCEPT ![x] = "issued"]
    /\ latest' = [latest EXCEPT ![x] = "work"]
    /\ UNCHANGED <<endings, closing, call>>

\* Mutant: a claim that does not look for a terminal event.
ClaimAnyway(x) ==
    /\ current[x] = "issued"
    /\ current' = [current EXCEPT ![x] = "claimed"]
    /\ latest' = [latest EXCEPT ![x] = "work"]
    /\ UNCHANGED <<endings, engine, status, issuedSoFar, closing, call>>

\* The insert of command.claimed holds only without a terminal event; a
\* refusal makes the worker acknowledge the notification.
ClaimCurrent(x) ==
    /\ current[x] = "issued"
    /\ \/ /\ endings[x] = <<>>
          /\ current' = [current EXCEPT ![x] = "claimed"]
          /\ latest' = [latest EXCEPT ![x] = "work"]
       \/ /\ endings[x] # <<>>
          /\ current' = [current EXCEPT ![x] = "refused"]
          /\ UNCHANGED latest
    /\ UNCHANGED <<endings, engine, status, issuedSoFar, closing, call>>

\* The worker never looks back: it reports whatever happened meanwhile.
Report(x) ==
    /\ current[x] = "claimed"
    /\ \/ current' = [current EXCEPT ![x] = "done"] /\ latest' = [latest EXCEPT ![x] = "work"]
       \/ /\ current' = [current EXCEPT ![x] = "broken"]
          /\ latest' = [latest EXCEPT ![x] = "commandFailed"]
    /\ UNCHANGED <<endings, engine, status, issuedSoFar, closing, call>>

Emit(x, kind) ==
    /\ endings' = [endings EXCEPT ![x] = Append(@, kind)]
    /\ latest' = [latest EXCEPT ![x] = kind]

\* Mutant: the row's status follows the state that was saved last.
SaveStateAlways(x, s) ==
    /\ engine' = [engine EXCEPT ![x] = s]
    /\ status' = [status EXCEPT ![x] = IF s = "failed" THEN "FAILED" ELSE "COMPLETED"]

\* save_state: the state is replaced, a status that is terminal stays.
SaveState(x, s) ==
    /\ engine' = [engine EXCEPT ![x] = s]
    /\ status' = [status EXCEPT ![x] = IF @ \in {"COMPLETED", "FAILED"} THEN @
                                       ELSE IF s = "failed" THEN "FAILED" ELSE "COMPLETED"]

\* Mutant: the engine goes on although its state is terminal.
PassesAlways(x) == TRUE

Passes(x) == engine[x] = "running"

\* One pass over a report, under the lock of the execution: the state it loads
\* is the stored one, which no cancellation touches.
PassOverReport(x) ==
    /\ current[x] \in {"done", "broken"}
    /\ closing' = [closing EXCEPT ![x] = TRUE]
    /\ \/ /\ ~Passes(x)
          /\ current' = [current EXCEPT ![x] = "none"]
          /\ UNCHANGED <<endings, latest, engine, status, issuedSoFar>>
       \/ /\ Passes(x) /\ current[x] = "done" /\ issuedSoFar[x] < StepsEach
          /\ current' = [current EXCEPT ![x] = "issued"]
          /\ issuedSoFar' = [issuedSoFar EXCEPT ![x] = @ + 1]
          /\ latest' = [latest EXCEPT ![x] = "work"]
          /\ UNCHANGED <<endings, engine, status>>
       \/ /\ Passes(x) /\ (current[x] = "broken" \/ issuedSoFar[x] = StepsEach)
          /\ LET s == IF current[x] = "broken" THEN "failed" ELSE "completed"
             IN  Emit(x, s) /\ SaveState(x, s)
          /\ current' = [current EXCEPT ![x] = "none"]
          /\ UNCHANGED issuedSoFar
    /\ UNCHANGED call

\* batch.completed is written after the engine's transaction.
CloseBatch(x) ==
    /\ closing[x]
    /\ closing' = [closing EXCEPT ![x] = FALSE]
    /\ latest' = [latest EXCEPT ![x] = "work"]
    /\ UNCHANGED <<endings, engine, status, issuedSoFar, current, call>>

-----------------------------------------------------------------------------
(* The operators                                                           *)

\* All executions below x: those in every set that is closed under children.
Below(x) ==
    {y \in Executions : \A S \in SUBSET Executions :
        (\A z \in Executions : ParentOf[z] \in S \cup {x} => z \in S) => y \in S}

\* What the cancel endpoint takes for an ended execution: its last event.
TakenAsEnded(x) == latest[x] \in TerminalEvents \cup {"commandFailed"}

Ask(c, kind, targets) ==
    /\ call[c] = NotCalled
    /\ call' = [call EXCEPT ![c] = IF targets = {} THEN AnsweredCall
                                   ELSE [kind |-> kind, targets |-> targets]]
    /\ UNCHANGED <<latest, endings, engine, status, issuedSoFar, current, closing>>

\* Cancel, with cascade: the execution and all that started below it.
AskCancel(c) ==
    \E x \in {y \in Executions : Started(y)} :
        Ask(c, "cancel", IF TakenAsEnded(x) THEN {}
                         ELSE {x} \cup {y \in Below(x) : Started(y)})

\* Cleanup: old executions without a terminal event.
AskCleanup(c) ==
    \E S \in SUBSET {x \in Executions : Started(x) /\ endings[x] = <<>>} : Ask(c, "cancel", S)

\* One transaction inserts execution.cancelled for all of them.
WriteCancelled(c) ==
    LET T == call[c].targets IN
    /\ call[c].kind = "cancel"
    /\ endings' = [x \in Executions |-> IF x \in T THEN Append(endings[x], "cancelled") ELSE endings[x]]
    /\ latest' = [x \in Executions |-> IF x \in T THEN "cancelled" ELSE latest[x]]
    /\ call' = [call EXCEPT ![c] = AnsweredCall]
    /\ UNCHANGED <<engine, status, issuedSoFar, current, closing>>

\* Finalize: the loaded state decides; the events, then the state, are written
\* in transactions of their own.
AskFinalize(c) ==
    \E x \in {y \in Executions : Started(y)} :
        Ask(c, "finalize", IF engine[x] = "running" THEN {x} ELSE {})

WriteFinal(c) ==
    \E x \in call[c].targets :
        /\ call[c].kind = "finalize"
        /\ Emit(x, "failed")
        /\ call' = [call EXCEPT ![c].kind = "save"]
        /\ UNCHANGED <<engine, status, issuedSoFar, current, closing>>

SaveFinal(c) ==
    \E x \in call[c].targets :
        /\ call[c].kind = "save"
        /\ SaveState(x, "failed")
        /\ call' = [call EXCEPT ![c] = AnsweredCall]
        /\ UNCHANGED <<latest, endings, issuedSoFar, current, closing>>

EndNext ==
    \/ \E x \in Executions : \/ Start(x) \/ ClaimCurrent(x) \/ Report(x)
                             \/ PassOverReport(x) \/ CloseBatch(x)
    \/ \E c \in Callers : \/ AskCancel(c) \/ AskCleanup(c) \/ AskFinalize(c)
                          \/ WriteCancelled(c) \/ WriteFinal(c) \/ SaveFinal(c)

EndSpec == EndInit /\ [][EndNext]_endVars

(***************************************************************************)
(* Fairness.  A claimed command is reported (by its worker, or by another  *)
(* one after a reclaim: CommandLifecycle) and a report is processed.       *)
(***************************************************************************)
EndFairness == \A x \in Executions :
    /\ WF_endVars(ClaimCurrent(x)) /\ WF_endVars(Report(x))
    /\ WF_endVars(PassOverReport(x)) /\ WF_endVars(CloseBatch(x))

EndFairSpec == EndSpec /\ EndFairness

-----------------------------------------------------------------------------
(* Properties                                                              *)

\* The status of the row never leaves a terminal value, although finalize saves
\* a state it loaded before the engine saved its own (save_state).
ProjectedStatusStays ==
    [][\A x \in Executions : status[x] \in {"COMPLETED", "FAILED"} => status'[x] = status[x]]_endVars

\* The engine ends an execution at most once and issues nothing afterwards:
\* a finalize that overlaps with its passes does not bring the state back
\* (_handle_event_inner against finalize_abandoned_execution).
EngineEndIsFinal ==
    [][\A x \in Executions : engine[x] \in {"completed", "failed"} =>
           /\ issuedSoFar'[x] = issuedSoFar[x]
           /\ engine'[x] \in {"completed", "failed"}]_endVars

\* An execution that was ended comes to rest: the command that waits at that
\* moment, or that an engine which knows nothing of a cancellation issues later,
\* is refused in the end, and none is issued or run after it (claim against
\* cancel).
EndedComesToRest ==
    \A x \in Executions :
        (endings[x] # <<>> /\ current[x] = "issued") ~> [](current[x] = "refused")
=============================================================================

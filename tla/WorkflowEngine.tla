---- MODULE WorkflowEngine ----
(***************************************************************************)
(* The workflow transitions of one execution (core/dsl/engine/executor):   *)
(* what an engine pass does with a call.done or call.error of a step that  *)
(* is not a loop, or with a command.failed, which commands it returns, how *)
(* they become rows of noetl.command after the pass has committed, and     *)
(* when the pass decides that the execution is over.  Loops have a module  *)
(* of their own (LoopCoordination).  Workers talk to a server that has the *)
(* batch endpoint, as the server of this repository does.                  *)
(*                                                                         *)
(* A command <<s, n>> is the n-th command of step s.  What a when clause   *)
(* renders to depends on data and is chosen anew by each pass.             *)
(***************************************************************************)
EXTENDS Naturals, Sequences, FiniteSets

CONSTANTS Steps,         \* steps of the playbook
          Entry,         \* playbook.get_entry_step
          Arcs,          \* next.arcs of each step: target and whether it has a when
          Inclusive,     \* steps with next.spec.mode = inclusive
          Quiet,         \* steps with next.spec.on_no_match = quiet
          MaxRuns,       \* bound on commands of each step
          FailedPosts,   \* workers post command.failed by itself
          DoubleReports, \* the reports of a command may contradict each other
          Losses         \* commands and events may be lost in a crash

ASSUME WorkflowAssumption ==
    /\ Entry \in Steps
    /\ Arcs \in [Steps -> Seq([to : Steps, when : BOOLEAN])]
    /\ Inclusive \subseteq Steps
    /\ Quiet \subseteq Steps
    /\ MaxRuns \in Nat \ {0}
    /\ FailedPosts \in BOOLEAN
    /\ DoubleReports \in BOOLEAN
    /\ Losses \in BOOLEAN

VARIABLES
    command,    \* the row of noetl.command, or where it is before it is one
    reported,   \* call.done, call.error, lone command.failed events persisted
    waiting,    \* those of them the engine has not processed
    flow,       \* noetl.execution.state
    outcome,    \* workflow.completed / workflow.failed events persisted
    supervised, \* commands counted by pending_command_count in NATS K/V
    kvUp        \* NATS K/V can be reached

workflowVars == <<command, reported, waiting, flow, outcome, supervised, kvUp>>

Commands == Steps \X (1..MaxRuns)
Results  == {"call.done", "call.error"}
Names    == Results \cup {"command.failed"}
First    == <<Entry, 1>>

WorkflowInit ==
    /\ command = [c \in Commands |-> IF c = First THEN "open" ELSE "none"]
    /\ reported = {}
    /\ waiting = {}
    /\ flow = [issued |-> {}, completed |-> {}, failed |-> FALSE, finished |-> FALSE]
    /\ outcome = <<>>
    /\ kvUp \in BOOLEAN
    /\ supervised = IF kvUp THEN {First} ELSE {}

----
(* What workers report. *)

ReportedAs(c) == {n \in Names : <<c, n>> \in reported}

\* call.done or call.error of a command is reported once; a failure may follow the
\* worker's own command.failed.  With DoubleReports, it may also be reported done and
\* failed: by a worker that took an accepted report for a refused one, or by two.
CanReport(c, n) ==
    /\ command[c] \in {"open", "done", "failed"}
    /\ <<c, n>> \notin reported
    /\ \/ ReportedAs(c) = {}
       \/ n = "call.error" /\ ReportedAs(c) = {"command.failed"}
       \/ DoubleReports

\* Mutant: the row takes the name of the event.
RowNamed(n) == n

RowAfter(n) == IF n = "call.done" THEN "done" ELSE "failed"

\* POST /events/batch settles the row and records the event together, and never
\* tells the supervisor.
ReportBatch(c, n) ==
    /\ CanReport(c, n)
    /\ command' = [command EXCEPT ![c] = RowAfter(n)]
    /\ reported' = reported \cup {<<c, n>>}
    /\ waiting' = waiting \cup {<<c, n>>}
    /\ UNCHANGED <<flow, outcome, supervised, kvUp>>

\* A worker whose claim failed for good, or whose report was not accepted, posts
\* command.failed by itself, to POST /events.  The event is persisted unless the
\* batch of a call.error has recorded a command.failed of the command; one that was
\* posted before is not recognised, since only batches fill the command_id column.
ReportFailed(c) ==
    /\ FailedPosts
    /\ command[c] \in {"open", "done", "failed"}
    /\ <<c, "call.done">> \in reported => DoubleReports
    /\ <<c, "call.error">> \notin reported
    /\ reported' = reported \cup {<<c, "command.failed">>}
    /\ waiting' = waiting \cup {<<c, "command.failed">>}
    /\ UNCHANGED <<command, flow, outcome, supervised, kvUp>>

\* The handler goes on with the row, in a second transaction whose failure is
\* logged only, and tells the supervisor.
FailRow(c) ==
    /\ <<c, "command.failed">> \in waiting
    /\ command' \in {command, [command EXCEPT ![c] = "failed"]}
    /\ supervised' = supervised \ {c}
    /\ UNCHANGED <<reported, waiting, flow, outcome, kvUp>>

----
(* Routing. *)

\* What the when clauses of a step render to.
Evaluations(s) ==
    {v \in [DOMAIN Arcs[s] -> {"match", "no", "raise"}] :
        \A i \in DOMAIN Arcs[s] : ~Arcs[s][i].when => v[i] = "match"}

\* Mutant: a report does not take the step out of flight.
InFlightEver(issued, completed) == issued

InFlightStep(issued, completed) == issued \ completed

\* Mutant: a target that is in flight is issued again.
EligibleAll(s, v, completed) == {i \in DOMAIN Arcs[s] : v[i] = "match"}

\* Arcs that match and whose target is not already in flight.
Eligible(s, v, completed) ==
    {i \in DOMAIN Arcs[s] :
        v[i] = "match" /\ Arcs[s][i].to \notin InFlightStep(flow.issued, completed)}

\* Exclusive routing stops at the first arc that issues a command: one whose
\* target is in flight is passed over.
Routed(s, v, completed) ==
    LET E == Eligible(s, v, completed)
    IN IF s \in Inclusive THEN {Arcs[s][i].to : i \in E}
       ELSE {Arcs[s][i].to : i \in {j \in E : \A k \in E : j <= k}}

Matched(v) == \E i \in DOMAIN v : v[i] = "match"
Raised(v)  == \E i \in DOMAIN v : v[i] = "raise"
Terminal(s) == Arcs[s] = <<>>

Runs(s) == {n \in 1..MaxRuns : command[<<s, n>>] # "none"}
NextCommand(s) == <<s, Cardinality(Runs(s)) + 1>>

\* The rows that are not settled, the one of the triggering command left out.
LiveRows(c) == {d \in Commands \ {c} : command[d] = "open"}

\* Mutant: the rows are trusted alone.
PendingRowsOnly(c, completed) == LiveRows(c) # {}

\* In-memory steps first, the supervisor when nothing was ever issued by the
\* engine, then the rows.
PendingAfter(c, completed) ==
    \/ InFlightStep(flow.issued, completed) # {}
    \/ flow.issued = {} /\ supervised # {}
    \/ LiveRows(c) # {}

\* Without an entry in K/V the pass falls back to a query over columns that
\* noetl.runtime does not have, and fails.
CountUnavailable(issued) == issued = {} /\ ~kvUp

\* Mutant: only the last report decides on success.
StatusOfReport(s, c, n, v, completed) ==
    IF PendingAfter(c, completed) THEN <<>>
    ELSE IF n = "call.error" THEN <<"failed">> ELSE <<"completed">>

Status(s, c, n, v, completed) ==
    LET dead == ~Matched(v) /\ ~Raised(v) /\ s \notin Quiet
    IN IF ~PendingAfter(c, completed) /\ (Terminal(s) \/ n = "call.error" \/ dead)
       THEN IF flow.failed \/ n = "call.error" THEN <<"failed">> ELSE <<"completed">>
       ELSE <<>>

\* One pass over the event n of command c, in one transaction under the
\* advisory lock of the execution.
PassOver(c, n, v) ==
    LET s         == c[1]
        completed == flow.completed \cup {s}
        targets   == Routed(s, v, completed)
        fresh     == {NextCommand(t) : t \in targets}
        status    == IF targets = {} THEN Status(s, c, n, v, completed) ELSE <<>>
    IN /\ ~CountUnavailable(flow.issued \cup targets)
       /\ \A t \in targets : Cardinality(Runs(t)) < MaxRuns
       /\ command' = [d \in Commands |-> IF d \in fresh THEN "made" ELSE command[d]]
       /\ flow' = [issued    |-> flow.issued \cup targets,
                    completed |-> completed \ targets,
                    failed    |-> flow.failed \/ n = "call.error",
                    finished  |-> status # <<>>]
       /\ outcome' = outcome \o status

EnginePass(c, n) ==
    /\ n \in Results
    /\ <<c, n>> \in waiting
    /\ ~flow.finished
    /\ \E v \in Evaluations(c[1]) : PassOver(c, n, v)
    /\ waiting' = waiting \ {<<c, n>>}
    /\ UNCHANGED <<reported, supervised, kvUp>>

\* What a pass over command.failed takes for pending: it does not look at the
\* rows, and does not take the step of the command itself out of flight.
PendingAtFailure ==
    IF flow.issued = {} THEN supervised # {} ELSE InFlightStep(flow.issued, flow.completed) # {}

\* The pass of the same request, once the supervisor has been told: it routes
\* nothing, and ends the execution unless a step is in flight.
FailedPass(c) ==
    /\ <<c, "command.failed">> \in waiting
    /\ c \notin supervised
    /\ ~flow.finished
    /\ ~CountUnavailable(flow.issued)
    /\ flow' = [flow EXCEPT !.failed = TRUE, !.finished = ~PendingAtFailure]
    /\ outcome' = IF PendingAtFailure THEN outcome ELSE Append(outcome, "failed")
    /\ waiting' = waiting \ {<<c, "command.failed">>}
    /\ UNCHANGED <<command, reported, supervised, kvUp>>

\* An execution that has ended takes no more events.
PassAfterEnd(c, n) ==
    /\ <<c, n>> \in waiting
    /\ flow.finished
    /\ waiting' = waiting \ {<<c, n>>}
    /\ UNCHANGED <<command, reported, flow, outcome, supervised, kvUp>>

\* The pass raises and is rolled back: the batch is marked failed and no other
\* pass is made for the event, since its duplicates are not the first.
PassRaises(c, n) ==
    /\ <<c, n>> \in waiting
    /\ ~flow.finished
    /\ \/ n = "command.failed" /\ CountUnavailable(flow.issued)
       \/ /\ n \in Results
          /\ \E v \in Evaluations(c[1]) :
                CountUnavailable(flow.issued \cup Routed(c[1], v, flow.completed \cup {c[1]}))
    /\ waiting' = waiting \ {<<c, n>>}
    /\ UNCHANGED <<command, reported, flow, outcome, supervised, kvUp>>

\* The rows are inserted after the pass.  The batch endpoint does not register
\* the commands with the supervisor.
InsertRow(c) ==
    /\ command[c] = "made"
    /\ command' = [command EXCEPT ![c] = "open"]
    /\ UNCHANGED <<reported, waiting, flow, outcome, supervised, kvUp>>

\* The server stops between the pass and the insert, or with the batch queued.
LoseCommand(c) ==
    /\ Losses
    /\ command[c] = "made"
    /\ command' = [command EXCEPT ![c] = "lost"]
    /\ UNCHANGED <<reported, waiting, flow, outcome, supervised, kvUp>>

LoseEvent(c, n) ==
    /\ Losses
    /\ <<c, n>> \in waiting
    /\ waiting' = waiting \ {<<c, n>>}
    /\ UNCHANGED <<command, reported, flow, outcome, supervised, kvUp>>

WorkflowNext ==
    \/ \E c \in Commands, n \in Names :
          EnginePass(c, n) \/ PassAfterEnd(c, n) \/ PassRaises(c, n) \/ LoseEvent(c, n)
    \/ \E c \in Commands, n \in Results : ReportBatch(c, n)
    \/ \E c \in Commands :
          ReportFailed(c) \/ FailRow(c) \/ FailedPass(c) \/ InsertRow(c) \/ LoseCommand(c)

WorkflowSpec == WorkflowInit /\ [][WorkflowNext]_workflowVars

\* A worker that has reported nothing of a command does so (CommandLifecycle), a
\* handler goes on to its pass, accepted batches are worked off (BatchAcceptor),
\* and a pass that has returned inserts its rows.
WorkflowFairness ==
    /\ \A c \in Commands :
          /\ WF_workflowVars(\E n \in Results : ReportedAs(c) = {} /\ ReportBatch(c, n))
          /\ WF_workflowVars(c \in supervised /\ FailRow(c))
          /\ WF_workflowVars(FailedPass(c))
          /\ WF_workflowVars(InsertRow(c))
    /\ \A c \in Commands, n \in Results : WF_workflowVars(EnginePass(c, n))

----
(* Properties. *)

WorkflowTypeOK ==
    /\ command \in [Commands -> {"none", "made", "open", "done", "failed", "lost"}]
    /\ reported \subseteq Commands \X Names
    /\ waiting \subseteq reported
    /\ flow \in [issued : SUBSET Steps, completed : SUBSET Steps,
                  failed : BOOLEAN, finished : BOOLEAN]
    /\ outcome \in Seq({"completed", "failed"})
    /\ supervised \subseteq Commands
    /\ kvUp \in BOOLEAN

\* A command a worker still has to execute, inserted or not; one whose failure
\* was posted is in flight no more.
CommandInFlight(c) == command[c] \in {"made", "open"} /\ ReportedAs(c) = {}

\* An execution is over only when none of its commands is in flight: not one
\* that is running, and not one a committed pass has yet to insert, which the
\* count over noetl.command cannot see, nor one of another branch when a command
\* failed for good (events.py, the completion check and the end on command.failed).
FinishedQuiet == flow.finished => \A c \in Commands : ~CommandInFlight(c)

\* Every step has at most one command in flight: branches that meet in a step
\* run it once, and a step is issued again only after it was reported.
OneCommandPerStep ==
    \A c, d \in Commands : CommandInFlight(c) /\ CommandInFlight(d) /\ c[1] = d[1] => c = d

\* The execution ends once, and reports success only if no command failed,
\* although passes are made in any order and a failure may have been handled.
EndsOnceAndTruly ==
    /\ Len(outcome) <= 1
    /\ flow.finished <=> outcome # <<>>
    /\ outcome = <<"completed">> => \A c \in Commands : command[c] # "failed"

\* A command given up with a lone command.failed: its step counts as pending for
\* ever, in memory, unless the worker reports the command after all.
GivenUp == \E c \in Commands : ReportedAs(c) = {"command.failed"}

\* Once the engine has issued a step, the execution ends, unless a command is
\* given up: the pass over the last event in flight sees that nothing else is
\* pending.  (Playbooks whose conditions neither raise nor end quietly; nothing
\* is lost.)
EventuallyFinished == flow.issued # {} ~> flow.finished \/ GivenUp

\* "emit workflow.completed for any terminal step" (CHANGELOG.md:161): the entry
\* step may be the terminal one.
EntryStepEnds == <>(flow.finished)
====

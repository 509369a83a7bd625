------------------------ MODULE WorkflowEngineProofs ------------------------
(***************************************************************************)
(* Theorems about the workflow transitions, for every playbook, any bound  *)
(* on the commands of a step, and whatever is lost on the way.             *)
(*                                                                         *)
(* The engine keeps sets of step names only: issued and completed.  The    *)
(* argument says which command a name in issued \ completed stands for:    *)
(* the latest of its step, and the engine has not passed over a call.done  *)
(* or call.error of it.  Every command without such a report and every one *)
(* whose report waits is outstanding; a pass over one leaves the others    *)
(* outstanding, since it does not route to a step in flight.  A pass over  *)
(* command.failed changes neither set: its command stays outstanding.      *)
(*                                                                         *)
(* A command that is reported done and failed breaks this: the second pass *)
(* takes the step out of flight while a later command of it may be         *)
(* running.  The theorems assume that none is.                             *)
(***************************************************************************)
EXTENDS WorkflowEngine, FiniteSetTheorems, TLAPS

\* The commands of a step are numbered without gaps.
RunsInRow == \A s \in Steps : \E k \in 0..MaxRuns : Runs(s) = 1..k

Latest(c) == \A n \in 1..MaxRuns : command[<<c[1], n>>] # "none" => n <= c[2]

\* The engine still expects a report of c; the entry command is not in issued.
Outstanding(c) ==
    \/ flow.issued = {} /\ flow.completed = {} /\ c = First
    \/ c[1] \in flow.issued \ flow.completed /\ command[c] # "none" /\ Latest(c)

\* No call.done or call.error of c is persisted; one of them waits for its pass.
Unanswered(c) == command[c] # "none" /\ \A n \in Results : <<c, n>> \notin reported
Waits(c) == \E n \in Results : <<c, n>> \in waiting

Failures == {"call.error", "command.failed"}
FailureReported(c) == \E n \in Failures : <<c, n>> \in reported

BusyIsOutstanding ==
    \A c \in Commands : Unanswered(c) \/ Waits(c) => Outstanding(c)

IssuedOrFirst == \A c \in Commands : command[c] # "none" => c = First \/ c[1] \in flow.issued

\* Only commands with a row are reported.
ReportedHasRow ==
    \A c \in Commands : \A n \in Names :
        <<c, n>> \in reported => command[c] \in {"open", "done", "failed"}

OneReport ==
    \A c \in Commands : <<c, "call.done">> \in reported => ReportedAs(c) = {"call.done"}

\* A row is settled by a report, as the report says.
SettledByReport ==
    \A c \in Commands :
        /\ command[c] = "done" => ReportedAs(c) # {}
        /\ command[c] = "failed" => FailureReported(c)

\* A failure is in the state of the engine, or the engine still waits for it.
ErrorsSeen ==
    \A c \in Commands : FailureReported(c) => flow.failed \/ Outstanding(c)

EndedOnce ==
    /\ Len(outcome) <= 1
    /\ flow.finished <=> outcome # <<>>
    /\ outcome = <<"completed">> => \A c \in Commands : ~FailureReported(c)

RowsInv == RunsInRow /\ ReportedHasRow /\ OneReport /\ SettledByReport
WorkflowInv ==
    /\ WorkflowTypeOK
    /\ RowsInv
    /\ BusyIsOutstanding
    /\ IssuedOrFirst
    /\ ErrorsSeen
    /\ FinishedQuiet
    /\ EndedOnce

-----------------------------------------------------------------------------
(* Commands and steps                                                        *)

LEMMA CommandParts ==
    ASSUME NEW c \in Commands
    PROVE  c[1] \in Steps /\ c[2] \in 1..MaxRuns /\ c = <<c[1], c[2]>>
BY DEF Commands

LEMMA InFlightUnanswered ==
    ASSUME NEW c \in Commands, CommandInFlight(c)
    PROVE  Unanswered(c) /\ ~FailureReported(c)
BY DEF CommandInFlight, Unanswered, ReportedAs, FailureReported, Failures, Names, Results

LEMMA FirstIsCommand == First \in Commands
BY WorkflowAssumption DEF First, Commands

\* Two outstanding commands of one step are one.
LEMMA OutstandingIsOne ==
    ASSUME NEW c \in Commands, NEW d \in Commands,
           Outstanding(c), Outstanding(d), c[1] = d[1]
    PROVE  c = d
<1>1. CASE flow.issued = {}
  BY <1>1 DEF Outstanding
<1>2. CASE flow.issued # {}
  <2>1. Latest(c) /\ Latest(d) /\ command[c] # "none" /\ command[d] # "none"
    BY <1>2 DEF Outstanding
  <2>2. c = <<c[1], c[2]>> /\ d = <<d[1], d[2]>> /\ c[2] \in 1..MaxRuns /\ d[2] \in 1..MaxRuns
    BY CommandParts
  <2>3. command[<<c[1], d[2]>>] # "none" /\ command[<<d[1], c[2]>>] # "none"
    BY <2>1, <2>2
  <2>4. d[2] <= c[2] /\ c[2] <= d[2]
    BY <2>1, <2>2, <2>3 DEF Latest
  <2> QED BY <2>2, <2>4, WorkflowAssumption
<1> QED BY <1>1, <1>2

\* An element of a sequence is in the set the sequence is over.
LEMMA ElementOf ==
    ASSUME NEW R, NEW q \in Seq(R), NEW i \in DOMAIN q
    PROVE  q[i] \in R
OBVIOUS

\* Arcs lead to steps, and not to a step in flight.
LEMMA RoutedSteps ==
    ASSUME NEW s \in Steps, NEW v, NEW completed
    PROVE  Routed(s, v, completed) \subseteq Steps \ InFlightStep(flow.issued, completed)
<1>1. \A i \in DOMAIN Arcs[s] : Arcs[s][i].to \in Steps
  <2> SUFFICES ASSUME NEW i \in DOMAIN Arcs[s] PROVE Arcs[s][i].to \in Steps
    OBVIOUS
  <2>1. Arcs[s] \in Seq([to : Steps, when : BOOLEAN])
    BY WorkflowAssumption
  <2>2. Arcs[s][i] \in [to : Steps, when : BOOLEAN]
    BY <2>1, ElementOf
  <2> QED BY <2>2
<1> QED BY <1>1 DEF Routed, Eligible

\* The next command of a step is the first one that does not exist.
LEMMA NextIsNew ==
    ASSUME RunsInRow, NEW t \in Steps, Cardinality(Runs(t)) < MaxRuns
    PROVE  /\ NextCommand(t) \in Commands
           /\ command[NextCommand(t)] = "none"
           /\ \A n \in 1..MaxRuns : command[<<t, n>>] # "none" => n < NextCommand(t)[2]
           /\ \E k \in 0..(MaxRuns - 1) : Runs(t) = 1..k /\ NextCommand(t) = <<t, k + 1>>
<1> PICK k \in 0..MaxRuns : Runs(t) = 1..k
  BY DEF RunsInRow
<1>1. MaxRuns \in Nat /\ MaxRuns # 0
  BY WorkflowAssumption
<1>2. Cardinality(Runs(t)) = k
  <2>1. Cardinality(1..k) = IF 1 > k THEN 0 ELSE k - 1 + 1
    BY <1>1, FS_Interval
  <2> QED BY <2>1, <1>1
<1>3. k < MaxRuns /\ NextCommand(t) = <<t, k + 1>>
  BY <1>2 DEF NextCommand
<1>4. k + 1 \in 1..MaxRuns /\ k + 1 \notin Runs(t)
  BY <1>1, <1>3
<1>5. command[<<t, k + 1>>] = "none"
  BY <1>4 DEF Runs
<1>6. \A n \in 1..MaxRuns : command[<<t, n>>] # "none" => n < k + 1
  <2> SUFFICES ASSUME NEW n \in 1..MaxRuns, command[<<t, n>>] # "none"
               PROVE  n < k + 1
    OBVIOUS
  <2>1. n \in Runs(t)
    BY DEF Runs
  <2> QED BY <2>1, <1>1
<1>7. <<t, k + 1>> \in Commands
  BY <1>4 DEF Commands
<1> QED BY <1>1, <1>3, <1>5, <1>6, <1>7

-----------------------------------------------------------------------------
(* Types                                                                     *)

LEMMA PassTypes ==
    ASSUME WorkflowTypeOK, NEW c \in Commands, NEW n \in Names, EnginePass(c, n)
    PROVE  WorkflowTypeOK'
<1> PICK v \in Evaluations(c[1]) : PassOver(c, n, v)
  BY DEF EnginePass
<1> DEFINE completed == flow.completed \cup {c[1]}
           targets == Routed(c[1], v, completed)
           fresh == {NextCommand(t) : t \in targets}
           status == IF targets = {} THEN Status(c[1], c, n, v, completed) ELSE <<>>
<1>1. c[1] \in Steps /\ targets \subseteq Steps
  BY CommandParts, RoutedSteps
<1>2. status \in {<<>>, <<"failed">>, <<"completed">>}
  BY DEF Status
<1>3. /\ command' = [d \in Commands |-> IF d \in fresh THEN "made" ELSE command[d]]
      /\ flow' = [issued |-> flow.issued \cup targets, completed |-> completed \ targets,
                  failed |-> flow.failed \/ n = "call.error", finished |-> status # <<>>]
      /\ outcome' = outcome \o status
  BY DEF PassOver
<1>4. waiting' \subseteq waiting /\ reported' = reported /\ supervised' = supervised /\ kvUp' = kvUp
  BY DEF EnginePass
<1> HIDE DEF targets, fresh, status
<1>5. command' \in [Commands -> {"none", "made", "open", "done", "failed", "lost"}]
  BY <1>3 DEF WorkflowTypeOK
<1>7. flow' \in [issued : SUBSET Steps, completed : SUBSET Steps, failed : BOOLEAN, finished : BOOLEAN]
  BY <1>1, <1>3 DEF WorkflowTypeOK
<1>8. outcome' \in Seq({"completed", "failed"})
  <2>1. outcome \in Seq({"completed", "failed"})
    BY DEF WorkflowTypeOK
  <2>2. CASE status = <<>>
    BY <1>3, <2>1, <2>2
  <2>3. CASE status = <<"failed">>
    BY <1>3, <2>1, <2>3
  <2>4. CASE status = <<"completed">>
    BY <1>3, <2>1, <2>4
  <2> QED BY <1>2, <2>2, <2>3, <2>4
<1> QED BY <1>4, <1>5, <1>7, <1>8 DEF WorkflowTypeOK

LEMMA WorkflowTypesStep ==
    ASSUME WorkflowTypeOK, [WorkflowNext]_workflowVars
    PROVE  WorkflowTypeOK'
<1> USE DEF WorkflowTypeOK
<1>1. ASSUME NEW c \in Commands, NEW n \in Results, ReportBatch(c, n) PROVE WorkflowTypeOK'
  BY <1>1 DEF ReportBatch, RowAfter, Names
<1>2. ASSUME NEW c \in Commands, ReportFailed(c) PROVE WorkflowTypeOK'
  BY <1>2 DEF ReportFailed, Names
<1>3. ASSUME NEW c \in Commands, NEW n \in Names, EnginePass(c, n) PROVE WorkflowTypeOK'
  BY <1>3, PassTypes
<1>4. ASSUME NEW c \in Commands, NEW n \in Names,
             PassAfterEnd(c, n) \/ PassRaises(c, n) \/ LoseEvent(c, n)
      PROVE  WorkflowTypeOK'
  BY <1>4 DEF PassAfterEnd, PassRaises, LoseEvent
<1>5. ASSUME NEW c \in Commands, FailRow(c) PROVE WorkflowTypeOK'
  BY <1>5 DEF FailRow
<1>6. ASSUME NEW c \in Commands, InsertRow(c) PROVE WorkflowTypeOK'
  BY <1>6 DEF InsertRow
<1>7. ASSUME NEW c \in Commands, LoseCommand(c) PROVE WorkflowTypeOK'
  BY <1>7 DEF LoseCommand
<1>8. CASE UNCHANGED workflowVars
  BY <1>8 DEF workflowVars
<1>9. ASSUME NEW c \in Commands, FailedPass(c) PROVE WorkflowTypeOK'
  <2>1. outcome' \in Seq({"completed", "failed"})
    BY <1>9 DEF FailedPass
  <2>2. flow' \in [issued : SUBSET Steps, completed : SUBSET Steps,
                   failed : BOOLEAN, finished : BOOLEAN]
    BY <1>9 DEF FailedPass, PendingAtFailure
  <2> QED BY <1>9, <2>1, <2>2 DEF FailedPass
<1> QED BY <1>1, <1>2, <1>3, <1>4, <1>5, <1>6, <1>7, <1>8, <1>9 DEF WorkflowNext

-----------------------------------------------------------------------------
(* The steps between two passes                                              *)

\* What these steps have in common: they leave the state of the engine alone,
\* what they make busy was unanswered, what they make fail was in flight.
BetweenPasses ==
    /\ flow' = flow /\ outcome' = outcome
    /\ \A c \in Commands :
          /\ command'[c] = "none" <=> command[c] = "none"
          /\ CommandInFlight(c)' => CommandInFlight(c)
          /\ Unanswered(c)' => Unanswered(c)
          /\ Waits(c)' => Waits(c) \/ Unanswered(c)
          /\ FailureReported(c)' => FailureReported(c) \/ CommandInFlight(c)

LEMMA SameOutstanding ==
    ASSUME BetweenPasses, NEW c \in Commands
    PROVE  Outstanding(c)' <=> Outstanding(c)
<1>1. flow' = flow /\ (command'[c] = "none" <=> command[c] = "none")
  BY DEF BetweenPasses
<1>2. \A n \in 1..MaxRuns : command'[<<c[1], n>>] = "none" <=> command[<<c[1], n>>] = "none"
  <2> SUFFICES ASSUME NEW n \in 1..MaxRuns
               PROVE  command'[<<c[1], n>>] = "none" <=> command[<<c[1], n>>] = "none"
    OBVIOUS
  <2>1. <<c[1], n>> \in Commands
    BY CommandParts DEF Commands
  <2> QED BY <2>1 DEF BetweenPasses
<1>3. Latest(c)' <=> Latest(c)
  BY <1>2 DEF Latest
<1> QED BY <1>1, <1>3 DEF Outstanding

LEMMA BetweenPassesKeeps ==
    ASSUME WorkflowInv, BetweenPasses
    PROVE  RunsInRow' /\ BusyIsOutstanding' /\ IssuedOrFirst' /\ ErrorsSeen'
           /\ FinishedQuiet' /\ EndedOnce'
<1>1. RunsInRow'
  <2>1. \A s \in Steps : Runs(s)' = Runs(s)
    <3> SUFFICES ASSUME NEW s \in Steps PROVE Runs(s)' = Runs(s)
      OBVIOUS
    <3>1. \A n \in 1..MaxRuns : <<s, n>> \in Commands
      BY DEF Commands
    <3> QED BY <3>1 DEF Runs, BetweenPasses
  <2> QED BY <2>1 DEF RunsInRow, WorkflowInv, RowsInv
<1>2. BusyIsOutstanding'
  BY SameOutstanding DEF BusyIsOutstanding, WorkflowInv, BetweenPasses
<1>3. IssuedOrFirst'
  BY DEF IssuedOrFirst, WorkflowInv, BetweenPasses
<1>4. ErrorsSeen'
  <2> SUFFICES ASSUME NEW c \in Commands, FailureReported(c)'
               PROVE  flow'.failed \/ Outstanding(c)'
    BY DEF ErrorsSeen
  <2>1. CASE FailureReported(c)
    BY <2>1, SameOutstanding DEF ErrorsSeen, WorkflowInv, BetweenPasses
  <2>2. CASE CommandInFlight(c)
    BY <2>2, InFlightUnanswered, SameOutstanding DEF BusyIsOutstanding, WorkflowInv
  <2> QED BY <2>1, <2>2 DEF BetweenPasses
<1>5. FinishedQuiet'
  BY DEF FinishedQuiet, WorkflowInv, BetweenPasses
<1>6. EndedOnce'
  BY DEF EndedOnce, FinishedQuiet, WorkflowInv, BetweenPasses
<1> QED BY <1>1, <1>2, <1>3, <1>4, <1>5, <1>6

\* A report is the first of its command, which is in flight before, or it is the
\* call.error after its command.failed.
LEMMA FirstReport ==
    ASSUME ~DoubleReports, WorkflowInv, NEW c \in Commands, NEW n \in Names, CanReport(c, n)
    PROVE  /\ \/ ReportedAs(c) = {} /\ CommandInFlight(c) /\ command[c] = "open"
              \/ ReportedAs(c) = {"command.failed"} /\ n = "call.error" /\ FailureReported(c)
           /\ command[c] \in {"open", "done", "failed"} /\ Unanswered(c)
<1>1. CASE ReportedAs(c) = {}
  <2>1. ~FailureReported(c)
    BY <1>1 DEF ReportedAs, FailureReported, Failures, Names, Results
  <2>2. command[c] = "open"
    BY <1>1, <2>1 DEF CanReport, WorkflowInv, RowsInv, SettledByReport
  <2>3. CommandInFlight(c)
    BY <1>1, <2>2 DEF CommandInFlight
  <2> QED BY <1>1, <2>2, <2>3, InFlightUnanswered
<1>2. CASE ReportedAs(c) = {"command.failed"} /\ n = "call.error"
  <2>1. FailureReported(c)
    BY <1>2 DEF ReportedAs, FailureReported, Failures, Names, Results
  <2>2. \A m \in Results : <<c, m>> \notin reported
    BY <1>2 DEF ReportedAs, Names, Results
  <2> QED BY <1>2, <2>1, <2>2 DEF CanReport, Unanswered
<1> QED BY <1>1, <1>2 DEF CanReport

LEMMA ReportKeepsRows ==
    ASSUME ~DoubleReports, WorkflowInv, NEW c \in Commands, NEW n \in Names, CanReport(c, n),
           reported' = reported \cup {<<c, n>>},
           waiting' = waiting \cup {<<c, n>>},
           flow' = flow, outcome' = outcome,
           command' = [command EXCEPT ![c] = RowAfter(n)] \/ command' = command
    PROVE  BetweenPasses /\ ReportedHasRow' /\ OneReport' /\ SettledByReport'
<1>1. /\ \/ ReportedAs(c) = {} /\ CommandInFlight(c) /\ command[c] = "open"
         \/ ReportedAs(c) = {"command.failed"} /\ n = "call.error" /\ FailureReported(c)
      /\ command[c] \in {"open", "done", "failed"} /\ Unanswered(c)
  BY FirstReport
<1>2. /\ RowAfter(n) \in {"done", "failed"}
      /\ RowAfter(n) = "failed" => n \in Failures
  BY DEF RowAfter, Names, Results, Failures
<1>3. /\ command'[c] \in {command[c], RowAfter(n)}
      /\ \A d \in Commands \ {c} : command'[d] = command[d]
  BY DEF WorkflowInv, WorkflowTypeOK
<1>4. \A d \in Commands : \A m \in Names :
         <<d, m>> \in reported' <=> <<d, m>> \in reported \/ (d = c /\ m = n)
  OBVIOUS
<1>5. \A d \in Commands : ReportedAs(d)' = IF d = c THEN ReportedAs(c) \cup {n} ELSE ReportedAs(d)
  BY <1>4 DEF ReportedAs
<1>6. \A d \in Commands :
         FailureReported(d)' <=> FailureReported(d) \/ (d = c /\ n \in Failures)
  BY DEF FailureReported
<1>7. BetweenPasses
  <2> SUFFICES ASSUME NEW d \in Commands
               PROVE  /\ command'[d] = "none" <=> command[d] = "none"
                      /\ CommandInFlight(d)' => CommandInFlight(d)
                      /\ Unanswered(d)' => Unanswered(d)
                      /\ Waits(d)' => Waits(d) \/ Unanswered(d)
                      /\ FailureReported(d)' => FailureReported(d) \/ CommandInFlight(d)
    BY DEF BetweenPasses
  <2>1. command'[d] = "none" <=> command[d] = "none"
    BY <1>1, <1>2, <1>3
  <2>2. CommandInFlight(d)' => CommandInFlight(d)
    BY <1>3, <1>5 DEF CommandInFlight
  <2>3. Unanswered(d)' => Unanswered(d)
    BY <2>1 DEF Unanswered
  <2>4. Waits(d)' => Waits(d) \/ Unanswered(d)
    BY <1>1 DEF Waits
  <2>5. FailureReported(d)' => FailureReported(d) \/ CommandInFlight(d)
    BY <1>1, <1>6
  <2> QED BY <2>1, <2>2, <2>3, <2>4, <2>5
<1>8. ReportedHasRow'
  BY <1>1, <1>2, <1>3, <1>4 DEF ReportedHasRow, WorkflowInv, RowsInv
<1>9. OneReport'
  <2> SUFFICES ASSUME NEW d \in Commands, <<d, "call.done">> \in reported'
               PROVE  ReportedAs(d)' = {"call.done"}
    BY DEF OneReport
  <2>1. CASE d # c
    BY <2>1, <1>5 DEF OneReport, WorkflowInv, RowsInv
  <2>2. CASE d = c
    <3>1. <<c, "call.done">> \notin reported
      BY <1>1 DEF Unanswered, Results
    <3>2. n = "call.done"
      BY <2>2, <3>1
    <3> QED BY <1>1, <1>5, <2>2, <3>2
  <2> QED BY <2>1, <2>2
<1>10. SettledByReport'
  <2> SUFFICES ASSUME NEW d \in Commands
               PROVE  /\ command'[d] = "done" => ReportedAs(d)' # {}
                      /\ command'[d] = "failed" => FailureReported(d)'
    BY DEF SettledByReport
  <2>1. CASE d = c
    BY <2>1, <1>2, <1>3, <1>5, <1>6 DEF SettledByReport, WorkflowInv, RowsInv
  <2>2. CASE d # c
    BY <2>2, <1>3, <1>5, <1>6 DEF SettledByReport, WorkflowInv, RowsInv
  <2> QED BY <2>1, <2>2
<1> QED BY <1>7, <1>8, <1>9, <1>10

\* Nothing but a report adds to reported.
LEMMA RowKeepsRows ==
    ASSUME WorkflowInv, NEW c \in Commands, NEW r,
           command' = [command EXCEPT ![c] = r],
           \/ command[c] \in {"open", "done", "failed"} /\ r = "failed" /\ FailureReported(c)
           \/ command[c] = "made" /\ r \in {"open", "lost"},
           reported' = reported, waiting' = waiting, flow' = flow, outcome' = outcome
    PROVE  BetweenPasses /\ ReportedHasRow' /\ OneReport' /\ SettledByReport'
<1>1. command'[c] = r /\ \A d \in Commands \ {c} : command'[d] = command[d]
  BY DEF WorkflowInv, WorkflowTypeOK
<1>2. \A d \in Commands : /\ ReportedAs(d)' = ReportedAs(d) /\ (Waits(d)' <=> Waits(d))
                          /\ (FailureReported(d)' <=> FailureReported(d))
  BY DEF ReportedAs, Waits, FailureReported
<1>3. BetweenPasses
  <2> SUFFICES ASSUME NEW d \in Commands
               PROVE  /\ command'[d] = "none" <=> command[d] = "none"
                      /\ CommandInFlight(d)' => CommandInFlight(d)
                      /\ Unanswered(d)' => Unanswered(d)
    BY <1>2 DEF BetweenPasses
  <2>1. command'[d] = "none" <=> command[d] = "none"
    BY <1>1
  <2>2. CommandInFlight(d)' => CommandInFlight(d)
    BY <1>1, <1>2, InFlightUnanswered DEF CommandInFlight
  <2>3. Unanswered(d)' => Unanswered(d)
    BY <2>1 DEF Unanswered
  <2> QED BY <2>1, <2>2, <2>3
<1>4. ReportedHasRow'
  <2> SUFFICES ASSUME NEW d \in Commands, NEW n \in Names, <<d, n>> \in reported
               PROVE  command'[d] \in {"open", "done", "failed"}
    BY DEF ReportedHasRow
  <2>1. command[d] \in {"open", "done", "failed"}
    BY DEF ReportedHasRow, WorkflowInv, RowsInv
  <2> QED BY <2>1, <1>1
<1>5. OneReport'
  BY <1>2 DEF OneReport, WorkflowInv, RowsInv
<1>6. SettledByReport'
  BY <1>1, <1>2 DEF SettledByReport, WorkflowInv, RowsInv
<1> QED BY <1>3, <1>4, <1>5, <1>6

LEMMA LossKeepsRows ==
    ASSUME WorkflowInv, waiting' \subseteq waiting \cup (Commands \X {"command.failed"}),
           command' = command, reported' = reported, flow' = flow, outcome' = outcome
    PROVE  BetweenPasses /\ ReportedHasRow' /\ OneReport' /\ SettledByReport'
<1>1. \A d \in Commands : ReportedAs(d)' = ReportedAs(d) /\ (FailureReported(d)' <=> FailureReported(d))
  BY DEF ReportedAs, FailureReported
<1>2. \A d \in Commands : Waits(d)' => Waits(d)
  BY DEF Waits, Results
<1>3. BetweenPasses
  BY <1>1, <1>2 DEF BetweenPasses, CommandInFlight, Unanswered
<1>4. ReportedHasRow' /\ OneReport' /\ SettledByReport'
  BY <1>1 DEF WorkflowInv, RowsInv, ReportedHasRow, OneReport, SettledByReport
<1> QED BY <1>3, <1>4

-----------------------------------------------------------------------------
(* A pass                                                                    *)

\* A pass over b leaves the other outstanding commands outstanding.
LEMMA OthersStay ==
    ASSUME WorkflowInv, NEW b \in Commands, NEW n \in Results, <<b, n>> \in waiting,
           NEW v, PassOver(b, n, v),
           NEW c \in Commands, Outstanding(c), c # b
    PROVE  /\ c[1] \in InFlightStep(flow.issued, flow.completed \cup {b[1]})
           /\ command'[c] = command[c]
           /\ Outstanding(c)'
<1> DEFINE completed == flow.completed \cup {b[1]}
           targets == Routed(b[1], v, completed)
           fresh == {NextCommand(t) : t \in targets}
<1>1. Outstanding(b)
  BY DEF WorkflowInv, BusyIsOutstanding, Waits
<1>2. c[1] # b[1]
  BY <1>1, OutstandingIsOne
<1>3. c[1] \in flow.issued \ flow.completed /\ command[c] # "none" /\ Latest(c)
  BY <1>1 DEF Outstanding
<1>4. c[1] \in InFlightStep(flow.issued, completed)
  BY <1>2, <1>3 DEF InFlightStep
<1>5. c[1] \notin targets
  BY <1>4, RoutedSteps, CommandParts
<1>6. \A k \in 1..MaxRuns : command'[<<c[1], k>>] = command[<<c[1], k>>]
  <2> SUFFICES ASSUME NEW k \in 1..MaxRuns
               PROVE  command'[<<c[1], k>>] = command[<<c[1], k>>]
    OBVIOUS
  <2>1. <<c[1], k>> \in Commands
    BY CommandParts DEF Commands
  <2>2. <<c[1], k>> \notin fresh
    BY <1>5 DEF NextCommand
  <2>3. command' = [d \in Commands |-> IF d \in fresh THEN "made" ELSE command[d]]
    BY DEF PassOver
  <2> QED BY <2>1, <2>2, <2>3
<1>7. command'[c] = command[c]
  BY <1>6, CommandParts
<1>8. Latest(c)'
  BY <1>3, <1>6 DEF Latest
<1>9. flow'.issued = flow.issued \cup targets /\ flow'.completed = completed \ targets
  BY DEF PassOver
<1>10. c[1] \in flow'.issued \ flow'.completed
  BY <1>2, <1>3, <1>5, <1>9
<1> HIDE DEF completed, targets, fresh
<1>11. Outstanding(c)'
  BY <1>3, <1>7, <1>8, <1>10 DEF Outstanding
<1> QED BY <1>4, <1>7, <1>11 DEF completed

\* The commands of a pass are outstanding when it is over.
LEMMA MadeAreOutstanding ==
    ASSUME WorkflowInv, NEW b \in Commands, NEW n, NEW v, PassOver(b, n, v),
           NEW t \in Routed(b[1], v, flow.completed \cup {b[1]}),
           NEW made, made = NextCommand(t)
    PROVE  /\ made \in Commands /\ command[made] = "none"
           /\ command'[made] = "made" /\ Outstanding(made)'
<1> DEFINE completed == flow.completed \cup {b[1]}
           targets == Routed(b[1], v, completed)
           fresh == {NextCommand(u) : u \in targets}
<1>1. targets \subseteq Steps /\ \A u \in targets : Cardinality(Runs(u)) < MaxRuns
  BY RoutedSteps, CommandParts DEF PassOver
<1>2. /\ made \in Commands /\ command[made] = "none" /\ made[1] = t
      /\ \A k \in 1..MaxRuns : command[<<t, k>>] # "none" => k < made[2]
  BY <1>1, NextIsNew DEF WorkflowInv, RowsInv, NextCommand
<1>3. /\ command' = [d \in Commands |-> IF d \in fresh THEN "made" ELSE command[d]]
      /\ flow'.issued = flow.issued \cup targets /\ flow'.completed = completed \ targets
  BY DEF PassOver
<1>4. command'[made] = "made"
  BY <1>2, <1>3
<1>5. \A k \in 1..MaxRuns : command'[<<t, k>>] # "none" => k <= made[2]
  <2> SUFFICES ASSUME NEW k \in 1..MaxRuns, command'[<<t, k>>] # "none"
               PROVE  k <= made[2]
    OBVIOUS
  <2>1. <<t, k>> \in Commands
    BY <1>1 DEF Commands
  <2>2. CASE <<t, k>> \in fresh
    <3>1. PICK u \in targets : <<t, k>> = NextCommand(u)
      BY <2>2
    <3>2. u = t
      BY <3>1 DEF NextCommand
    <3> QED BY <3>1, <3>2, <1>2, WorkflowAssumption DEF Commands
  <2>3. CASE <<t, k>> \notin fresh
    <3>1. k < made[2]
      BY <2>1, <2>3, <1>2, <1>3
    <3>2. made[2] \in 1..MaxRuns
      BY <1>2, CommandParts
    <3> QED BY <3>1, <3>2, WorkflowAssumption
  <2> QED BY <2>2, <2>3
<1>6. t \in flow'.issued \ flow'.completed
  BY <1>3
<1> HIDE DEF completed, targets, fresh
<1>7. Latest(made)'
  BY <1>2, <1>5 DEF Latest
<1>8. Outstanding(made)'
  BY <1>2, <1>4, <1>6, <1>7 DEF Outstanding
<1> QED BY <1>2, <1>4, <1>8

LEMMA PassKeepsRuns ==
    ASSUME WorkflowInv, NEW b \in Commands, NEW n, NEW v, PassOver(b, n, v)
    PROVE  RunsInRow'
<1> DEFINE targets == Routed(b[1], v, flow.completed \cup {b[1]})
           fresh == {NextCommand(u) : u \in targets}
<1> SUFFICES ASSUME NEW s \in Steps PROVE \E k \in 0..MaxRuns : Runs(s)' = 1..k
  BY DEF RunsInRow
<1>1. targets \subseteq Steps /\ \A u \in targets : Cardinality(Runs(u)) < MaxRuns
  BY RoutedSteps, CommandParts DEF PassOver
<1>2. \A k \in 1..MaxRuns : <<s, k>> \in Commands
  BY DEF Commands
<1>3. command' = [d \in Commands |-> IF d \in fresh THEN "made" ELSE command[d]]
  BY DEF PassOver
<1>4. CASE s \in targets
  <2>1. PICK k \in 0..(MaxRuns - 1) : Runs(s) = 1..k /\ NextCommand(s) = <<s, k + 1>>
    BY <1>1, <1>4, NextIsNew DEF WorkflowInv, RowsInv
  <2>2. \A m \in 1..MaxRuns : <<s, m>> \in fresh <=> m = k + 1
    BY <1>4, <2>1 DEF NextCommand
  <2>3. \A m \in 1..MaxRuns : command'[<<s, m>>] # "none" <=> (m = k + 1 \/ m \in Runs(s))
    BY <1>2, <1>3, <2>2 DEF Runs
  <2>4. Runs(s)' = {m \in 1..MaxRuns : m = k + 1 \/ m \in 1..k}
    BY <2>1, <2>3 DEF Runs
  <2>5. Runs(s)' = 1..(k + 1)
    BY <2>4, WorkflowAssumption
  <2> QED BY <2>5, WorkflowAssumption
<1>5. CASE s \notin targets
  <2>1. \A m \in 1..MaxRuns : <<s, m>> \notin fresh
    BY <1>5 DEF NextCommand
  <2>2. Runs(s)' = Runs(s)
    BY <1>2, <1>3, <2>1 DEF Runs
  <2> QED BY <2>2 DEF WorkflowInv, RowsInv, RunsInRow
<1> QED BY <1>4, <1>5

LEMMA PassKeeps ==
    ASSUME WorkflowInv, NEW b \in Commands, NEW n \in Names, EnginePass(b, n)
    PROVE  RowsInv' /\ BusyIsOutstanding' /\ IssuedOrFirst' /\ ErrorsSeen'
           /\ FinishedQuiet' /\ EndedOnce'
<1> PICK v \in Evaluations(b[1]) : PassOver(b, n, v)
  BY DEF EnginePass
<1> DEFINE completed == flow.completed \cup {b[1]}
           targets == Routed(b[1], v, completed)
           fresh == {NextCommand(u) : u \in targets}
           status == IF targets = {} THEN Status(b[1], b, n, v, completed) ELSE <<>>
<1>1. /\ <<b, n>> \in waiting /\ <<b, n>> \in reported /\ ~flow.finished /\ n \in Results
      /\ waiting' = waiting \ {<<b, n>>} /\ reported' = reported
  BY DEF EnginePass, WorkflowInv, WorkflowTypeOK
<1>2. /\ command' = [d \in Commands |-> IF d \in fresh THEN "made" ELSE command[d]]
      /\ flow'.failed = (flow.failed \/ n = "call.error")
      /\ flow'.finished = (status # <<>>)
      /\ outcome' = outcome \o status
  BY DEF PassOver
<1>3. /\ \A m \in Results : <<b, m>> \in reported => m = n
      /\ n # "call.error" => ~FailureReported(b)
  <2>1. <<b, "call.done">> \in reported => <<b, "call.error">> \notin reported /\ ~FailureReported(b)
    BY DEF OneReport, WorkflowInv, RowsInv, ReportedAs, FailureReported, Failures, Names, Results
  <2> QED BY <1>1, <2>1 DEF Results
<1>4. ~Unanswered(b)
  BY <1>1 DEF Unanswered
<1>5. \A d \in fresh : /\ d \in Commands /\ command[d] = "none" /\ command'[d] = "made"
                       /\ Outstanding(d)'
  <2> SUFFICES ASSUME NEW d \in fresh
               PROVE  /\ d \in Commands /\ command[d] = "none" /\ command'[d] = "made"
                      /\ Outstanding(d)'
    OBVIOUS
  <2>1. PICK t \in targets : d = NextCommand(t)
    OBVIOUS
  <2> QED BY <2>1, MadeAreOutstanding
<1>6. \A d \in Commands \ fresh : command'[d] = command[d]
  BY <1>2
<1>7. \A d \in Commands : ReportedAs(d)' = ReportedAs(d) /\ (FailureReported(d)' <=> FailureReported(d))
  BY <1>1 DEF ReportedAs, FailureReported
<1>8. \A d \in Commands \ {b} : Outstanding(d) =>
         d[1] \in InFlightStep(flow.issued, completed) /\ Outstanding(d)'
  BY <1>1, OthersStay
<1>9. status # <<>> => /\ targets = {} /\ status = Status(b[1], b, n, v, completed)
                       /\ ~PendingAfter(b, completed)
  BY DEF Status
<1>10. status # <<>> => \A d \in Commands \ {b} : ~Outstanding(d)
  BY <1>8, <1>9 DEF PendingAfter
<1>11. targets = {} => fresh = {}
  OBVIOUS
<1> HIDE DEF completed, targets, fresh
<1>12. ReportedHasRow'
  BY <1>1, <1>5, <1>6 DEF ReportedHasRow, WorkflowInv, RowsInv
<1>13. OneReport'
  BY <1>1, <1>7 DEF OneReport, WorkflowInv, RowsInv
<1>14. SettledByReport'
  BY <1>1, <1>5, <1>6, <1>7 DEF SettledByReport, WorkflowInv, RowsInv
<1>15. BusyIsOutstanding'
  <2> SUFFICES ASSUME NEW d \in Commands, Unanswered(d)' \/ Waits(d)'
               PROVE  Outstanding(d)'
    BY DEF BusyIsOutstanding
  <2>1. CASE d \in fresh
    BY <2>1, <1>5
  <2>2. CASE d \notin fresh
    <3>1. Unanswered(d) \/ Waits(d)
      BY <2>2, <1>1, <1>6 DEF Unanswered, Waits
    <3>2. d # b
      <4>1. ~Waits(b)'
        BY <1>1, <1>3 DEF Waits, WorkflowInv, WorkflowTypeOK
      <4>2. ~Unanswered(b)'
        BY <1>1 DEF Unanswered
      <4> QED BY <4>1, <4>2
    <3> QED BY <3>1, <3>2, <1>8 DEF WorkflowInv, BusyIsOutstanding
  <2> QED BY <2>1, <2>2
<1>16. ErrorsSeen'
  <2> SUFFICES ASSUME NEW d \in Commands, FailureReported(d)
               PROVE  flow'.failed \/ Outstanding(d)'
    BY <1>7 DEF ErrorsSeen
  <2>1. CASE d = b
    BY <2>1, <1>2, <1>3
  <2>2. CASE d # b
    BY <2>2, <1>2, <1>8 DEF ErrorsSeen, WorkflowInv
  <2> QED BY <2>1, <2>2
<1>17. FinishedQuiet'
  <2> SUFFICES ASSUME status # <<>>, NEW d \in Commands, CommandInFlight(d)'
               PROVE  FALSE
    BY <1>2 DEF FinishedQuiet
  <2>1. CommandInFlight(d)
    BY <1>6, <1>7, <1>9, <1>11 DEF CommandInFlight
  <2>2. Unanswered(d)
    BY <2>1, InFlightUnanswered
  <2> QED BY <2>2, <1>4, <1>10 DEF WorkflowInv, BusyIsOutstanding
<1>18. EndedOnce'
  <2>1. outcome = <<>>
    BY <1>1 DEF EndedOnce, WorkflowInv
  <2>2. status \in {<<>>, <<"failed">>, <<"completed">>}
    BY DEF Status
  <2>3. outcome' = status
    BY <1>2, <2>1, <2>2
  <2>4. ASSUME status = <<"completed">>, NEW d \in Commands, FailureReported(d)
        PROVE  FALSE
    <3>1. ~flow.failed /\ n # "call.error"
      BY <2>4, <1>9 DEF Status
    <3>2. d # b
      BY <2>4, <3>1, <1>3
    <3> QED BY <2>4, <3>1, <3>2, <1>10 DEF ErrorsSeen, WorkflowInv
  <2>5. Len(outcome') <= 1
    <3>1. outcome' \in {<<>>, <<"failed">>, <<"completed">>}
      BY <2>2, <2>3
    <3>2. CASE outcome' = <<>>
      BY <3>2
    <3>3. CASE outcome' = <<"failed">>
      BY <3>3
    <3>4. CASE outcome' = <<"completed">>
      BY <3>4
    <3> QED BY <3>1, <3>2, <3>3, <3>4
  <2>6. flow'.finished <=> outcome' # <<>>
    BY <1>2, <2>3
  <2> QED BY <2>3, <2>4, <2>5, <2>6, <1>7 DEF EndedOnce
<1>19. RunsInRow'
  BY PassKeepsRuns
<1>20. IssuedOrFirst'
  <2>1. flow'.issued = flow.issued \cup targets
    BY DEF PassOver, targets, completed
  <2>2. \A d \in fresh : d[1] \in targets
    BY DEF fresh, NextCommand
  <2> SUFFICES ASSUME NEW d \in Commands, command'[d] # "none", d # First
               PROVE  d[1] \in flow'.issued
    BY DEF IssuedOrFirst
  <2>3. CASE d \in fresh
    BY <2>1, <2>2, <2>3
  <2>4. CASE d \notin fresh
    <3>1. command[d] # "none"
      BY <1>6, <2>4
    <3>2. d[1] \in flow.issued
      BY <3>1 DEF IssuedOrFirst, WorkflowInv
    <3> QED BY <3>2, <2>1
  <2> QED BY <2>3, <2>4
<1> QED BY <1>12, <1>13, <1>14, <1>15, <1>16, <1>17, <1>18, <1>19, <1>20 DEF RowsInv

\* A pass over command.failed: it ends the execution only when no step is in
\* flight, so that no command is but those of which a failure is reported.
LEMMA FailedPassKeeps ==
    ASSUME WorkflowInv, NEW b \in Commands, FailedPass(b)
    PROVE  RowsInv' /\ BusyIsOutstanding' /\ IssuedOrFirst' /\ ErrorsSeen'
           /\ FinishedQuiet' /\ EndedOnce'
<1>1. /\ <<b, "command.failed">> \in reported /\ ~flow.finished
      /\ command' = command /\ reported' = reported /\ waiting' \subseteq waiting
      /\ flow' = [flow EXCEPT !.failed = TRUE, !.finished = ~PendingAtFailure]
      /\ outcome' = IF PendingAtFailure THEN outcome ELSE Append(outcome, "failed")
  BY DEF FailedPass, WorkflowInv, WorkflowTypeOK
<1>2. /\ flow'.issued = flow.issued /\ flow'.completed = flow.completed
      /\ flow'.failed = TRUE /\ flow'.finished = ~PendingAtFailure
  BY <1>1 DEF WorkflowInv, WorkflowTypeOK
<1>3. \A d \in Commands : /\ ReportedAs(d)' = ReportedAs(d)
                          /\ (FailureReported(d)' <=> FailureReported(d))
                          /\ (Outstanding(d)' <=> Outstanding(d))
                          /\ (Unanswered(d)' <=> Unanswered(d))
                          /\ (Waits(d)' => Waits(d))
  BY <1>1, <1>2 DEF ReportedAs, FailureReported, Outstanding, Latest, Unanswered, Waits
<1>4. RowsInv'
  <2>1. RunsInRow' /\ ReportedHasRow'
    BY <1>1 DEF RunsInRow, Runs, ReportedHasRow, WorkflowInv, RowsInv
  <2>2. OneReport' /\ SettledByReport'
    BY <1>1, <1>3 DEF OneReport, SettledByReport, WorkflowInv, RowsInv
  <2> QED BY <2>1, <2>2 DEF RowsInv
<1>5. BusyIsOutstanding'
  BY <1>3 DEF BusyIsOutstanding, WorkflowInv
<1>6. IssuedOrFirst' /\ ErrorsSeen'
  BY <1>1, <1>2 DEF IssuedOrFirst, ErrorsSeen, WorkflowInv
<1>7. FinishedQuiet'
  <2> SUFFICES ASSUME ~PendingAtFailure, NEW d \in Commands, CommandInFlight(d)
               PROVE  FALSE
    BY <1>1, <1>2, <1>3 DEF FinishedQuiet, CommandInFlight
  <2>1. Outstanding(d) /\ ReportedAs(d) = {}
    BY InFlightUnanswered DEF BusyIsOutstanding, WorkflowInv, CommandInFlight
  <2>2. CASE flow.issued = {}
    <3>1. d = First
      BY <2>1, <2>2 DEF Outstanding
    <3>2. command[b] # "none"
      BY <1>1 DEF ReportedHasRow, WorkflowInv, RowsInv, Names
    <3>3. b = First
      BY <2>2, <3>2 DEF IssuedOrFirst, WorkflowInv
    <3>4. "command.failed" \in ReportedAs(b)
      BY <1>1 DEF ReportedAs, Names
    <3> QED BY <2>1, <3>1, <3>3, <3>4
  <2>3. CASE flow.issued # {}
    BY <2>1, <2>3 DEF Outstanding, PendingAtFailure, InFlightStep
  <2> QED BY <2>2, <2>3
<1>8. EndedOnce'
  <2>1. outcome = <<>>
    BY <1>1 DEF EndedOnce, WorkflowInv
  <2>2. outcome' = IF PendingAtFailure THEN <<>> ELSE <<"failed">>
    BY <1>1, <2>1
  <2>3. CASE PendingAtFailure
    <3>1. outcome' = <<>> /\ ~flow'.finished
      BY <1>2, <2>2, <2>3
    <3>2. Len(outcome') <= 1 /\ outcome' # <<"completed">>
      BY <3>1
    <3> QED BY <3>1, <3>2 DEF EndedOnce
  <2>4. CASE ~PendingAtFailure
    <3>1. outcome' = <<"failed">> /\ flow'.finished
      BY <1>2, <2>2, <2>4
    <3>2. Len(outcome') <= 1 /\ outcome' # <<>> /\ outcome' # <<"completed">>
      BY <3>1
    <3> QED BY <3>1, <3>2 DEF EndedOnce
  <2> QED BY <2>3, <2>4
<1> QED BY <1>4, <1>5, <1>6, <1>7, <1>8

-----------------------------------------------------------------------------
(* The theorems                                                              *)

LEMMA WorkflowInvInit == WorkflowInit => WorkflowInv
<1> SUFFICES ASSUME WorkflowInit PROVE WorkflowInv
  OBVIOUS
<1> USE DEF WorkflowInit
<1>1. WorkflowTypeOK
  BY FirstIsCommand DEF WorkflowTypeOK
<1>2. RunsInRow
  <2> SUFFICES ASSUME NEW s \in Steps PROVE \E k \in 0..MaxRuns : Runs(s) = 1..k
    BY DEF RunsInRow
  <2>1. MaxRuns \in Nat \ {0}
    BY WorkflowAssumption
  <2>2. \A m \in 1..MaxRuns : command[<<s, m>>] # "none" <=> s = Entry /\ m = 1
    BY DEF First, Commands
  <2>3. CASE s = Entry
    <3>1. Runs(s) = {m \in 1..MaxRuns : m = 1}
      BY <2>2, <2>3 DEF Runs
    <3>2. Runs(s) = 1..1
      BY <2>1, <3>1
    <3> QED BY <2>1, <3>2
  <2>4. CASE s # Entry
    <3>1. Runs(s) = {}
      BY <2>2, <2>4 DEF Runs
    <3>2. Runs(s) = 1..0
      BY <3>1
    <3> QED BY <2>1, <3>2
  <2> QED BY <2>3, <2>4
<1>3. ReportedHasRow /\ OneReport /\ SettledByReport
  BY DEF ReportedHasRow, OneReport, SettledByReport
<1>4. BusyIsOutstanding /\ IssuedOrFirst
  BY DEF BusyIsOutstanding, Unanswered, Waits, Outstanding, IssuedOrFirst
<1>5. ErrorsSeen /\ FinishedQuiet /\ EndedOnce
  BY DEF ErrorsSeen, FinishedQuiet, EndedOnce, FailureReported
<1> QED BY <1>1, <1>2, <1>3, <1>4, <1>5 DEF WorkflowInv, RowsInv

LEMMA WorkflowInvStep ==
    ASSUME ~DoubleReports, WorkflowInv, [WorkflowNext]_workflowVars
    PROVE  WorkflowInv'
<1>1. WorkflowTypeOK'
  BY WorkflowTypesStep DEF WorkflowInv
<1> DEFINE Rows == BetweenPasses /\ ReportedHasRow' /\ OneReport' /\ SettledByReport'
<1>2. ASSUME Rows PROVE WorkflowInv'
  BY <1>1, <1>2, BetweenPassesKeeps DEF WorkflowInv, RowsInv
<1> HIDE DEF Rows
<1>3. ASSUME NEW c \in Commands, NEW n \in Results, ReportBatch(c, n) PROVE Rows
  BY <1>3, ReportKeepsRows DEF ReportBatch, Rows, Names
<1>4. ASSUME NEW c \in Commands, ReportFailed(c) PROVE Rows
  <2>1. /\ reported' = reported \cup {<<c, "command.failed">>}
        /\ waiting' = waiting \cup {<<c, "command.failed">>}
        /\ command' = command /\ flow' = flow /\ outcome' = outcome
    BY <1>4 DEF ReportFailed
  <2>2. CASE <<c, "command.failed">> \in reported
    BY <2>1, <2>2, LossKeepsRows DEF Rows
  <2>3. CASE <<c, "command.failed">> \notin reported
    <3>1. ReportedAs(c) = {}
      BY <1>4, <2>3 DEF ReportFailed, ReportedAs, Names, Results
    <3>2. CanReport(c, "command.failed")
      BY <1>4, <3>1, <2>3 DEF ReportFailed, CanReport
    <3> QED BY <2>1, <3>2, ReportKeepsRows DEF Rows, Names
  <2> QED BY <2>2, <2>3
<1>5. ASSUME NEW c \in Commands, NEW n \in Names, EnginePass(c, n) PROVE WorkflowInv'
  BY <1>1, <1>5, PassKeeps DEF WorkflowInv
<1>6. ASSUME NEW c \in Commands, NEW n \in Names,
             PassAfterEnd(c, n) \/ PassRaises(c, n) \/ LoseEvent(c, n)
      PROVE  Rows
  BY <1>6, LossKeepsRows DEF PassAfterEnd, PassRaises, LoseEvent, Rows
<1>7. ASSUME NEW c \in Commands, FailRow(c) PROVE Rows
  <2>1. <<c, "command.failed">> \in reported
    BY <1>7 DEF FailRow, WorkflowInv, WorkflowTypeOK
  <2>2. command[c] \in {"open", "done", "failed"} /\ FailureReported(c)
    BY <2>1 DEF ReportedHasRow, WorkflowInv, RowsInv, Names, FailureReported, Failures
  <2>3. CASE command' = command
    BY <1>7, <2>3, LossKeepsRows DEF FailRow, Rows
  <2>4. CASE command' = [command EXCEPT ![c] = "failed"]
    BY <1>7, <2>2, <2>4, RowKeepsRows DEF FailRow, Rows
  <2> QED BY <1>7, <2>3, <2>4 DEF FailRow
<1>8. ASSUME NEW c \in Commands, InsertRow(c) PROVE Rows
  BY <1>8, RowKeepsRows DEF InsertRow, Rows
<1>9. ASSUME NEW c \in Commands, LoseCommand(c) PROVE Rows
  BY <1>9, RowKeepsRows DEF LoseCommand, Rows
<1>10. ASSUME UNCHANGED workflowVars PROVE Rows
  BY <1>10, LossKeepsRows DEF workflowVars, Rows
<1>11. ASSUME NEW c \in Commands, FailedPass(c) PROVE WorkflowInv'
  BY <1>1, <1>11, FailedPassKeeps DEF WorkflowInv
<1> QED BY <1>2, <1>3, <1>4, <1>5, <1>6, <1>7, <1>8, <1>9, <1>10, <1>11 DEF WorkflowNext

LEMMA WorkflowInvHolds == ASSUME ~DoubleReports PROVE WorkflowSpec => []WorkflowInv
<1>1. WorkflowInv /\ [WorkflowNext]_workflowVars => WorkflowInv'
  BY WorkflowInvStep
<1> QED BY <1>1, WorkflowInvInit, PTL DEF WorkflowSpec

\* The variables of the transitions keep their types, also for commands that are
\* reported done and failed.
THEOREM WorkflowTypes == WorkflowSpec => []WorkflowTypeOK
<1>1. WorkflowInit => WorkflowTypeOK
  BY WorkflowInvInit DEF WorkflowInv
<1>2. WorkflowTypeOK /\ [WorkflowNext]_workflowVars => WorkflowTypeOK'
  BY WorkflowTypesStep
<1> QED BY <1>1, <1>2, PTL DEF WorkflowSpec

\* When the engine ends an execution none of its commands is in flight, made by
\* a pass but not inserted yet, or open and not reported: neither by the completion
\* check after a call.done or call.error nor on a command.failed (events.py).
THEOREM EndIsQuiet == ASSUME ~DoubleReports PROVE WorkflowSpec => []FinishedQuiet
<1>1. WorkflowInv => FinishedQuiet
  BY DEF WorkflowInv
<1> QED BY <1>1, WorkflowInvHolds, PTL

\* Branches that meet, and loops back, never have two commands of one step in
\* flight (transitions.py, the check of the step in flight).
THEOREM StepsRunOnceAtATime == ASSUME ~DoubleReports PROVE WorkflowSpec => []OneCommandPerStep
<1>1. WorkflowInv => OneCommandPerStep
  <2> SUFFICES ASSUME WorkflowInv, NEW c \in Commands, NEW d \in Commands,
                      CommandInFlight(c), CommandInFlight(d), c[1] = d[1]
               PROVE  c = d
    BY DEF OneCommandPerStep
  <2>1. Outstanding(c) /\ Outstanding(d)
    BY InFlightUnanswered DEF WorkflowInv, BusyIsOutstanding
  <2> QED BY <2>1, OutstandingIsOne
<1> QED BY <1>1, WorkflowInvHolds, PTL

\* The execution ends once at most, and successfully only if no command of it
\* failed (events.py: workflow.completed or workflow.failed).
THEOREM EndIsTrue == ASSUME ~DoubleReports PROVE WorkflowSpec => []EndsOnceAndTruly
<1>1. WorkflowInv => EndsOnceAndTruly
  BY DEF WorkflowInv, RowsInv, SettledByReport, EndedOnce, EndsOnceAndTruly
<1> QED BY <1>1, WorkflowInvHolds, PTL
=============================================================================

----------------------------- MODULE MCPartsLive -----------------------------
\* Liveness of all parts but the command lifecycle, each on a small instance
\* under its own fairness: a behaviour chooses one part and runs it, the others
\* rest in their initial state.  The parts share no variable.
EXTENDS LoopCoordination, WorkflowEngine, BatchAcceptor, ExecutionEnd,
        FrameLease, AutoResume, EventMirror, ConcurrencyGate, TLC

CONSTANTS b1, e1, parent, child, A, B, v1, v2, x1, f1, r1, r2
VARIABLE part

\* The loop of this instance does not fail.
NoFault == {}

\* s starts a and b, which both lead to the terminal step j.
Arc(t) == [to |-> t, when |-> FALSE]
Playbook == ("s" :> <<Arc("a"), Arc("b")>>) @@ ("a" :> <<Arc("j")>>)
            @@ ("b" :> <<Arc("j")>>) @@ ("j" :> <<>>)

\* One batch, posted twice; a server that stops once.
BatchOf == b1 :> e1
PostsOf == b1 :> 2

ParentChild == (parent :> NoParent) @@ (child :> parent)
OncePerSlot == (A :> 1) @@ (B :> 1)
Versions    == (v1 :> 1) @@ (v2 :> 2)
Folded      == (v1 :> <<x1, f1>>) @@ (v2 :> <<x1, f1>>)

allVars == <<part, vars, workflowVars, batchVars, endVars, frameVars, resumeVars,
             mirrorVars, gateVars>>

AllInit ==
    /\ part \in {"loop", "workflow", "batch", "end", "frame", "resume", "mirror", "gate"}
    /\ Init /\ WorkflowInit /\ BatchInit /\ EndInit
    /\ FrameInit /\ ResumeInit /\ MirrorInit /\ GateInit
    /\ part # "workflow" => ~kvUp
    /\ part # "batch" => configured = Acceptors
    /\ part # "resume" => stale = {}

RestOfEngine == UNCHANGED <<frameVars, resumeVars, mirrorVars, gateVars>>
RestOfData   == UNCHANGED <<vars, workflowVars, batchVars, endVars>>

AllNext ==
    /\ UNCHANGED part
    /\ \/ /\ part = "loop" /\ Next
          /\ RestOfEngine /\ UNCHANGED <<workflowVars, batchVars, endVars>>
       \/ /\ part = "workflow" /\ WorkflowNext
          /\ RestOfEngine /\ UNCHANGED <<vars, batchVars, endVars>>
       \/ /\ part = "batch" /\ BatchNext
          /\ RestOfEngine /\ UNCHANGED <<vars, workflowVars, endVars>>
       \/ /\ part = "end" /\ EndNext
          /\ RestOfEngine /\ UNCHANGED <<vars, workflowVars, batchVars>>
       \/ /\ part = "frame" /\ FrameNext
          /\ RestOfData /\ UNCHANGED <<resumeVars, mirrorVars, gateVars>>
       \/ /\ part = "resume" /\ ResumeNext
          /\ RestOfData /\ UNCHANGED <<frameVars, mirrorVars, gateVars>>
       \/ /\ part = "mirror" /\ MirrorNext
          /\ RestOfData /\ UNCHANGED <<frameVars, resumeVars, gateVars>>
       \/ /\ part = "gate" /\ GateNext
          /\ RestOfData /\ UNCHANGED <<frameVars, resumeVars, mirrorVars>>

\* Fairness is that of the part that runs.  Batches, ends and mirror have no fair
\* action that is enabled while they rest; the fairness of the others, as their
\* modules state it, is repeated under the condition that they run.
LoopRuns == part = "loop"
WorkflowRuns == part = "workflow"
FrameRuns == part = "frame"
ResumeRuns == part = "resume"
GateRuns == part = "gate"

LoopFairness ==
    /\ WF_vars(LoopRuns /\ Enter) /\ WF_vars(LoopRuns /\ PassStep)
    /\ WF_vars(LoopRuns /\ \E i \in Idx : Begin(i))
    /\ \A i \in Idx : WF_vars(LoopRuns /\ Issue(i)) /\ WF_vars(LoopRuns /\ Finish(i))

PlaybookFairness ==
    /\ \A d \in Commands :
        /\ WF_workflowVars(WorkflowRuns
                           /\ \E n \in Results : ReportedAs(d) = {} /\ ReportBatch(d, n))
        /\ WF_workflowVars(WorkflowRuns /\ d \in supervised /\ FailRow(d))
        /\ WF_workflowVars(WorkflowRuns /\ FailedPass(d))
        /\ WF_workflowVars(WorkflowRuns /\ InsertRow(d))
    /\ \A d \in Commands, n \in Results : WF_workflowVars(WorkflowRuns /\ EnginePass(d, n))

StageFairness ==
    /\ \A w \in Workers :
        /\ WF_frameVars(FrameRuns /\ (TakeRows(w) \/ ClaimStep(w)))
        /\ WF_frameVars(FrameRuns /\ CommitFrame(w))
        /\ WF_frameVars(FrameRuns /\ (NextFrame(w) \/ Break(w)))
    /\ WF_frameVars(FrameRuns /\ CloseStage)

RecoveryFairness ==
    /\ \A i \in Instances : WF_resumeVars(ResumeRuns /\ ResumeStep(i))
    /\ WF_resumeVars(ResumeRuns /\ TimePasses)

WaitersFairness ==
    /\ WF_gateVars(GateRuns /\ BackoffEnds)
    /\ \A r \in Requests :
        /\ SF_gateVars(GateRuns /\ Acquire(r)) /\ WF_gateVars(GateRuns /\ Pause(r))
        /\ WF_gateVars(GateRuns /\ Sent(r)
                       /\ (Succeed(r) \/ Overload(r) \/ Fail(r) \/ Leave(r)))

LiveSpec == AllInit /\ [][AllNext]_allVars 
            /\ BatchFairness /\ EndFairness /\ MirrorFairness
            /\ LoopFairness /\ PlaybookFairness /\ StageFairness
            /\ RecoveryFairness /\ WaitersFairness

-----------------------------------------------------------------------------
(* Properties: those of the parts, each about the part that runs.             *)

\* EventuallyComplete: a loop that was entered is routed in the end and every
\* item of it is executed, when nothing fails.
LoopCompletes == part = "loop" => EventuallyComplete

\* EventuallyFinished: an execution ends after the last report, unless a command
\* is given up.
WorkflowFinishes == part = "workflow" => EventuallyFinished

\* EventuallySettledRequest: an accepted batch is settled unless it was lost.
BatchesSettle == part = "batch" => EventuallySettledRequest

\* EndedComesToRest: commands that wait in an ended execution are refused, the
\* last ones of it.
EndedRests == part = "end" => EndedComesToRest

\* EventuallyClosed: the stage of a cursor loop closes.
StageCloses == part = "frame" => EventuallyClosed

\* EventuallyResumed: every instance gets the lease and ends its recovery.
RecoveryEnds == part = "resume" => EventuallyResumed

\* EventuallyShown: an event reaches the records it is folded into.
EventsShow == part = "mirror" => EventuallyShown

\* EventuallyOut: no request waits at the gate for ever.
RequestsEnd == part = "gate" => EventuallyOut
=============================================================================

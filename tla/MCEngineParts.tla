---------------------------- MODULE MCEngineParts ----------------------------
\* The parts of the server that drive an execution, each on a small instance:
\* a behaviour chooses one part and runs it, the others rest in a fixed initial
\* state.  The parts share no variable, so that each is checked by itself.
EXTENDS WorkflowEngine, BatchAcceptor, PendingCommands, ExecutionEnd, TLC

CONSTANTS b1, b2, b3, e1, e2, parent, child, c1, c2, m1, m2
VARIABLE part

\* A playbook: s starts a always and j on a condition (inclusive), a leads to j,
\* and j back to a on a condition.
Arc(t, w) == [to |-> t, when |-> w]
Playbook ==
    ("s" :> <<Arc("a", FALSE), Arc("j", TRUE)>>) @@ ("a" :> <<Arc("j", FALSE)>>)
    @@ ("j" :> <<Arc("a", TRUE)>>)

\* A playbook whose entry step is its terminal step.
OneStep == "s" :> <<>>

\* Two batches of one execution, the first of them posted twice, and one of
\* another execution; or the first two only.
BatchOf  == (b1 :> e1) @@ (b2 :> e1) @@ (b3 :> e2)
PostsOf  == (b1 :> 2) @@ (b2 :> 1) @@ (b3 :> 1)
TwoOf    == (b1 :> e1) @@ (b2 :> e1)
PostsOfTwo == (b1 :> 2) @@ (b2 :> 1)

ParentChild == (parent :> NoParent) @@ (child :> parent)

\* Two terminal events of one command, one of the other.
TwiceMarked == (c1 :> {m1, m2}) @@ (c2 :> {m1})

\* Acceptor tasks are alike.
Alike == Permutations(Acceptors)

Init ==
    /\ part \in {"workflow", "batch", "pending", "end"}
    /\ WorkflowInit /\ BatchInit /\ PendingInit /\ EndInit
    /\ part # "workflow" => ~kvUp
    /\ part # "batch" => configured = Acceptors

Next ==
    /\ UNCHANGED part
    /\ \/ /\ part = "workflow" /\ WorkflowNext
          /\ UNCHANGED <<batchVars, pendingVars, endVars>>
       \/ /\ part = "batch" /\ BatchNext
          /\ UNCHANGED <<workflowVars, pendingVars, endVars>>
       \/ /\ part = "pending" /\ PendingNext
          /\ UNCHANGED <<workflowVars, batchVars, endVars>>
       \/ /\ part = "end" /\ EndNext
          /\ UNCHANGED <<workflowVars, batchVars, pendingVars>>

engineVars == <<part, workflowVars, batchVars, pendingVars, endVars>>
Spec == Init /\ [][Next]_engineVars

\* The variables of each part keep their types.
EngineTypeOK == WorkflowTypeOK /\ BatchTypeOK /\ PendingTypeOK /\ EndTypeOK

\* Only the acceptor; only the transitions, with their fairness.
BatchAlone    == Init /\ part = "batch" /\ [][Next]_engineVars
WorkflowAlone == Init /\ part = "workflow" /\ [][Next]_engineVars /\ WorkflowFairness
=============================================================================

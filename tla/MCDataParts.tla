----------------------------- MODULE MCDataParts -----------------------------
\* The parts around the engine, each on a small instance: frames of cursor loops,
\* recovery at start-up, the way of events into projections, the gate of a
\* worker.  A behaviour chooses one part and runs it, the others rest in their
\* initial state.  The parts share no variable, so that each is checked by
\* itself.
EXTENDS FrameLease, AutoResume, EventMirror, ConcurrencyGate, TLC

CONSTANTS A, B, v1, v2, x1, f1, r1, r2, r3
VARIABLE part

\* The command of slot A is executed again.
Executed == (A :> 2) @@ (B :> 1)

\* Two events, both about the execution x1 and its frame f1.
Versions == (v1 :> 1) @@ (v2 :> 2)
Folded   == (v1 :> <<x1, f1>>) @@ (v2 :> <<x1, f1>>)

Init ==
    /\ part \in {"frame", "resume", "mirror", "gate"}
    /\ FrameInit /\ ResumeInit /\ MirrorInit /\ GateInit
    /\ part # "resume" => stale = {}

Next ==
    /\ UNCHANGED part
    /\ \/ /\ part = "frame" /\ FrameNext
          /\ UNCHANGED <<resumeVars, mirrorVars, gateVars>>
       \/ /\ part = "resume" /\ ResumeNext
          /\ UNCHANGED <<frameVars, mirrorVars, gateVars>>
       \/ /\ part = "mirror" /\ MirrorNext
          /\ UNCHANGED <<frameVars, resumeVars, gateVars>>
       \/ /\ part = "gate" /\ GateNext
          /\ UNCHANGED <<frameVars, resumeVars, mirrorVars>>

dataVars == <<part, frameVars, resumeVars, mirrorVars, gateVars>>
Spec == Init /\ [][Next]_dataVars

\* The variables of each part keep their types.
DataTypeOK == FrameTypeOK /\ ResumeTypeOK /\ MirrorTypeOK /\ GateTypeOK

\* Only the mirror, with its fairness.
MirrorAlone == Init /\ part = "mirror" /\ [][Next]_dataVars /\ MirrorFairness
=============================================================================

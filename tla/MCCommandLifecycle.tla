------------------------- MODULE MCCommandLifecycle -------------------------
\* Instances of CommandLifecycle for TLC.  Ages are small numbers: the
\* reaper's retry lies below the lease, and the hard timeout at its least value,
\* the lease, so that a healthy owner can lose its claim as well.
EXTENDS CommandLifecycle, TLC

CONSTANTS w1, w2, t1, t2, c1, c2, s1, s2

\* One task per worker process: two processes race for a command.
OnePerWorker == (t1 :> w1) @@ (t2 :> w2)

\* The two processes are alike, each with its task, and so are the replicas.
AlikeProcesses ==
    {f @@ g : f \in {f \in Permutations({w1, w2, t1, t2}) :
                        \A t \in {t1, t2} : /\ f[t] \in {t1, t2}
                                            /\ f[OnePerWorker[t]] = OnePerWorker[f[t]]},
              g \in Permutations({s1, s2})}

\* Behaviours in which nobody ends the execution; the others settle every
\* command by definition of EventuallySettled.  Both workers have registered.
LiveInit ==
    /\ row = [c \in Commands |-> NoRow]
    /\ ended = FALSE
    /\ runtime = [w \in Workers |-> [status |-> "ready", hb |-> 0]]
    /\ cache = [s \in Servers |-> [c \in Commands |-> None]]
    /\ unpublished = [s \in Servers |-> {}]
    /\ recovery = [s \in Servers |-> {}]
    /\ queue = [c \in Commands |-> 0]
    /\ late = {}
    /\ req = [t \in Tasks |-> NoReq]
    /\ task = [t \in Tasks |-> NoTask]
    /\ recent = [w \in Workers |-> {}]
    /\ up = [w \in Workers |-> "up"]
    /\ faults = 0
LiveSpec == LiveInit /\ [][Next /\ UNCHANGED ended]_vars /\ Fairness
=============================================================================

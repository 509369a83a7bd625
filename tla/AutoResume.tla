---- MODULE AutoResume ----
(***************************************************************************)
(* Recovery of interrupted executions when a server starts                 *)
(* (server/auto_resume.py), under a lease kept in a row of noetl.runtime   *)
(* (server/runtime_leases.py, the loops in server/app.py).  Each instance  *)
(* tries until it has been given the lease once, recovers, and is done;    *)
(* it does not renew the lease while it recovers.                          *)
(***************************************************************************)
EXTENDS Naturals, FiniteSets

CONSTANTS Instances,     \* server instances, by instance_name
          Interrupted,   \* parent executions
          LeaseTime,     \* lease_seconds, in ticks
          MaxCandidates, \* _AUTO_RESUME_MAX_CANDIDATES
          RestartMode,   \* _AUTO_RESUME_MODE = restart
          NoInstance     \* no lease row yet

ASSUME ResumeAssumption ==
    /\ LeaseTime \in Nat \ {0}
    /\ MaxCandidates \in Nat \ {0}
    /\ RestartMode \in BOOLEAN
    /\ NoInstance \notin Instances

VARIABLES
    lease,      \* owner_instance and age of heartbeat of the lease row
    instance,   \* the auto-resume task of each instance
    execution,  \* terminal event of each execution, or "running"
    stale,      \* executions that _should_recover_candidate would take
    recent,     \* executions within the look-back window
    replaced,   \* history: replacements started for each execution
    unrecorded, \* history: those of them that no cancellation followed, because the
                \* restart or the write failed half-way or the server stopped
    overran     \* history: an instance was at work for longer than its lease

resumeVars == <<lease, instance, execution, stale, recent, replaced, unrecorded, overran>>

\* since: ticks since the lease was given; todo: candidates not yet looked at,
\* takes: the stale ones among them; now: the one being recovered; count: the
\* executions recovered.
Waiting == [pc |-> "acquire", since |-> 0, todo |-> {}, takes |-> {}, now |-> {}, count |-> 0]
Working == {"ready", "list", "pick", "check", "restart", "issue", "cancel"}

ResumeInit ==
    /\ lease = [owner |-> NoInstance, age |-> 0]
    /\ instance = [i \in Instances |-> Waiting]
    /\ execution = [e \in Interrupted |-> "running"]
    /\ stale \in SUBSET Interrupted
    /\ recent = Interrupted
    /\ replaced = [e \in Interrupted |-> 0]
    /\ unrecorded = [e \in Interrupted |-> 0]
    /\ overran = FALSE

ResumeAt(i, p) == [instance EXCEPT ![i].pc = p]
\* Mutant: an instance that has recovered names itself released.
FinishedReleased(i) == [instance EXCEPT ![i] = [Waiting EXCEPT !.pc = "released"]]

Finished(i) == [instance EXCEPT ![i] = [Waiting EXCEPT !.pc = "done"]]
OverLease == LeaseTime + 1

----
(* The lease. *)

\* Mutant: the lease is over one tick early.
GrantableEarly(i) == lease.owner \in {NoInstance, i} \/ lease.age >= LeaseTime

\* Mutant: a lease never runs out.
GrantableOnce(i) == lease.owner \in {NoInstance, i}

\* INSERT ... ON CONFLICT DO UPDATE: the row is absent, expired, or one's own.
Grantable(i) == lease.owner \in {NoInstance, i} \/ lease.age > LeaseTime

AcquireLease(i) ==
    /\ instance[i].pc = "acquire"
    /\ Grantable(i)
    /\ lease' = [owner |-> i, age |-> 0]
    /\ instance' = [instance EXCEPT ![i].pc = "ready", ![i].since = 0]
    /\ UNCHANGED <<execution, stale, recent, replaced, unrecorded, overran>>

\* release marks the row offline; neither owner nor heartbeat changes, so that
\* the next instance waits for the lease to run out.  A failure is only logged.
ReleaseLease(i) ==
    /\ instance[i].pc = "release"
    /\ instance' = Finished(i)
    /\ UNCHANGED <<lease, execution, stale, recent, replaced, unrecorded, overran>>

----
(* The recovery. *)

\* Start-up delay and up to MAX_ATTEMPTS polls; without PostgreSQL, NATS or
\* workers the recovery is skipped for good.
DependenciesReady(i) ==
    /\ instance[i].pc = "ready"
    /\ \E p \in {"list", "release"} : instance' = ResumeAt(i, p)
    /\ UNCHANGED <<lease, execution, stale, recent, replaced, unrecorded, overran>>

\* One query for the candidates; their age is judged on what it returned.
ListCandidates(i) ==
    /\ instance[i].pc = "list"
    /\ LET C == {e \in recent : execution[e] = "running"}
       IN instance' = [instance EXCEPT ![i].pc = "pick", ![i].todo = C,
                                       ![i].takes = C \cap stale]
    /\ UNCHANGED <<lease, execution, stale, recent, replaced, unrecorded, overran>>

PickCandidate(i) ==
    /\ instance[i].pc = "pick"
    /\ IF instance[i].todo = {} \/ instance[i].count >= MaxCandidates
       THEN instance' = ResumeAt(i, "release")
       ELSE \E e \in instance[i].todo :
              instance' = [instance EXCEPT ![i].todo = @ \ {e},
                             ![i].pc = IF e \in instance[i].takes THEN "check" ELSE "pick",
                             ![i].now = IF e \in instance[i].takes THEN {e} ELSE {}]
    /\ UNCHANGED <<lease, execution, stale, recent, replaced, unrecorded, overran>>

Back(i) == [instance EXCEPT ![i].pc = "pick", ![i].now = {}]
Candidate(i) == CHOOSE e \in instance[i].now : TRUE

\* get_execution_status: a fresh look, in a transaction of its own.
CheckStatus(i) ==
    /\ instance[i].pc = "check"
    /\ instance' = IF execution[Candidate(i)] # "running" THEN Back(i)
                   ELSE ResumeAt(i, IF RestartMode THEN "restart" ELSE "cancel")
    /\ UNCHANGED <<lease, execution, stale, recent, replaced, unrecorded, overran>>

\* An exception of one of these two queries ends the recovery of this instance.
QueryFails(i) ==
    /\ instance[i].pc \in {"list", "check"}
    /\ instance' = ResumeAt(i, "release")
    /\ UNCHANGED <<lease, execution, stale, recent, replaced, unrecorded, overran>>

\* The replacement has been started, and the old execution is not cancelled yet.
UnderWay(t) == RestartMode /\ t.pc \in {"issue", "cancel"}

\* A replacement of the candidate is left without a cancellation.
LeftUnrecorded(i) ==
    [e \in Interrupted |-> IF e \in instance[i].now THEN unrecorded[e] + 1 ELSE unrecorded[e]]

\* _restart_execution calls execute().  First start_execution commits the new
\* execution, its playbook and its workflow, or fails before it has.
StartReplacement(i) ==
    /\ instance[i].pc = "restart"
    /\ \/ /\ replaced' = [replaced EXCEPT ![Candidate(i)] = @ + 1]
          /\ instance' = ResumeAt(i, "issue")
       \/ /\ instance' = Back(i)
          /\ UNCHANGED replaced
    /\ UNCHANGED <<lease, execution, stale, recent, unrecorded, overran>>

\* Mutant: the execution that was replaced is not cancelled.
RestartOnly(i) ==
    /\ instance[i].pc = "issue"
    /\ instance' = [Back(i) EXCEPT ![i].count = @ + 1]
    /\ UNCHANGED <<lease, execution, stale, recent, replaced, unrecorded, overran>>

\* Then its first commands are inserted in another transaction.  If that fails,
\* the restart counts as failed and the old execution is left as it is, although
\* the new one was started.
IssueReplacement(i) ==
    /\ instance[i].pc = "issue"
    /\ \/ /\ instance' = [instance EXCEPT ![i].pc = "cancel", ![i].count = @ + 1]
          /\ UNCHANGED unrecorded
       \/ instance' = Back(i) /\ unrecorded' = LeftUnrecorded(i)
    /\ UNCHANGED <<lease, execution, stale, recent, replaced, overran>>

\* mark_execution_cancelled appends its event whatever the execution has become;
\* its failure is not looked at in restart mode.
CancelExecution(i) ==
    /\ instance[i].pc = "cancel"
    /\ LET e == Candidate(i)
       IN \/ /\ execution' = [execution EXCEPT ![e] = IF @ = "running" THEN "cancelled" ELSE @]
             /\ instance' = [Back(i) EXCEPT ![i].count = IF RestartMode THEN @ ELSE @ + 1]
             /\ UNCHANGED unrecorded
          \/ /\ instance' = Back(i)
             /\ unrecorded' = IF RestartMode THEN LeftUnrecorded(i) ELSE unrecorded
             /\ UNCHANGED execution
    /\ UNCHANGED <<lease, stale, recent, replaced, overran>>

----
(* The surroundings. *)

\* The server stops: the task is cancelled wherever it waits.
StopServer(i) ==
    /\ instance[i].pc \notin {"done", "stopped"}
    /\ instance' = [instance EXCEPT ![i] = [Waiting EXCEPT !.pc = "stopped"]]
    /\ unrecorded' = IF UnderWay(instance[i]) THEN LeftUnrecorded(i) ELSE unrecorded
    /\ UNCHANGED <<lease, execution, stale, recent, replaced, overran>>

\* An execution is not really interrupted: it goes on, or ends.
ExecutionActive(e) ==
    /\ execution[e] = "running"
    /\ \/ stale' = stale \ {e} /\ UNCHANGED execution
       \/ execution' = [execution EXCEPT ![e] = "ended"] /\ UNCHANGED stale
    /\ UNCHANGED <<lease, instance, recent, replaced, unrecorded, overran>>

\* An instance has been at work for longer than its lease.
Overran(t) == t.pc \in Working /\ t.since > LeaseTime

TimePasses ==
    /\ lease' = [lease EXCEPT !.age = IF @ < OverLease THEN @ + 1 ELSE @]
    /\ instance' = [i \in Instances |->
          IF instance[i].pc \in Working
          THEN [instance[i] EXCEPT !.since = IF @ < OverLease THEN @ + 1 ELSE @]
          ELSE instance[i]]
    /\ stale' \in {S \in SUBSET Interrupted : stale \subseteq S}
    /\ recent' \in SUBSET recent
    /\ overran' = (overran \/ \E i \in Instances : Overran(instance'[i]))
    /\ UNCHANGED <<execution, replaced, unrecorded>>

ResumeStep(i) ==
    \/ AcquireLease(i) \/ ReleaseLease(i) \/ DependenciesReady(i) \/ ListCandidates(i)
    \/ PickCandidate(i) \/ CheckStatus(i) \/ QueryFails(i)
    \/ StartReplacement(i) \/ IssueReplacement(i) \/ CancelExecution(i)

ResumeNext ==
    \/ \E i \in Instances : ResumeStep(i) \/ StopServer(i)
    \/ \E e \in Interrupted : ExecutionActive(e)
    \/ TimePasses

ResumeSpec == ResumeInit /\ [][ResumeNext]_resumeVars

\* The tasks run, and so does the clock.
ResumeFairness ==
    /\ \A i \in Instances : WF_resumeVars(ResumeStep(i))
    /\ WF_resumeVars(TimePasses)

----
(* Properties. *)

ResumeTypeOK ==
    /\ lease \in [owner : Instances \cup {NoInstance}, age : 0..OverLease]
    /\ instance \in [Instances ->
          [pc : Working \cup {"acquire", "release", "done", "stopped"},
           since : 0..OverLease, todo : SUBSET Interrupted, takes : SUBSET Interrupted,
           now : SUBSET Interrupted, count : 0..MaxCandidates]]
    /\ execution \in [Interrupted -> {"running", "ended", "cancelled"}]
    /\ stale \subseteq Interrupted /\ recent \subseteq Interrupted
    /\ replaced \in [Interrupted -> Nat]
    /\ unrecorded \in [Interrupted -> Nat]
    /\ overran \in BOOLEAN

\* Two instances recover at a time only if one of them overran its lease, which
\* nothing renews: the start-up delay and the wait for dependencies count.
OneRecoversAtATime ==
    \A i, j \in Instances :
        instance[i].pc \in Working /\ instance[j].pc \in Working /\ i # j
        => Overran(instance[i]) \/ Overran(instance[j])

\* An instance within its lease owns the lease row.
FreshWorkerOwnsLease ==
    \A i \in Instances : instance[i].pc \in Working /\ ~Overran(instance[i]) =>
        lease.owner = i /\ lease.age <= instance[i].since

\* As long as no instance overruns its lease, an execution is replaced once more
\* only after a replacement that no cancellation followed, however instances follow
\* each other: nothing but the cancelled event of the first recovery keeps the next
\* one from starting the same work again, and that event is missing whenever the
\* restart failed after it had committed the new execution (_restart_execution
\* returns None), the write failed, or the server stopped in between.
ReplacedOnce ==
    ~overran => \A e \in Interrupted : replaced[e] <= unrecorded[e] + 1

\* Once an instance has been given the lease, the task of every instance ends: the
\* lease of one that stopped or is done does not keep the others waiting.
EventuallyResumed ==
    \A i \in Instances :
        (lease.owner # NoInstance) ~> (instance[i].pc \in {"done", "stopped"})
====

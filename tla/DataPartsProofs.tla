-------------------------- MODULE DataPartsProofs --------------------------
(***************************************************************************)
(* The parts around the engine, together: what holds of the gate of a      *)
(* worker and of the recovery at start-up, each for any instance, and that *)
(* a behaviour of the parts side by side is a behaviour of every one of    *)
(* them.                                                                   *)
(***************************************************************************)
EXTENDS MCDataParts, FrameLeaseProofs, EventMirrorProofs, FiniteSetTheorems, TLAPS

(* The gate of a worker.                                                   *)
(*                                                                         *)
(* For any requests, limits and numbers of attempts: its counter is the    *)
(* number of requests that hold a slot, and they are at most as many as    *)
(* the maximum admits.                                                     *)

Holding == {r \in Requests : at[r] = "sent"}

Places == {"waiting", "sent", "answered", "pausing", "out"}

\* The counter fits the slots that are held, and those fit the maximum.
Balanced ==
    /\ active = Cardinality(Holding)
    /\ 10 * active <= MaxLimit

\* An attempt that holds a slot has not given it back; an answered one has.
ReleasedRight ==
    \A r \in Requests : /\ at[r] = "sent" => ~released[r]
                        /\ at[r] = "answered" => released[r]

GateInv == GateTypeOK /\ Balanced /\ ReleasedRight

-----------------------------------------------------------------------------
\* The slots that are held form a finite set, of a size the type allows.
LEMMA HoldingFinite ==
    /\ IsFiniteSet(Holding)
    /\ Cardinality(Holding) \in 0..Cardinality(Requests)
<1>1. Holding \in SUBSET Requests  BY DEF Holding
<1>2. IsFiniteSet(Requests)  BY GateAssumption
<1>3. IsFiniteSet(Holding) /\ Cardinality(Holding) <= Cardinality(Requests)
  BY <1>1, <1>2, FS_Subset
<1>4. Cardinality(Holding) \in Nat /\ Cardinality(Requests) \in Nat
  BY <1>2, <1>3, FS_CardinalityType
<1> QED  BY <1>3, <1>4

\* Fewer slots fit under the same maximum.
LEMMA FewerFit ==
    ASSUME NEW m \in Nat, NEW n \in Nat, NEW top \in Nat, n <= m, 10 * m <= top
    PROVE  10 * n <= top
OBVIOUS

\* A request that goes elsewhere gives its slot back if it holds one.
LEMMA LeavesSlot ==
    ASSUME NEW r \in Requests, NEW x \in Places \ {"sent"},
           GateTypeOK, Balanced, at' = [at EXCEPT ![r] = x],
           IF at[r] = "sent" THEN GiveSlotBack ELSE UNCHANGED active
    PROVE  Balanced' /\ active' \in 0..Cardinality(Requests)
<1>1. at \in [Requests -> Places]  BY DEF GateTypeOK, Places
<1>2. Holding' = Holding \ {r}  BY <1>1 DEF Holding, Places
<1>3. /\ IsFiniteSet(Holding) /\ active \in 0..Cardinality(Requests)
      /\ Cardinality(Requests) \in Nat
  BY HoldingFinite, GateAssumption, FS_CardinalityType DEF Balanced
<1>4. Cardinality(Holding \ {r}) = IF r \in Holding THEN active - 1 ELSE active
  BY <1>3, FS_RemoveElement DEF Balanced
<1>5. r \in Holding => active # 0
  BY <1>3, FS_EmptySet DEF Balanced
<1>6. active' = Cardinality(Holding \ {r})
  BY <1>3, <1>4, <1>5 DEF GiveSlotBack, Holding
<1>7. active' \in 0..active
  BY <1>3, <1>4, <1>5, <1>6
<1>8. 10 * active' <= MaxLimit
  <2>1. active \in Nat /\ active' \in Nat /\ active' <= active  BY <1>3, <1>7
  <2>2. 10 * active <= MaxLimit  BY DEF Balanced
  <2>3. MaxLimit \in Nat  BY GateAssumption
  <2> QED  BY <2>1, <2>2, <2>3, FewerFit
<1> QED  BY <1>2, <1>3, <1>6, <1>7, <1>8 DEF Balanced

\* A request that enters adds one to both counts, below the limit.
LEMMA TakesSlot ==
    ASSUME NEW r \in Requests, GateTypeOK, Balanced, Acquire(r)
    PROVE  Balanced' /\ active' \in 0..Cardinality(Requests)
<1>1. at \in [Requests -> Places]  BY DEF GateTypeOK, Places
<1>2. Holding' = Holding \cup {r}  BY <1>1 DEF Holding, Acquire, Places
<1>3. r \notin Holding  BY DEF Holding, Acquire
<1>4. IsFiniteSet(Holding) /\ active \in Nat
  BY HoldingFinite, FS_CardinalityType DEF Balanced
<1>5. Cardinality(Holding \cup {r}) = active + 1
  BY <1>3, <1>4, FS_AddElement DEF Balanced
<1>6. Holding \cup {r} \in SUBSET Requests  BY DEF Holding
<1>7. /\ Cardinality(Holding \cup {r}) <= Cardinality(Requests)
      /\ Cardinality(Requests) \in Nat
  BY <1>6, GateAssumption, FS_Subset, FS_CardinalityType
<1>8. active' = active + 1 /\ active < limit \div 10  BY DEF Acquire
<1>9. limit \in Nat /\ limit <= MaxLimit /\ MaxLimit \in Nat
  BY GateAssumption DEF GateTypeOK
<1>10. 10 * active' <= MaxLimit
  BY <1>4, <1>8, <1>9
<1> QED  BY <1>2, <1>4, <1>5, <1>7, <1>8, <1>10 DEF Balanced

\* A request that does not move leaves the counter as it is.
LEMMA StaysBalanced ==
    ASSUME Balanced, UNCHANGED <<active, at>>
    PROVE  Balanced'
BY DEF Balanced, Holding

\* The updates of the limit stay within their bounds.
LEMMA LimitBounds ==
    ASSUME GateTypeOK
    PROVE  /\ AtMost(MaxLimit, limit + 1) \in MinLimit..MaxLimit
           /\ AtMost(MaxLimit, limit + 2) \in MinLimit..MaxLimit
           /\ AtLeast(MinLimit, limit \div 2) \in MinLimit..MaxLimit
           /\ AtLeast(MinLimit, (3 * limit) \div 4) \in MinLimit..MaxLimit
<1>1. /\ limit \in Nat /\ MinLimit \in Nat /\ MaxLimit \in Nat
      /\ MinLimit <= limit /\ limit <= MaxLimit
  BY GateAssumption DEF GateTypeOK
<1>2. /\ limit \div 2 \in Nat /\ limit \div 2 <= limit
      /\ (3 * limit) \div 4 \in Nat /\ (3 * limit) \div 4 <= limit
  BY <1>1
<1>3. /\ AtMost(MaxLimit, limit + 1) \in MinLimit..MaxLimit
      /\ AtMost(MaxLimit, limit + 2) \in MinLimit..MaxLimit
  BY <1>1 DEF AtMost
<1>4. /\ AtLeast(MinLimit, limit \div 2) \in MinLimit..MaxLimit
      /\ AtLeast(MinLimit, (3 * limit) \div 4) \in MinLimit..MaxLimit
  BY <1>1, <1>2 DEF AtLeast
<1> QED  BY <1>3, <1>4

\* The next attempt, or the end of the request.
LEMMA TriesAgain ==
    ASSUME NEW r \in Requests, NEW next \in {"pausing", "waiting"}, GateTypeOK,
           TryAgain(r, next)
    PROVE  /\ \E x \in {"pausing", "waiting", "out"} : at' = [at EXCEPT ![r] = x]
           /\ tries' \in [Requests -> 1..MaxTries]
<1>1. tries \in [Requests -> 1..MaxTries] /\ MaxTries \in Nat
  BY GateAssumption DEF GateTypeOK
<1>2. CASE tries[r] < MaxTries
  <2>1. tries[r] + 1 \in 1..MaxTries  BY <1>1, <1>2
  <2>2. /\ tries' = [tries EXCEPT ![r] = tries[r] + 1]
        /\ at' = [at EXCEPT ![r] = next]
    BY <1>2 DEF TryAgain
  <2> QED  BY <1>1, <2>1, <2>2
<1>3. CASE ~(tries[r] < MaxTries)
  BY <1>1, <1>3 DEF TryAgain
<1> QED  BY <1>2, <1>3

-----------------------------------------------------------------------------
\* Every request begins outside.
LEMMA GateInitInv == GateInit => GateInv
<1> SUFFICES ASSUME GateInit PROVE GateInv  OBVIOUS
<1>1. Holding = {}  BY DEF GateInit, Holding
<1>2. Cardinality(Holding) = 0  BY <1>1, FS_EmptySet
<1>3. Balanced  BY <1>2, GateAssumption DEF Balanced, GateInit
<1>4. limit \in MinLimit..MaxLimit
  BY GateAssumption DEF GateInit, AtLeast
<1>5. active \in 0..Cardinality(Requests)
  BY GateAssumption, FS_CardinalityType DEF GateInit
<1>6. GateTypeOK
  <2>1. 1 \in 1..MaxTries  BY GateAssumption
  <2> QED  BY <1>4, <1>5, <2>1 DEF GateTypeOK, GateInit
<1>7. ReleasedRight  BY DEF ReleasedRight, GateInit
<1> QED  BY <1>3, <1>6, <1>7 DEF GateInv

\* One step per action; what each does to the slot is in the lemmas above.
LEMMA GateStepInv ==
    ASSUME GateInv, [GateNext]_gateVars
    PROVE  GateInv'
<1> USE DEF GateInv
<1>0. /\ at \in [Requests -> Places] /\ released \in [Requests -> BOOLEAN]
      /\ limit \in MinLimit..MaxLimit /\ backoff \in BOOLEAN
      /\ tries \in [Requests -> 1..MaxTries]
      /\ active \in 0..Cardinality(Requests)
  BY DEF GateTypeOK, Places
<1>1. ASSUME NEW r \in Requests, Acquire(r) PROVE GateInv'
  <2>1. Balanced' /\ active' \in 0..Cardinality(Requests)  BY <1>1, TakesSlot
  <2>2. GateTypeOK'  BY <1>0, <1>1, <2>1 DEF Acquire, GateTypeOK, Places
  <2>3. ReleasedRight'  BY <1>0, <1>1 DEF Acquire, ReleasedRight
  <2> QED  BY <2>1, <2>2, <2>3
<1>2. ASSUME NEW r \in Requests, Succeed(r) PROVE GateInv'
  <2>1. Balanced' /\ active' \in 0..Cardinality(Requests)
    BY <1>2, LeavesSlot DEF Succeed, Places
  <2>2. limit' \in MinLimit..MaxLimit  BY <1>2, LimitBounds DEF Succeed
  <2>3. GateTypeOK'  BY <1>0, <1>2, <2>1, <2>2 DEF Succeed, GateTypeOK, Places
  <2>4. ReleasedRight'  BY <1>0, <1>2 DEF Succeed, ReleasedRight
  <2> QED  BY <2>1, <2>3, <2>4
<1>3. ASSUME NEW r \in Requests, Overload(r) PROVE GateInv'
  <2>1. PICK x \in {"pausing", "waiting", "out"} : at' = [at EXCEPT ![r] = x]
    BY <1>3, TriesAgain DEF Overload
  <2>2. tries' \in [Requests -> 1..MaxTries]  BY <1>3, TriesAgain DEF Overload
  <2>3. Balanced' /\ active' \in 0..Cardinality(Requests)
    BY <1>3, <2>1, LeavesSlot DEF Overload, Places
  <2>4. limit' \in MinLimit..MaxLimit  BY <1>3, LimitBounds DEF Overload
  <2>5. GateTypeOK'
    BY <1>0, <1>3, <2>1, <2>2, <2>3, <2>4 DEF Overload, GateTypeOK, Places
  <2>6. ReleasedRight'  BY <1>0, <1>3, <2>1 DEF Overload, ReleasedRight
  <2> QED  BY <2>3, <2>5, <2>6
<1>4. ASSUME NEW r \in Requests, Fail(r) PROVE GateInv'
  <2>1. PICK x \in {"pausing", "waiting", "out"} : at' = [at EXCEPT ![r] = x]
    BY <1>4, TriesAgain DEF Fail
  <2>2. tries' \in [Requests -> 1..MaxTries]  BY <1>4, TriesAgain DEF Fail
  <2>3. IF at[r] = "sent" THEN GiveSlotBack ELSE UNCHANGED active
    BY <1>4 DEF Fail, ReleaseUnlessDone, ReleasedRight
  <2>4. Balanced' /\ active' \in 0..Cardinality(Requests)
    BY <2>1, <2>3, LeavesSlot DEF Places
  <2>5. GateTypeOK'  BY <1>0, <1>4, <2>1, <2>2, <2>4 DEF Fail, GateTypeOK, Places
  <2>6. ReleasedRight'  BY <1>0, <1>4, <2>1 DEF Fail, ReleasedRight
  <2> QED  BY <2>4, <2>5, <2>6
<1>5. ASSUME NEW r \in Requests, Leave(r) PROVE GateInv'
  <2>1. IF at[r] = "sent" THEN GiveSlotBack ELSE UNCHANGED active
    BY <1>5 DEF Leave, ReleaseUnlessDone, ReleasedRight
  <2>2. Balanced' /\ active' \in 0..Cardinality(Requests)
    BY <1>5, <2>1, LeavesSlot DEF Leave, Places
  <2>3. GateTypeOK'  BY <1>0, <1>5, <2>2 DEF Leave, GateTypeOK, Places
  <2>4. ReleasedRight'  BY <1>0, <1>5 DEF Leave, ReleasedRight
  <2> QED  BY <2>2, <2>3, <2>4
<1>6. ASSUME NEW r \in Requests, Pause(r) PROVE GateInv'
  <2>1. Balanced' /\ active' \in 0..Cardinality(Requests)
    BY <1>6, LeavesSlot DEF Pause, Places
  <2>2. GateTypeOK'  BY <1>0, <1>6, <2>1 DEF Pause, GateTypeOK, Places
  <2>3. ReleasedRight'  BY <1>0, <1>6 DEF Pause, ReleasedRight
  <2> QED  BY <2>1, <2>2, <2>3
<1>7. ASSUME BackoffEnds \/ ProbePressure \/ ProbeHealthy \/ UNCHANGED gateVars
      PROVE GateInv'
  <2>1. UNCHANGED <<active, at, tries, released>>
    BY <1>7 DEF BackoffEnds, ProbePressure, ProbeHealthy, gateVars
  <2>2. limit' \in MinLimit..MaxLimit /\ backoff' \in BOOLEAN
    BY <1>0, <1>7, LimitBounds DEF BackoffEnds, ProbePressure, ProbeHealthy, gateVars
  <2>3. Balanced'  BY <2>1, StaysBalanced
  <2>4. GateTypeOK'  BY <2>1, <2>2 DEF GateTypeOK
  <2>5. ReleasedRight'  BY <2>1 DEF ReleasedRight
  <2> QED  BY <2>3, <2>4, <2>5
<1> QED
  BY <1>1, <1>2, <1>3, <1>4, <1>5, <1>6, <1>7 DEF GateNext

-----------------------------------------------------------------------------
LEMMA GateInvariant == GateSpec => []GateInv
BY GateInitInv, GateStepInv, PTL DEF GateSpec

\* The variables of the gate keep their types: in particular the limit stays
\* between its minimum and its maximum whatever answers and probes do.
THEOREM GateTypes == GateSpec => []GateTypeOK
<1>1. GateInv => GateTypeOK  BY DEF GateInv
<1> QED  BY <1>1, GateInvariant, PTL

\* No path of a claim, batch or event call gives a slot back twice or keeps it.
THEOREM SlotsAreBalanced == GateSpec => []SlotsBalanced
<1>1. GateInv => SlotsBalanced  BY DEF GateInv, Balanced, SlotsBalanced, Holding
<1> QED  BY <1>1, GateInvariant, PTL

\* The requests under way at the server never exceed the maximum of the gate.
THEOREM MaximumHolds == GateSpec => []WithinMaximum
<1>1. GateInv => WithinMaximum  BY DEF GateInv, Balanced, WithinMaximum, Holding
<1> QED  BY <1>1, GateInvariant, PTL

-----------------------------------------------------------------------------
(* The recovery at start-up.                                               *)
(*                                                                         *)
(* For any instances, executions and lease: an instance within its lease   *)
(* owns the lease row, two recover at a time only if one overran, and      *)
(* without an overrun an execution is replaced once more only after a      *)
(* replacement that no cancellation followed.                              *)

InstanceType ==
    [pc : Working \cup {"acquire", "release", "done", "stopped"},
     since : 0..OverLease, todo : SUBSET Interrupted, takes : SUBSET Interrupted,
     now : SUBSET Interrupted, count : 0..MaxCandidates]

\* Where an instance handles a candidate there is exactly one, and room for it.
RightlyPlaced(t) ==
    /\ t.pc \in {"check", "restart", "issue", "cancel"} => \E e \in Interrupted : t.now = {e}
    /\ t.pc \in {"check", "restart", "issue"} => t.count < MaxCandidates
    /\ t.pc = "cancel" /\ ~RestartMode => t.count < MaxCandidates
    /\ t.pc \in {"restart", "issue"} => RestartMode

AllPlaced == \A i \in Instances : RightlyPlaced(instance[i])

\* The history variable misses no overrun.
OverrunsSeen == \A i \in Instances : Overran(instance[i]) => overran

\* Some instance is about to cancel e, which it has begun to replace.
AboutToCancel(e) ==
    \E i \in Instances : UnderWay(instance[i]) /\ instance[i].now = {e}

\* Without an overrun, a replacement is followed by the end of what it replaced
\* before anybody can look at that again, or it is noted as left unrecorded.
ReplacedThenEnded ==
    ~overran =>
        \A e \in Interrupted :
            \/ replaced[e] = unrecorded[e]
            \/ replaced[e] = unrecorded[e] + 1
               /\ (execution[e] # "running" \/ AboutToCancel(e))

\* A replacement adds to none but those left unrecorded.
RestartedFirst ==
    ~overran =>
        \A i \in Instances : \A e \in instance[i].now :
            /\ instance[i].pc = "restart" => replaced[e] = unrecorded[e]
            /\ UnderWay(instance[i]) => replaced[e] = unrecorded[e] + 1

ResumeInv ==
    /\ ResumeTypeOK
    /\ AllPlaced
    /\ FreshWorkerOwnsLease
    /\ OverrunsSeen
    /\ ReplacedThenEnded
    /\ RestartedFirst

-----------------------------------------------------------------------------
LEMMA InstanceTyped == ResumeTypeOK => instance \in [Instances -> InstanceType]
BY DEF ResumeTypeOK, InstanceType

\* An update of one instance.
LEMMA OneInstance ==
    ASSUME NEW i \in Instances, NEW u \in InstanceType, ResumeTypeOK,
           instance' = [instance EXCEPT ![i] = u]
    PROVE  /\ instance' \in [Instances -> InstanceType]
           /\ instance'[i] = u
           /\ \A j \in Instances : j # i => instance'[j] = instance[j]
BY InstanceTyped

\* Two instances that work within their lease are one.
LEMMA FreshIsOne ==
    ASSUME FreshWorkerOwnsLease, OverrunsSeen, ~overran,
           NEW i \in Instances, NEW j \in Instances,
           instance[i].pc \in Working, instance[j].pc \in Working
    PROVE  i = j
BY DEF FreshWorkerOwnsLease, OverrunsSeen

\* Fresh workers own the lease, which therefore goes to nobody else.
LEMMA NoGrantBesideFresh ==
    ASSUME FreshWorkerOwnsLease, ResumeTypeOK, NEW i \in Instances, NEW j \in Instances,
           Grantable(j), instance[i].pc \in Working, ~Overran(instance[i])
    PROVE  i = j
<1>1. lease.owner = i /\ lease.age <= instance[i].since  BY DEF FreshWorkerOwnsLease
<1>2. lease.age \in Nat /\ instance[i].since \in Nat /\ LeaseTime \in Nat
  BY ResumeAssumption, InstanceTyped DEF ResumeTypeOK, InstanceType, OverLease
<1>3. instance[i].since <= LeaseTime  BY <1>2 DEF Overran
<1>4. ~(lease.age > LeaseTime)  BY <1>1, <1>2, <1>3
<1>5. lease.owner # NoInstance  BY <1>1, ResumeAssumption
<1> QED  BY <1>1, <1>4, <1>5 DEF Grantable

-----------------------------------------------------------------------------
LEMMA ResumeInitInv == ResumeInit => ResumeInv
<1> SUFFICES ASSUME ResumeInit PROVE ResumeInv  OBVIOUS
<1>1. /\ LeaseTime \in Nat /\ 0 \in 0..OverLease /\ 0 \in 0..MaxCandidates
  BY ResumeAssumption DEF OverLease
<1>2. Waiting \in InstanceType  BY <1>1 DEF Waiting, InstanceType, Working
<1>3. \A i \in Instances : instance[i] = Waiting  BY DEF ResumeInit
<1>4. instance \in [Instances -> InstanceType]  BY <1>2 DEF ResumeInit
<1>5. ResumeTypeOK
  <2>1. lease \in [owner : Instances \cup {NoInstance}, age : 0..OverLease]
    BY <1>1 DEF ResumeInit
  <2>2. execution \in [Interrupted -> {"running", "ended", "cancelled"}]
    BY DEF ResumeInit
  <2>3. replaced \in [Interrupted -> Nat]  BY DEF ResumeInit
  <2>4. /\ stale \subseteq Interrupted /\ recent \subseteq Interrupted
        /\ unrecorded \in [Interrupted -> Nat] /\ overran \in BOOLEAN
    BY DEF ResumeInit
  <2> QED  BY <1>4, <2>1, <2>2, <2>3, <2>4 DEF ResumeTypeOK, InstanceType
<1>6. AllPlaced  BY <1>3 DEF AllPlaced, RightlyPlaced, Waiting
<1>7. FreshWorkerOwnsLease /\ OverrunsSeen
  BY <1>3 DEF FreshWorkerOwnsLease, OverrunsSeen, Overran, Waiting, Working
<1>8. ReplacedThenEnded  BY DEF ReplacedThenEnded, ResumeInit
<1>9. RestartedFirst  BY <1>3 DEF RestartedFirst, UnderWay, Waiting
<1> QED  BY <1>5, <1>6, <1>7, <1>8, <1>9 DEF ResumeInv

\* What is left to show of a step in which one instance moves and the lease, the
\* overruns and the replacements stay: its new record, and that a candidate it has
\* replaced and lets go of without cancelling it is noted.
LEMMA InstanceMoves ==
    ASSUME ResumeInv, NEW i \in Instances, NEW u \in InstanceType,
           instance' = [instance EXCEPT ![i] = u], RightlyPlaced(u),
           u.pc \in Working => instance[i].pc \in Working /\ u.since = instance[i].since,
           UnderWay(u) => instance[i].pc = "issue" /\ u.now = instance[i].now,
           u.pc = "restart" => instance[i].pc = "check" /\ u.now = instance[i].now
                               /\ \A e \in u.now : execution[e] = "running",
           unrecorded' = IF UnderWay(instance[i]) /\ ~UnderWay(u)
                         THEN LeftUnrecorded(i) ELSE unrecorded,
           UNCHANGED <<lease, execution, replaced, overran>>,
           stale' \subseteq Interrupted, recent' \subseteq Interrupted
    PROVE  ResumeInv'
<1> USE DEF ResumeInv
<1>1. /\ instance' \in [Instances -> InstanceType]
      /\ instance'[i] = u
      /\ \A j \in Instances : j # i => instance'[j] = instance[j]
  BY OneInstance
<1>a. /\ instance[i].now \subseteq Interrupted
      /\ u.now \subseteq Interrupted
      /\ \A e \in Interrupted : unrecorded[e] \in Nat /\ replaced[e] \in Nat
  BY InstanceTyped DEF InstanceType, ResumeTypeOK
<1>b. unrecorded' \in [Interrupted -> Nat]
  BY <1>a DEF ResumeTypeOK, LeftUnrecorded
<1>c. UnderWay(instance[i]) => \E e \in Interrupted : instance[i].now = {e}
  BY DEF AllPlaced, RightlyPlaced, UnderWay
<1>2. ResumeTypeOK'  BY <1>1, <1>b DEF ResumeTypeOK, InstanceType
<1>3. AllPlaced'  BY <1>1 DEF AllPlaced
<1>4. FreshWorkerOwnsLease'
  BY <1>1 DEF FreshWorkerOwnsLease, Overran
<1>5. OverrunsSeen'  BY <1>1 DEF OverrunsSeen, Overran
<1>6. \A e \in Interrupted :
         unrecorded'[e] = IF UnderWay(instance[i]) /\ ~UnderWay(u) /\ e \in instance[i].now
                          THEN unrecorded[e] + 1 ELSE unrecorded[e]
  BY DEF LeftUnrecorded
<1>7. ReplacedThenEnded'
  <2> SUFFICES ASSUME ~overran, NEW e \in Interrupted
               PROVE  \/ replaced[e] = unrecorded'[e]
                      \/ replaced[e] = unrecorded'[e] + 1
                         /\ (execution[e] # "running" \/ AboutToCancel(e)')
    BY DEF ReplacedThenEnded
  <2>1. CASE UnderWay(instance[i]) /\ e \in instance[i].now
    <3>1. replaced[e] = unrecorded[e] + 1  BY <2>1 DEF RestartedFirst
    <3>2. CASE UnderWay(u)
      <4>1. u.now = {e}  BY <1>c, <2>1, <3>2
      <4>2. AboutToCancel(e)'  BY <1>1, <3>2, <4>1 DEF AboutToCancel
      <4> QED  BY <1>6, <3>1, <3>2, <4>2
    <3>3. CASE ~UnderWay(u)  BY <1>6, <2>1, <3>1, <3>3
    <3> QED  BY <3>2, <3>3
  <2>2. CASE ~(UnderWay(instance[i]) /\ e \in instance[i].now)
    <3>1. unrecorded'[e] = unrecorded[e]  BY <1>6, <2>2
    <3>2. AboutToCancel(e) => AboutToCancel(e)'
      <4> SUFFICES ASSUME NEW k \in Instances, UnderWay(instance[k]), instance[k].now = {e}
                   PROVE  AboutToCancel(e)'
        BY DEF AboutToCancel
      <4>1. k # i  BY <2>2
      <4>2. instance'[k] = instance[k]  BY <1>1, <4>1
      <4> QED  BY <4>2 DEF AboutToCancel
    <3> QED  BY <3>1, <3>2 DEF ReplacedThenEnded
  <2> QED  BY <2>1, <2>2
<1>8. RestartedFirst'
  <2> SUFFICES ASSUME ~overran, NEW j \in Instances, NEW e \in instance'[j].now,
                      instance'[j].pc = "restart" \/ UnderWay(instance'[j])
               PROVE  /\ instance'[j].pc = "restart" => replaced[e] = unrecorded'[e]
                      /\ UnderWay(instance'[j]) => replaced[e] = unrecorded'[e] + 1
    BY DEF RestartedFirst
  <2>1. CASE j # i
    <3>1. instance'[j] = instance[j] /\ e \in Interrupted
      BY <1>1, <2>1, InstanceTyped DEF InstanceType
    <3>2. instance[j].pc \in Working  BY <3>1 DEF UnderWay, Working
    <3>3. ~UnderWay(instance[i])
      <4> SUFFICES ASSUME UnderWay(instance[i]) PROVE FALSE  OBVIOUS
      <4>1. instance[i].pc \in Working  BY DEF UnderWay, Working
      <4> QED  BY <2>1, <3>2, <4>1, FreshIsOne
    <3>4. unrecorded'[e] = unrecorded[e]  BY <1>6, <3>1, <3>3
    <3> QED  BY <3>1, <3>4 DEF RestartedFirst
  <2>2. CASE j = i
    <3>1. instance'[j] = u /\ e \in u.now /\ e \in Interrupted  BY <1>1, <1>a, <2>2
    <3>2. CASE u.pc = "restart"
      <4>1. instance[i].pc = "check" /\ execution[e] = "running"  BY <3>1, <3>2
      <4>2. ~UnderWay(instance[i]) /\ ~UnderWay(u)  BY <3>2, <4>1 DEF UnderWay
      <4>3. ~AboutToCancel(e)
        <5> SUFFICES ASSUME NEW k \in Instances, UnderWay(instance[k]) PROVE FALSE
          BY DEF AboutToCancel
        <5>1. instance[k].pc \in Working /\ instance[i].pc \in Working
          BY <4>1 DEF UnderWay, Working
        <5>2. k = i  BY <5>1, FreshIsOne
        <5> QED  BY <4>2, <5>2
      <4>4. replaced[e] = unrecorded[e]  BY <3>1, <4>1, <4>3 DEF ReplacedThenEnded
      <4> QED  BY <1>6, <3>1, <4>2, <4>4
    <3>3. CASE UnderWay(u)
      <4>1. instance[i].pc = "issue" /\ e \in instance[i].now /\ u.pc # "restart"
        BY <3>1, <3>3 DEF UnderWay
      <4>2. UnderWay(instance[i])  BY <3>3, <4>1 DEF UnderWay
      <4>3. replaced[e] = unrecorded[e] + 1  BY <4>1, <4>2 DEF RestartedFirst
      <4> QED  BY <1>6, <3>1, <3>3, <4>1, <4>3
    <3> QED  BY <3>1, <3>2, <3>3
  <2> QED  BY <2>1, <2>2
<1> QED  BY <1>2, <1>3, <1>4, <1>5, <1>7, <1>8

-----------------------------------------------------------------------------
LEMMA AcquireLeaseKeeps ==
    ASSUME ResumeInv, NEW i \in Instances, AcquireLease(i)
    PROVE  ResumeInv'
<1> USE DEF ResumeInv
<1> DEFINE u == [instance[i] EXCEPT !.pc = "ready", !.since = 0]
<1>1. instance[i] \in InstanceType /\ instance[i].pc = "acquire" /\ LeaseTime \in Nat
  BY InstanceTyped, ResumeAssumption DEF AcquireLease
<1>2. 0 \in 0..OverLease  BY <1>1 DEF OverLease
<1>3. u \in InstanceType /\ u.pc = "ready" /\ u.since = 0
  BY <1>1, <1>2 DEF InstanceType, Working
<1>4. instance' = [instance EXCEPT ![i] = u]
  BY InstanceTyped DEF AcquireLease, InstanceType
<1> HIDE DEF u
<1>5. /\ instance' \in [Instances -> InstanceType]
      /\ instance'[i] = u
      /\ \A j \in Instances : j # i => instance'[j] = instance[j]
  BY <1>3, <1>4, OneInstance
<1>6. ResumeTypeOK'  BY <1>2, <1>5 DEF AcquireLease, ResumeTypeOK, InstanceType
<1>7. AllPlaced'  BY <1>3, <1>5 DEF AllPlaced, RightlyPlaced
<1>8. FreshWorkerOwnsLease'
  <2> SUFFICES ASSUME NEW j \in Instances, instance'[j].pc \in Working,
                      ~Overran(instance'[j])
               PROVE  lease'.owner = j /\ lease'.age <= instance'[j].since
    BY DEF FreshWorkerOwnsLease, Overran
  <2>1. CASE j = i  BY <1>3, <1>5, <2>1 DEF AcquireLease
  <2>2. CASE j # i
    <3>1. instance'[j] = instance[j]  BY <1>5, <2>2
    <3>2. j = i  BY <3>1, NoGrantBesideFresh DEF AcquireLease
    <3> QED  BY <2>2, <3>2
  <2> QED  BY <2>1, <2>2
<1>9. OverrunsSeen'
  BY <1>1, <1>3, <1>5 DEF OverrunsSeen, Overran, AcquireLease
<1>10. \A e \in Interrupted : AboutToCancel(e) => AboutToCancel(e)'
  BY <1>1, <1>5 DEF AboutToCancel, UnderWay
<1>11. ReplacedThenEnded'  BY <1>10 DEF ReplacedThenEnded, AcquireLease
<1>12. RestartedFirst'  BY <1>3, <1>5 DEF RestartedFirst, UnderWay, AcquireLease
<1> QED  BY <1>6, <1>7, <1>8, <1>9, <1>11, <1>12

\* The records an instance moves to, and that its move is an update by one of them.
LEMMA InstanceUpdate ==
    ASSUME ResumeTypeOK, NEW i \in Instances, NEW p
    PROVE  /\ ResumeAt(i, p) = [instance EXCEPT ![i] = [instance[i] EXCEPT !.pc = p]]
           /\ Back(i) = [instance EXCEPT ![i] = [instance[i] EXCEPT !.pc = "pick", !.now = {}]]
           /\ instance[i] \in InstanceType
BY InstanceTyped DEF ResumeAt, Back, InstanceType

LEMMA WaitingTyped ==
    ASSUME NEW p \in {"done", "stopped"}
    PROVE  [Waiting EXCEPT !.pc = p] \in InstanceType
<1>1. 0 \in 0..OverLease /\ 0 \in 0..MaxCandidates  BY ResumeAssumption DEF OverLease
<1> QED  BY <1>1 DEF Waiting, InstanceType, Working

LEMMA BackTyped ==
    ASSUME NEW t \in InstanceType
    PROVE  /\ [t EXCEPT !.pc = "pick", !.now = {}] \in InstanceType
           /\ RightlyPlaced([t EXCEPT !.pc = "pick", !.now = {}])
BY DEF InstanceType, Working, RightlyPlaced

LEMMA TheCandidate ==
    ASSUME AllPlaced, NEW i \in Instances, instance[i].pc \in {"check", "restart", "cancel"}
    PROVE  Candidate(i) \in Interrupted /\ instance[i].now = {Candidate(i)}
<1>1. PICK e \in Interrupted : instance[i].now = {e}  BY DEF AllPlaced, RightlyPlaced
<1>2. Candidate(i) = e  BY <1>1 DEF Candidate
<1> QED  BY <1>1, <1>2

LEMMA ReleaseLeaseKeeps ==
    ASSUME ResumeInv, NEW i \in Instances, ReleaseLease(i)
    PROVE  ResumeInv'
<1> DEFINE u == [Waiting EXCEPT !.pc = "done"]
<1>1. u \in InstanceType  BY WaitingTyped
<1>2. u.pc = "done" /\ RightlyPlaced(u)  BY DEF Waiting, RightlyPlaced
<1>3. instance' = [instance EXCEPT ![i] = u] /\ instance[i].pc = "release"
  BY DEF ReleaseLease, Finished
<1>4. stale' \subseteq Interrupted /\ recent' \subseteq Interrupted
  BY DEF ReleaseLease, ResumeInv, ResumeTypeOK
<1>5. UNCHANGED <<lease, execution, replaced, overran, unrecorded>>  BY DEF ReleaseLease
<1> HIDE DEF u
<1> QED  BY <1>1, <1>2, <1>3, <1>4, <1>5, InstanceMoves DEF Working, UnderWay

LEMMA DependenciesReadyKeeps ==
    ASSUME ResumeInv, NEW i \in Instances, DependenciesReady(i)
    PROVE  ResumeInv'
<1>1. PICK p \in {"list", "release"} : instance' = ResumeAt(i, p)
  BY DEF DependenciesReady
<1> DEFINE u == [instance[i] EXCEPT !.pc = p]
<1>2. instance' = [instance EXCEPT ![i] = u] /\ instance[i] \in InstanceType
  BY <1>1, InstanceUpdate DEF ResumeInv
<1>3. u \in InstanceType /\ u.pc = p /\ u.since = instance[i].since
  BY <1>2 DEF InstanceType, Working
<1>4. RightlyPlaced(u)  BY <1>3 DEF RightlyPlaced
<1>5. stale' \subseteq Interrupted /\ recent' \subseteq Interrupted
  BY DEF DependenciesReady, ResumeInv, ResumeTypeOK
<1>6. UNCHANGED <<lease, execution, replaced, overran, unrecorded>> /\ instance[i].pc = "ready"
  BY DEF DependenciesReady
<1> HIDE DEF u
<1> QED  BY <1>2, <1>3, <1>4, <1>5, <1>6, InstanceMoves DEF Working, UnderWay

LEMMA ListCandidatesKeeps ==
    ASSUME ResumeInv, NEW i \in Instances, ListCandidates(i)
    PROVE  ResumeInv'
<1> DEFINE C == {e \in recent : execution[e] = "running"}
           u == [instance[i] EXCEPT !.pc = "pick", !.todo = C, !.takes = C \cap stale]
<1>1. instance[i] \in InstanceType /\ C \subseteq Interrupted
  BY InstanceUpdate DEF ResumeInv, ResumeTypeOK
<1>2. instance' = [instance EXCEPT ![i] = u]
  BY <1>1, InstanceTyped DEF ResumeInv, ListCandidates, InstanceType
<1>3. u \in InstanceType /\ u.pc = "pick" /\ u.since = instance[i].since
  BY <1>1 DEF InstanceType, Working
<1>4. RightlyPlaced(u)  BY <1>3 DEF RightlyPlaced
<1>5. stale' \subseteq Interrupted /\ recent' \subseteq Interrupted
  BY DEF ListCandidates, ResumeInv, ResumeTypeOK
<1>6. UNCHANGED <<lease, execution, replaced, overran, unrecorded>> /\ instance[i].pc = "list"
  BY DEF ListCandidates
<1> HIDE DEF u
<1> QED  BY <1>2, <1>3, <1>4, <1>5, <1>6, InstanceMoves DEF Working, UnderWay

LEMMA PickCandidateKeeps ==
    ASSUME ResumeInv, NEW i \in Instances, PickCandidate(i)
    PROVE  ResumeInv'
<1>1. stale' \subseteq Interrupted /\ recent' \subseteq Interrupted
  BY DEF PickCandidate, ResumeInv, ResumeTypeOK
<1>2. UNCHANGED <<lease, execution, replaced, overran, unrecorded>> /\ instance[i].pc = "pick"
  BY DEF PickCandidate
<1>3. instance[i] \in InstanceType  BY InstanceUpdate DEF ResumeInv
<1>4. CASE instance[i].todo = {} \/ instance[i].count >= MaxCandidates
  <2> DEFINE u == [instance[i] EXCEPT !.pc = "release"]
  <2>1. instance' = [instance EXCEPT ![i] = u]
    BY <1>4, InstanceUpdate DEF ResumeInv, PickCandidate
  <2>2. u \in InstanceType /\ u.pc = "release"  BY <1>3 DEF InstanceType
  <2>3. RightlyPlaced(u)  BY <2>2 DEF RightlyPlaced
  <2> HIDE DEF u
  <2> QED  BY <1>1, <1>2, <2>1, <2>2, <2>3, InstanceMoves DEF Working, UnderWay
<1>5. CASE ~(instance[i].todo = {} \/ instance[i].count >= MaxCandidates)
  <2>1. PICK e \in instance[i].todo :
          instance' = [instance EXCEPT ![i].todo = @ \ {e},
                         ![i].pc = IF e \in instance[i].takes THEN "check" ELSE "pick",
                         ![i].now = IF e \in instance[i].takes THEN {e} ELSE {}]
    BY <1>5 DEF PickCandidate
  <2> DEFINE u == [instance[i] EXCEPT !.todo = @ \ {e},
                     !.pc = IF e \in instance[i].takes THEN "check" ELSE "pick",
                     !.now = IF e \in instance[i].takes THEN {e} ELSE {}]
  <2>2. e \in Interrupted /\ instance[i].count < MaxCandidates
    BY <1>3, <1>5, ResumeAssumption DEF InstanceType
  <2>3. instance' = [instance EXCEPT ![i] = u]
    BY <2>1, InstanceTyped DEF ResumeInv, InstanceType
  <2>4. /\ u \in InstanceType
        /\ u.pc = IF e \in instance[i].takes THEN "check" ELSE "pick"
        /\ u.since = instance[i].since
        /\ u.count = instance[i].count
        /\ u.now = IF e \in instance[i].takes THEN {e} ELSE {}
    BY <1>3, <2>2 DEF InstanceType, Working
  <2>5. RightlyPlaced(u)  BY <2>2, <2>4 DEF RightlyPlaced
  <2> HIDE DEF u
  <2> QED  BY <1>1, <1>2, <2>3, <2>4, <2>5, InstanceMoves DEF Working, UnderWay
<1> QED  BY <1>4, <1>5

LEMMA CheckStatusKeeps ==
    ASSUME ResumeInv, NEW i \in Instances, CheckStatus(i)
    PROVE  ResumeInv'
<1>1. stale' \subseteq Interrupted /\ recent' \subseteq Interrupted
  BY DEF CheckStatus, ResumeInv, ResumeTypeOK
<1>2. UNCHANGED <<lease, execution, replaced, overran, unrecorded>> /\ instance[i].pc = "check"
  BY DEF CheckStatus
<1>3. instance[i] \in InstanceType  BY InstanceUpdate DEF ResumeInv
<1>4. Candidate(i) \in Interrupted /\ instance[i].now = {Candidate(i)}
  BY <1>2, TheCandidate DEF ResumeInv
<1>5. CASE execution[Candidate(i)] # "running"
  <2> DEFINE u == [instance[i] EXCEPT !.pc = "pick", !.now = {}]
  <2>1. instance' = [instance EXCEPT ![i] = u]
    BY <1>5, InstanceUpdate DEF ResumeInv, CheckStatus
  <2>2. u \in InstanceType /\ RightlyPlaced(u)  BY <1>3, BackTyped
  <2>3. u.pc = "pick" /\ u.since = instance[i].since  BY <1>3 DEF InstanceType
  <2> HIDE DEF u
  <2> QED  BY <1>1, <1>2, <2>1, <2>2, <2>3, InstanceMoves DEF Working, UnderWay
<1>6. CASE execution[Candidate(i)] = "running"
  <2> DEFINE p == IF RestartMode THEN "restart" ELSE "cancel"
             u == [instance[i] EXCEPT !.pc = p]
  <2>1. instance' = [instance EXCEPT ![i] = u]
    BY <1>6, InstanceUpdate DEF ResumeInv, CheckStatus
  <2>2. /\ u \in InstanceType /\ u.pc = p /\ u.since = instance[i].since
        /\ u.now = instance[i].now /\ u.count = instance[i].count
    BY <1>3 DEF InstanceType, Working
  <2>3. instance[i].count < MaxCandidates  BY <1>2 DEF ResumeInv, AllPlaced, RightlyPlaced
  <2>4. RightlyPlaced(u)  BY <1>4, <2>2, <2>3 DEF RightlyPlaced
  <2>5. \A e \in u.now : execution[e] = "running"  BY <1>4, <1>6, <2>2
  <2>6. p \in Working  BY DEF Working
  <2> HIDE DEF u
  <2> QED  BY <1>1, <1>2, <2>1, <2>2, <2>4, <2>5, <2>6, InstanceMoves DEF Working, UnderWay
<1> QED  BY <1>5, <1>6

LEMMA QueryFailsKeeps ==
    ASSUME ResumeInv, NEW i \in Instances, QueryFails(i)
    PROVE  ResumeInv'
<1> DEFINE u == [instance[i] EXCEPT !.pc = "release"]
<1>1. instance' = [instance EXCEPT ![i] = u] /\ instance[i] \in InstanceType
  BY InstanceUpdate DEF ResumeInv, QueryFails
<1>2. u \in InstanceType /\ u.pc = "release"  BY <1>1 DEF InstanceType
<1>3. RightlyPlaced(u) /\ ~UnderWay(u)  BY <1>2 DEF RightlyPlaced, UnderWay
<1>4. stale' \subseteq Interrupted /\ recent' \subseteq Interrupted
  BY DEF QueryFails, ResumeInv, ResumeTypeOK
<1>5. UNCHANGED <<lease, execution, replaced, overran, unrecorded>>  BY DEF QueryFails
<1>6. ~UnderWay(instance[i])  BY DEF QueryFails, UnderWay
<1> HIDE DEF u
<1> QED  BY <1>1, <1>2, <1>3, <1>4, <1>5, <1>6, InstanceMoves DEF Working, UnderWay

LEMMA StopServerKeeps ==
    ASSUME ResumeInv, NEW i \in Instances, StopServer(i)
    PROVE  ResumeInv'
<1> DEFINE u == [Waiting EXCEPT !.pc = "stopped"]
<1>1. u \in InstanceType  BY WaitingTyped
<1>2. u.pc = "stopped" /\ RightlyPlaced(u) /\ ~UnderWay(u)
  BY DEF Waiting, RightlyPlaced, UnderWay
<1>3. instance' = [instance EXCEPT ![i] = u]  BY DEF StopServer
<1>4. stale' \subseteq Interrupted /\ recent' \subseteq Interrupted
  BY DEF StopServer, ResumeInv, ResumeTypeOK
<1>5. /\ UNCHANGED <<lease, execution, replaced, overran>>
      /\ unrecorded' = IF UnderWay(instance[i]) THEN LeftUnrecorded(i) ELSE unrecorded
  BY DEF StopServer
<1> HIDE DEF u
<1> QED  BY <1>1, <1>2, <1>3, <1>4, <1>5, InstanceMoves DEF Working, UnderWay

LEMMA StartReplacementKeeps ==
    ASSUME ResumeInv, NEW i \in Instances, StartReplacement(i)
    PROVE  ResumeInv'
<1> DEFINE e == Candidate(i)
<1>1. instance[i] \in InstanceType  BY InstanceUpdate DEF ResumeInv
<1>2. instance[i].pc = "restart" /\ ~UnderWay(instance[i])
  BY DEF StartReplacement, UnderWay
<1>3. e \in Interrupted /\ instance[i].now = {e}  BY <1>2, TheCandidate DEF ResumeInv
<1>4. RestartMode /\ instance[i].count < MaxCandidates
  BY <1>2 DEF ResumeInv, AllPlaced, RightlyPlaced
<1>5. UNCHANGED <<lease, execution, stale, recent, unrecorded, overran>>
  BY DEF StartReplacement
<1>6. stale' \subseteq Interrupted /\ recent' \subseteq Interrupted
  BY <1>5 DEF ResumeInv, ResumeTypeOK
<1>7. CASE instance' = Back(i) /\ UNCHANGED replaced
  <2> DEFINE u == [instance[i] EXCEPT !.pc = "pick", !.now = {}]
  <2>1. instance' = [instance EXCEPT ![i] = u]  BY <1>7, InstanceUpdate DEF ResumeInv
  <2>2. u \in InstanceType /\ RightlyPlaced(u)  BY <1>1, BackTyped
  <2>3. u.pc = "pick" /\ u.since = instance[i].since /\ ~UnderWay(u)
    BY <1>1 DEF InstanceType, UnderWay
  <2> HIDE DEF u
  <2> QED
    BY <1>2, <1>5, <1>6, <1>7, <2>1, <2>2, <2>3, InstanceMoves DEF Working, UnderWay
<1>8. CASE /\ replaced' = [replaced EXCEPT ![e] = @ + 1]
           /\ instance' = ResumeAt(i, "issue")
  <2> USE DEF ResumeInv
  <2> DEFINE u == [instance[i] EXCEPT !.pc = "issue"]
  <2>2. /\ u \in InstanceType /\ u.pc = "issue" /\ u.since = instance[i].since
        /\ u.now = {e} /\ u.count = instance[i].count /\ UnderWay(u)
    BY <1>1, <1>3, <1>4 DEF InstanceType, Working, UnderWay
  <2>3. instance' = [instance EXCEPT ![i] = u]
    BY <1>8, InstanceUpdate
  <2> HIDE DEF u
  <2>4. /\ instance' \in [Instances -> InstanceType]
        /\ instance'[i] = u
        /\ \A j \in Instances : j # i => instance'[j] = instance[j]
    BY <2>2, <2>3, OneInstance
  <2>5. /\ replaced' \in [Interrupted -> Nat]
        /\ replaced'[e] = replaced[e] + 1
        /\ \A f \in Interrupted \ {e} : replaced'[f] = replaced[f]
    BY <1>3, <1>8 DEF ResumeTypeOK
  <2>6. ResumeTypeOK'  BY <1>5, <2>4, <2>5 DEF ResumeTypeOK, InstanceType
  <2>7. AllPlaced'  BY <1>3, <1>4, <2>2, <2>4 DEF AllPlaced, RightlyPlaced
  <2>8. FreshWorkerOwnsLease'
    BY <1>2, <1>5, <2>2, <2>4 DEF FreshWorkerOwnsLease, Overran, Working
  <2>9. OverrunsSeen'
    BY <1>2, <1>5, <2>2, <2>4 DEF OverrunsSeen, Overran, Working
  <2>a. ~overran => replaced[e] = unrecorded[e]  BY <1>2, <1>3 DEF RestartedFirst
  <2>10. ReplacedThenEnded'
    <3> SUFFICES ASSUME ~overran, NEW f \in Interrupted
                 PROVE  \/ replaced'[f] = unrecorded[f]
                        \/ replaced'[f] = unrecorded[f] + 1
                           /\ (execution[f] # "running" \/ AboutToCancel(f)')
      BY <1>5 DEF ReplacedThenEnded
    <3>1. CASE f = e
      <4>1. AboutToCancel(f)'  BY <2>2, <2>4, <3>1 DEF AboutToCancel
      <4> QED  BY <2>5, <2>a, <3>1, <4>1
    <3>2. CASE f # e
      <4>1. AboutToCancel(f) => AboutToCancel(f)'
        BY <1>2, <2>4 DEF AboutToCancel
      <4> QED  BY <2>5, <3>2, <4>1 DEF ReplacedThenEnded
    <3> QED  BY <3>1, <3>2
  <2>11. RestartedFirst'
    <3> SUFFICES ASSUME ~overran, NEW j \in Instances, NEW f \in instance'[j].now,
                        instance'[j].pc = "restart" \/ UnderWay(instance'[j])
                 PROVE  /\ instance'[j].pc = "restart" => replaced'[f] = unrecorded[f]
                        /\ UnderWay(instance'[j]) => replaced'[f] = unrecorded[f] + 1
      BY <1>5 DEF RestartedFirst
    <3>1. j = i
      <4> SUFFICES ASSUME j # i PROVE FALSE  OBVIOUS
      <4>1. instance[j].pc \in Working  BY <2>4 DEF UnderWay, Working
      <4>2. instance[i].pc \in Working  BY <1>2 DEF Working
      <4> QED  BY <4>1, <4>2, FreshIsOne
    <3>2. instance'[j].pc = "issue" /\ f = e  BY <2>2, <2>4, <3>1
    <3> QED  BY <2>5, <2>a, <3>2
  <2> QED  BY <2>6, <2>7, <2>8, <2>9, <2>10, <2>11
<1> QED  BY <1>7, <1>8 DEF StartReplacement

LEMMA IssueReplacementKeeps ==
    ASSUME ResumeInv, NEW i \in Instances, IssueReplacement(i)
    PROVE  ResumeInv'
<1>1. instance[i] \in InstanceType  BY InstanceUpdate DEF ResumeInv
<1>2. instance[i].pc = "issue"  BY DEF IssueReplacement
<1>3. RestartMode /\ instance[i].count < MaxCandidates
      /\ \E e \in Interrupted : instance[i].now = {e}
  BY <1>2 DEF ResumeInv, AllPlaced, RightlyPlaced
<1>4. UnderWay(instance[i])  BY <1>2, <1>3 DEF UnderWay
<1>5. UNCHANGED <<lease, execution, stale, recent, replaced, overran>>
  BY DEF IssueReplacement
<1>6. stale' \subseteq Interrupted /\ recent' \subseteq Interrupted
  BY <1>5 DEF ResumeInv, ResumeTypeOK
<1>7. CASE instance' = Back(i) /\ unrecorded' = LeftUnrecorded(i)
  <2> DEFINE u == [instance[i] EXCEPT !.pc = "pick", !.now = {}]
  <2>1. instance' = [instance EXCEPT ![i] = u]  BY <1>7, InstanceUpdate DEF ResumeInv
  <2>2. u \in InstanceType /\ RightlyPlaced(u)  BY <1>1, BackTyped
  <2>3. u.pc = "pick" /\ u.since = instance[i].since /\ ~UnderWay(u)
    BY <1>1 DEF InstanceType, UnderWay
  <2> HIDE DEF u
  <2> QED
    BY <1>2, <1>4, <1>5, <1>6, <1>7, <2>1, <2>2, <2>3, InstanceMoves DEF Working, UnderWay
<1>8. CASE /\ instance' = [instance EXCEPT ![i].pc = "cancel", ![i].count = @ + 1]
           /\ UNCHANGED unrecorded
  <2> DEFINE n == instance[i].count + 1
             u == [instance[i] EXCEPT !.pc = "cancel", !.count = n]
  <2>1. n \in 0..MaxCandidates
    BY <1>1, <1>3, ResumeAssumption DEF InstanceType
  <2>2. instance' = [instance EXCEPT ![i] = u]
    BY <1>8, InstanceTyped DEF ResumeInv, InstanceType
  <2> HIDE DEF n
  <2>3. /\ u \in InstanceType /\ u.pc = "cancel" /\ u.since = instance[i].since
        /\ u.now = instance[i].now
    BY <1>1, <2>1 DEF InstanceType, Working
  <2>4. RightlyPlaced(u) /\ UnderWay(u)  BY <1>3, <2>3 DEF RightlyPlaced, UnderWay
  <2> HIDE DEF u
  <2> QED
    BY <1>2, <1>4, <1>5, <1>6, <1>8, <2>2, <2>3, <2>4, InstanceMoves DEF Working, UnderWay
<1> QED  BY <1>7, <1>8 DEF IssueReplacement

LEMMA CancelExecutionKeeps ==
    ASSUME ResumeInv, NEW i \in Instances, CancelExecution(i)
    PROVE  ResumeInv'
<1> DEFINE e == Candidate(i)
<1>1. instance[i] \in InstanceType  BY InstanceUpdate DEF ResumeInv
<1>2. instance[i].pc = "cancel"  BY DEF CancelExecution
<1>3. e \in Interrupted /\ instance[i].now = {e}  BY <1>2, TheCandidate DEF ResumeInv
<1>4. UNCHANGED <<lease, stale, recent, replaced, overran>>  BY DEF CancelExecution
<1>5. stale' \subseteq Interrupted /\ recent' \subseteq Interrupted
  BY <1>4 DEF ResumeInv, ResumeTypeOK
<1>6. CASE /\ instance' = Back(i) /\ UNCHANGED execution
           /\ unrecorded' = IF RestartMode THEN LeftUnrecorded(i) ELSE unrecorded
  <2> DEFINE u == [instance[i] EXCEPT !.pc = "pick", !.now = {}]
  <2>1. instance' = [instance EXCEPT ![i] = u]  BY <1>6, InstanceUpdate DEF ResumeInv
  <2>2. u \in InstanceType /\ RightlyPlaced(u)  BY <1>1, BackTyped
  <2>3. u.pc = "pick" /\ u.since = instance[i].since  BY <1>1 DEF InstanceType
  <2> HIDE DEF u
  <2> QED
    BY <1>2, <1>3, <1>4, <1>5, <1>6, <2>1, <2>2, <2>3, InstanceMoves DEF Working, UnderWay
<1>7. CASE /\ execution' = [execution EXCEPT ![e] = IF @ = "running" THEN "cancelled" ELSE @]
           /\ instance' = [Back(i) EXCEPT ![i].count = IF RestartMode THEN @ ELSE @ + 1]
           /\ UNCHANGED unrecorded
  <2> USE DEF ResumeInv
  <2> DEFINE n == IF RestartMode THEN instance[i].count ELSE instance[i].count + 1
             u == [instance[i] EXCEPT !.pc = "pick", !.now = {}, !.count = n]
  <2>1. n \in 0..MaxCandidates
    <3>1. RestartMode \/ instance[i].count < MaxCandidates
      BY <1>2 DEF AllPlaced, RightlyPlaced
    <3> QED  BY <1>1, <3>1, ResumeAssumption DEF InstanceType
  <2>2. instance' = [instance EXCEPT ![i] = u]
    BY <1>7, InstanceTyped DEF Back, InstanceType
  <2> HIDE DEF n
  <2>3. u \in InstanceType /\ u.pc = "pick" /\ u.since = instance[i].since
    BY <1>1, <2>1 DEF InstanceType, Working
  <2> HIDE DEF u
  <2>4. /\ instance' \in [Instances -> InstanceType]
        /\ instance'[i] = u
        /\ \A j \in Instances : j # i => instance'[j] = instance[j]
    BY <2>2, <2>3, OneInstance
  <2>5. /\ execution' \in [Interrupted -> {"running", "ended", "cancelled"}]
        /\ execution'[e] # "running"
        /\ \A f \in Interrupted \ {e} : execution'[f] = execution[f]
    BY <1>3, <1>7 DEF ResumeTypeOK
  <2>6. ResumeTypeOK'  BY <1>4, <1>7, <2>4, <2>5 DEF ResumeTypeOK, InstanceType
  <2>7. AllPlaced'  BY <2>3, <2>4 DEF AllPlaced, RightlyPlaced
  <2>8. FreshWorkerOwnsLease'
    BY <1>2, <1>4, <2>3, <2>4 DEF FreshWorkerOwnsLease, Overran, Working
  <2>9. OverrunsSeen'
    BY <1>2, <1>4, <2>3, <2>4 DEF OverrunsSeen, Overran, Working
  <2>10. ReplacedThenEnded'
    <3> SUFFICES ASSUME ~overran, NEW f \in Interrupted
                 PROVE  \/ replaced[f] = unrecorded[f]
                        \/ replaced[f] = unrecorded[f] + 1
                           /\ (execution'[f] # "running" \/ AboutToCancel(f)')
      BY <1>4, <1>7 DEF ReplacedThenEnded
    <3>1. CASE f = e  BY <2>5, <3>1 DEF ReplacedThenEnded
    <3>2. CASE f # e
      <4>1. AboutToCancel(f) => AboutToCancel(f)'
        <5> SUFFICES ASSUME NEW k \in Instances, UnderWay(instance[k]),
                            instance[k].now = {f}
                     PROVE  AboutToCancel(f)'
          BY DEF AboutToCancel
        <5>1. k # i  BY <1>3, <3>2
        <5> QED  BY <2>4, <5>1 DEF AboutToCancel
      <4> QED  BY <2>5, <3>2, <4>1 DEF ReplacedThenEnded
    <3> QED  BY <3>1, <3>2
  <2>11. RestartedFirst'
    <3> SUFFICES ASSUME ~overran, NEW j \in Instances,
                        instance'[j].pc = "restart" \/ UnderWay(instance'[j])
                 PROVE  FALSE
      BY <1>4 DEF RestartedFirst
    <3>1. instance'[j].pc # "pick"  BY DEF UnderWay
    <3>2. j # i /\ instance'[j] = instance[j]  BY <2>3, <2>4, <3>1
    <3>3. instance[j].pc \in Working  BY <3>2 DEF UnderWay, Working
    <3>4. j = i  BY <1>2, <3>3, FreshIsOne DEF Working
    <3> QED  BY <3>2, <3>4
  <2> QED  BY <2>6, <2>7, <2>8, <2>9, <2>10, <2>11
<1> QED  BY <1>6, <1>7 DEF CancelExecution

-----------------------------------------------------------------------------
(* The surroundings. *)

LEMMA ExecutionActiveKeeps ==
    ASSUME ResumeInv, NEW e \in Interrupted, ExecutionActive(e)
    PROVE  ResumeInv'
<1> USE DEF ResumeInv
<1>1. UNCHANGED <<lease, instance, recent, replaced, unrecorded, overran>>
  BY DEF ExecutionActive
<1>2. /\ execution' \in [Interrupted -> {"running", "ended", "cancelled"}]
      /\ stale' \subseteq Interrupted
      /\ \A f \in Interrupted : execution'[f] = "running" => execution[f] = "running"
  BY DEF ExecutionActive, ResumeTypeOK
<1>3. ResumeTypeOK'  BY <1>1, <1>2 DEF ResumeTypeOK
<1>4. AllPlaced'  BY <1>1 DEF AllPlaced
<1>5. FreshWorkerOwnsLease' /\ OverrunsSeen'
  BY <1>1 DEF FreshWorkerOwnsLease, OverrunsSeen
<1>6. \A f \in Interrupted : AboutToCancel(f) => AboutToCancel(f)'
  BY <1>1 DEF AboutToCancel
<1>7. ReplacedThenEnded'  BY <1>1, <1>2, <1>6 DEF ReplacedThenEnded
<1>8. RestartedFirst'  BY <1>1 DEF RestartedFirst
<1> QED  BY <1>3, <1>4, <1>5, <1>7, <1>8

LEMMA TimePassesKeeps ==
    ASSUME ResumeInv, TimePasses
    PROVE  ResumeInv'
<1> USE DEF ResumeInv
<1> DEFINE later(n) == IF n < OverLease THEN n + 1 ELSE n
<1>1. LeaseTime \in Nat /\ OverLease = LeaseTime + 1
  BY ResumeAssumption DEF OverLease
<1>2. \A n \in 0..OverLease : later(n) \in 0..OverLease /\ n <= later(n)  BY <1>1
<1>3. lease' = [lease EXCEPT !.age = later(lease.age)]  BY DEF TimePasses
<1>4. UNCHANGED <<execution, replaced, unrecorded>>  BY DEF TimePasses
<1>5. /\ lease'.owner = lease.owner /\ lease'.age = later(lease.age)
      /\ lease' \in [owner : Instances \cup {NoInstance}, age : 0..OverLease]
  BY <1>2, <1>3 DEF ResumeTypeOK
<1>6. \A i \in Instances :
         /\ instance'[i] \in InstanceType
         /\ instance'[i].pc = instance[i].pc /\ instance'[i].now = instance[i].now
         /\ instance'[i].count = instance[i].count
         /\ instance[i].pc \in Working => instance'[i].since = later(instance[i].since)
  <2> SUFFICES ASSUME NEW i \in Instances
               PROVE  /\ instance'[i] \in InstanceType
                      /\ instance'[i].pc = instance[i].pc /\ instance'[i].now = instance[i].now
                      /\ instance'[i].count = instance[i].count
                      /\ instance[i].pc \in Working =>
                            instance'[i].since = later(instance[i].since)
    OBVIOUS
  <2>1. instance[i] \in InstanceType  BY InstanceTyped
  <2>2. later(instance[i].since) \in 0..OverLease  BY <1>2, <2>1 DEF InstanceType
  <2>3. instance'[i] = IF instance[i].pc \in Working
                       THEN [instance[i] EXCEPT !.since = later(instance[i].since)]
                       ELSE instance[i]
    BY DEF TimePasses
  <2> HIDE DEF later
  <2> QED  BY <2>1, <2>2, <2>3 DEF InstanceType
<1>7. overran' = (overran \/ \E i \in Instances : Overran(instance'[i]))  BY DEF TimePasses
<1>8. ResumeTypeOK'
  <2>1. instance' \in [Instances -> InstanceType]
    <3>1. \A i \in Instances : instance'[i] \in InstanceType  BY <1>6
    <3>2. instance' = [i \in Instances |-> instance'[i]]  BY DEF TimePasses
    <3> QED  BY <3>1, <3>2
  <2>2. /\ stale' \subseteq Interrupted /\ recent' \subseteq Interrupted
        /\ overran' \in BOOLEAN
    BY DEF TimePasses, ResumeTypeOK
  <2> QED  BY <1>4, <1>5, <2>1, <2>2 DEF ResumeTypeOK, InstanceType
<1>9. AllPlaced'  BY <1>6 DEF AllPlaced, RightlyPlaced
<1>10. FreshWorkerOwnsLease'
  <2> SUFFICES ASSUME NEW i \in Instances, instance'[i].pc \in Working,
                      ~Overran(instance'[i])
               PROVE  lease'.owner = i /\ lease'.age <= instance'[i].since
    BY DEF FreshWorkerOwnsLease, Overran
  <2>1. /\ instance[i].pc \in Working /\ instance'[i].since = later(instance[i].since)
        /\ instance[i].since \in 0..OverLease /\ lease.age \in 0..OverLease
    BY <1>6, InstanceTyped DEF InstanceType, ResumeTypeOK
  <2>2. later(instance[i].since) <= LeaseTime
    BY <1>1, <1>2, <2>1 DEF Overran
  <2>3. instance[i].since < LeaseTime  BY <1>1, <2>1, <2>2
  <2>4. ~Overran(instance[i])  BY <1>1, <2>1, <2>3 DEF Overran
  <2>5. lease.owner = i /\ lease.age <= instance[i].since
    BY <2>1, <2>4 DEF FreshWorkerOwnsLease
  <2>6. lease'.age <= later(instance[i].since)  BY <1>1, <1>5, <2>1, <2>3, <2>5
  <2> QED  BY <1>5, <2>1, <2>5, <2>6
<1>11. OverrunsSeen'  BY <1>7 DEF OverrunsSeen, Overran
<1>12. \A f \in Interrupted : AboutToCancel(f) => AboutToCancel(f)'
  BY <1>6 DEF AboutToCancel, UnderWay
<1>13. ~overran' => ~overran  BY <1>7
<1>14. ReplacedThenEnded'  BY <1>4, <1>12, <1>13 DEF ReplacedThenEnded
<1>15. RestartedFirst'  BY <1>4, <1>6, <1>13 DEF RestartedFirst, UnderWay
<1> QED  BY <1>8, <1>9, <1>10, <1>11, <1>14, <1>15

LEMMA ResumeStutters == ResumeInv /\ UNCHANGED resumeVars => ResumeInv'
<1> SUFFICES ASSUME ResumeInv, UNCHANGED resumeVars PROVE ResumeInv'  OBVIOUS
<1> USE DEF ResumeInv
<1>1. UNCHANGED <<lease, instance, execution, stale, recent, replaced, unrecorded, overran>>
  BY DEF resumeVars
<1>2. ResumeTypeOK'  BY <1>1 DEF ResumeTypeOK
<1>3. AllPlaced' /\ FreshWorkerOwnsLease' /\ OverrunsSeen'
  BY <1>1 DEF AllPlaced, FreshWorkerOwnsLease, OverrunsSeen
<1>4. \A f \in Interrupted : AboutToCancel(f) => AboutToCancel(f)'
  BY <1>1 DEF AboutToCancel
<1>5. ReplacedThenEnded'  BY <1>1, <1>4 DEF ReplacedThenEnded
<1>6. RestartedFirst'  BY <1>1 DEF RestartedFirst
<1> QED  BY <1>2, <1>3, <1>5, <1>6

-----------------------------------------------------------------------------
LEMMA ResumeStepKeeps == ResumeInv /\ [ResumeNext]_resumeVars => ResumeInv'
<1> SUFFICES ASSUME ResumeInv, [ResumeNext]_resumeVars PROVE ResumeInv'  OBVIOUS
<1>1. CASE \E i \in Instances : ResumeStep(i)
  BY <1>1, AcquireLeaseKeeps, ReleaseLeaseKeeps, DependenciesReadyKeeps,
     ListCandidatesKeeps, PickCandidateKeeps, CheckStatusKeeps, QueryFailsKeeps,
     StartReplacementKeeps, IssueReplacementKeeps, CancelExecutionKeeps DEF ResumeStep
<1>2. CASE \E i \in Instances : StopServer(i)  BY <1>2, StopServerKeeps
<1>3. CASE \E e \in Interrupted : ExecutionActive(e)  BY <1>3, ExecutionActiveKeeps
<1>4. CASE TimePasses  BY <1>4, TimePassesKeeps
<1>5. CASE UNCHANGED resumeVars  BY <1>5, ResumeStutters
<1> QED  BY <1>1, <1>2, <1>3, <1>4, <1>5 DEF ResumeNext

\* The strengthening is an invariant of the recovery.
LEMMA ResumeInvariant == ResumeSpec => []ResumeInv
<1>1. ResumeInit => ResumeInv  BY ResumeInitInv
<1>2. ResumeInv /\ [ResumeNext]_resumeVars => ResumeInv'  BY ResumeStepKeeps
<1> QED  BY <1>1, <1>2, PTL DEF ResumeSpec

\* However long instances take and wherever they stop, the lease row, the tasks
\* and the executions keep to their types (auto_resume.py, runtime_leases.py).
THEOREM ResumeTypes == ResumeSpec => []ResumeTypeOK
<1>1. ResumeInv => ResumeTypeOK  BY DEF ResumeInv
<1> QED  BY <1>1, ResumeInvariant, PTL

\* An instance that recovers within its lease owns the lease row, whose heartbeat
\* is not older than its grant (try_acquire_or_renew_lease).
THEOREM FreshOwnsLease == ResumeSpec => []FreshWorkerOwnsLease
<1>1. ResumeInv => FreshWorkerOwnsLease  BY DEF ResumeInv
<1> QED  BY <1>1, ResumeInvariant, PTL

\* For any number of server instances and any lease time, two recover at a time
\* only if one of them overran its lease: the row is granted to one instance, and
\* to another no sooner than the lease of the first is over.
THEOREM OneAtATime == ResumeSpec => []OneRecoversAtATime
<1>1. ResumeInv => OneRecoversAtATime
  BY DEF ResumeInv, FreshWorkerOwnsLease, OneRecoversAtATime
<1> QED  BY <1>1, ResumeInvariant, PTL

\* Without an overrun an execution is replaced once more only after a replacement
\* that no cancellation followed: its restart failed after the new execution was
\* committed, the write of the cancelled event failed, or the server stopped before
\* it (_restart_execution, mark_execution_cancelled).
THEOREM NoneReplacedTwice == ResumeSpec => []ReplacedOnce
<1>1. ResumeInv => ReplacedOnce
  <2> SUFFICES ASSUME ResumeInv, ~overran, NEW e \in Interrupted
               PROVE  replaced[e] <= unrecorded[e] + 1
    BY DEF ReplacedOnce
  <2>1. replaced[e] \in Nat /\ unrecorded[e] \in Nat  BY DEF ResumeInv, ResumeTypeOK
  <2>2. replaced[e] = unrecorded[e] \/ replaced[e] = unrecorded[e] + 1
    BY DEF ResumeInv, ReplacedThenEnded
  <2> QED  BY <2>1, <2>2
<1> QED  BY <1>1, ResumeInvariant, PTL

-----------------------------------------------------------------------------
(* The parts side by side.                                                 *)

LEMMA DataInits == Init => FrameInit /\ ResumeInit /\ MirrorInit /\ GateInit
BY DEF Init

\* Every step of the parts together is, for each of them, a step or a stutter.
LEMMA DataSteps ==
    [Next]_dataVars => /\ [FrameNext]_frameVars
                       /\ [ResumeNext]_resumeVars
                       /\ [MirrorNext]_mirrorVars
                       /\ [GateNext]_gateVars
<1> SUFFICES ASSUME [Next]_dataVars
             PROVE  /\ [FrameNext]_frameVars /\ [ResumeNext]_resumeVars
                    /\ [MirrorNext]_mirrorVars /\ [GateNext]_gateVars
  OBVIOUS
<1>1. CASE UNCHANGED dataVars BY <1>1 DEF dataVars
<1>2. CASE Next BY <1>2 DEF Next
<1> QED BY <1>1, <1>2

\* A behaviour of the parts side by side is a behaviour of the frames, of the
\* recovery, of the mirror and of the gate: the theorems about each part hold of
\* them together.
THEOREM EachDataPart == Spec => FrameSpec /\ ResumeSpec /\ MirrorSpec /\ GateSpec
<1>1. Spec => FrameSpec BY DataInits, DataSteps, PTL DEF Spec, FrameSpec
<1>2. Spec => ResumeSpec BY DataInits, DataSteps, PTL DEF Spec, ResumeSpec
<1>3. Spec => MirrorSpec BY DataInits, DataSteps, PTL DEF Spec, MirrorSpec
<1>4. Spec => GateSpec BY DataInits, DataSteps, PTL DEF Spec, GateSpec
<1> QED BY <1>1, <1>2, <1>3, <1>4

\* The variables of the parts keep their types, whatever the instance.
THEOREM DataTypesHold == Spec => []DataTypeOK
<1>1. FrameTypeOK /\ ResumeTypeOK /\ MirrorTypeOK /\ GateTypeOK => DataTypeOK
  BY DEF DataTypeOK
<1> QED BY <1>1, EachDataPart, FrameTypes, ResumeTypes, MirrorTypes, GateTypes, PTL
=============================================================================

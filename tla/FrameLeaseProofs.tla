-------------------------- MODULE FrameLeaseProofs --------------------------
(***************************************************************************)
(* What holds of frames for any slots, executions of their commands, lease *)
(* and number of attempts: a frame ends once per revival, and it changes   *)
(* hands only when its lease is over or its own slot takes it back.        *)
(***************************************************************************)
EXTENDS FrameLease, TLAPS

WorkerType ==
    [pc : {"none", "rows", "stage", "own1", "take1", "own2", "take2", "insert", "byKey",
           "update", "execute", "next", "ended", "dead"},
     index : 0..(MaxIndex + 1), held : Keys \cup {NoFrame},
     chosen : Keys \cup {NoFrame}, tries : 0..ClaimTries]

\* A claim holds a row lock between the choice of a frame and the commit, and
\* whoever has rows has a frame index for them.
Placed(t) ==
    /\ t.chosen # NoFrame <=> t.pc = "update"
    /\ t.pc \notin {"none", "rows", "ended", "dead"} => t.index <= MaxIndex
WorkersPlaced == \A w \in Workers : Placed(worker[w])

OneLock ==
    \A v, w \in Workers :
        v # w /\ worker[v].chosen # NoFrame => worker[v].chosen # worker[w].chosen

\* The worker may take the frame: it is new, its lease is over, or it was minted
\* for the rows of the worker's slot and has not ended.
Right(w, k) ==
    \/ frame[k].status = "none"
    \/ Expired(k)
    \/ frame[k].status = "active" /\ k[1] = SlotOf(w)
ChosenRightly ==
    \A w \in Workers : worker[w].chosen # NoFrame => Right(w, worker[w].chosen)

FrameInv ==
    /\ FrameTypeOK
    /\ WorkersPlaced
    /\ OneLock
    /\ ChosenRightly
    /\ EndsOncePerRevival

HandsRight ==
    \A k \in Keys :
         frame[k].status # "none" /\ frame'[k].owner # frame[k].owner
         => Expired(k) \/ (frame[k].status = "active" /\ frame'[k].owner = k[1])

-----------------------------------------------------------------------------
LEMMA SlotTyped == \A w \in Workers : SlotOf(w) \in StageSlots /\ w[2] \in 1..MaxExecs[w[1]]
BY DEF Workers, SlotOf

LEMMA WorkerTyped ==
    ASSUME FrameTypeOK, NEW w \in Workers
    PROVE  worker \in [Workers -> WorkerType] /\ worker[w] \in WorkerType
BY DEF FrameTypeOK, WorkerType

LEMMA KeyTyped ==
    ASSUME FrameTypeOK, WorkersPlaced, NEW w \in Workers,
           worker[w].pc \notin {"none", "rows", "ended", "dead"}
    PROVE  Key(w) \in Keys /\ Key(w)[1] = SlotOf(w)
<1>1. worker[w].index \in 0..(MaxIndex + 1) /\ worker[w].index <= MaxIndex
  BY WorkerTyped DEF WorkersPlaced, Placed, WorkerType
<1>2. worker[w].index \in 0..MaxIndex  BY <1>1, FrameAssumption
<1>3. SlotOf(w) \in StageSlots  BY SlotTyped
<1> QED  BY <1>2, <1>3 DEF Key, Keys

\* An update of one worker.
LEMMA OneWorker ==
    ASSUME FrameTypeOK, NEW w \in Workers, NEW u \in WorkerType,
           worker' = [worker EXCEPT ![w] = u]
    PROVE  /\ worker' \in [Workers -> WorkerType]
           /\ worker'[w] = u
           /\ \A v \in Workers : v # w => worker'[v] = worker[v]
BY WorkerTyped

\* What is left to show of a step: types and places, the account of the ends, and
\* that each lock was held before or is on a free row, and that its holder may
\* take the frame.
LEMMA LocksKept ==
    ASSUME FrameInv, FrameTypeOK', WorkersPlaced', EndsOncePerRevival', NEW w \in Workers,
           \A v \in Workers : v # w => worker'[v].chosen \in {worker[v].chosen, NoFrame},
           worker'[w].chosen \in {worker[w].chosen, NoFrame} \/ ~Locked(worker'[w].chosen),
           \A v \in Workers : worker'[v].chosen # NoFrame => Right(v, worker[v].chosen)'
    PROVE  FrameInv'
<1>1. OneLock'
  <2> SUFFICES ASSUME NEW a \in Workers, NEW b \in Workers, a # b,
                      worker'[a].chosen # NoFrame, worker'[a].chosen = worker'[b].chosen
               PROVE  FALSE
    BY DEF OneLock
  <2> DEFINE k == worker'[a].chosen
  <2>1. ~(worker[a].chosen = k /\ worker[b].chosen = k)
    BY DEF FrameInv, OneLock
  <2>2. \A v \in {a, b} : v # w => worker[v].chosen = k
    OBVIOUS
  <2>3. worker[w].chosen # k => ~Locked(k)
    <3>1. CASE a = w  BY <3>1
    <3>2. CASE b = w  BY <3>2
    <3>3. CASE a # w /\ b # w  BY <2>1, <2>2, <3>3
    <3> QED  BY <3>1, <3>2, <3>3
  <2> QED  BY <2>1, <2>2, <2>3 DEF Locked
<1>2. ChosenRightly'  BY DEF ChosenRightly, Right
<1> QED  BY <1>1, <1>2 DEF FrameInv

\* One worker moves and the frames stay.
LEMMA WorkerMoves ==
    ASSUME FrameInv, NEW w \in Workers, NEW u \in WorkerType,
           worker' = [worker EXCEPT ![w] = u], Placed(u),
           u.chosen # NoFrame => ~Locked(u.chosen) /\ Right(w, u.chosen),
           UNCHANGED <<stage, frame, ends, revivals>>,
           beats' \subseteq [slot : StageSlots, key : Keys, pc : {"sent", "read"}],
           commitCalls' \subseteq [slot : StageSlots, key : Keys]
    PROVE  FrameInv' /\ HandsRight
<1>1. /\ worker' \in [Workers -> WorkerType]
      /\ worker'[w] = u
      /\ \A v \in Workers : v # w => worker'[v] = worker[v]
  BY OneWorker DEF FrameInv
<1>2. FrameTypeOK'  BY <1>1 DEF FrameInv, FrameTypeOK, WorkerType
<1>3. WorkersPlaced'  BY <1>1 DEF FrameInv, WorkersPlaced, Placed
<1>4. EndsOncePerRevival'  BY DEF FrameInv, EndsOncePerRevival
<1>5. \A v \in Workers : \A k : Right(v, k) => Right(v, k)'  BY DEF Right, Expired
<1>6. ASSUME NEW v \in Workers, worker'[v].chosen # NoFrame
      PROVE  Right(v, worker[v].chosen)'
  <2>1. Right(v, worker'[v].chosen)
    <3>1. CASE v = w  BY <1>1, <1>6, <3>1
    <3>2. CASE v # w
      <4>1. worker'[v] = worker[v]  BY <1>1, <3>2
      <4> QED  BY <1>6, <4>1 DEF FrameInv, ChosenRightly
    <3> QED  BY <3>1, <3>2
  <2> QED  BY <1>5, <2>1 DEF Right, Expired
<1>7. worker'[w].chosen \in {worker[w].chosen, NoFrame} \/ ~Locked(worker'[w].chosen)
  BY <1>1
<1>8. FrameInv'  BY <1>1, <1>2, <1>3, <1>4, <1>6, <1>7, LocksKept
<1>9. HandsRight  BY DEF HandsRight
<1> QED  BY <1>8, <1>9

\* What claims that fail, and answers that arrive or do not, make of a worker.
LEMMA Answered ==
    ASSUME FrameTypeOK, WorkersPlaced, NEW w \in Workers,
           worker[w].pc \notin {"none", "rows", "ended", "dead"}
    PROVE  /\ Retried(w) \in WorkerType /\ Placed(Retried(w)) /\ Retried(w).chosen = NoFrame
           /\ \A k \in Keys : Answer(w, k) => \E u \in WorkerType :
                 worker' = [worker EXCEPT ![w] = u] /\ Placed(u) /\ u.chosen = NoFrame
<1>1. worker[w] \in WorkerType /\ worker \in [Workers -> WorkerType]
      /\ worker[w].index <= MaxIndex
  BY WorkerTyped DEF WorkersPlaced, Placed
<1>2. 0 \in 0..ClaimTries /\
      (worker[w].tries < ClaimTries => worker[w].tries + 1 \in 0..ClaimTries)
  BY <1>1, FrameAssumption DEF WorkerType
<1>3. /\ Retried(w) \in WorkerType /\ Retried(w).chosen = NoFrame
      /\ Retried(w).pc \in {"stage", "execute"} /\ Retried(w).index = worker[w].index
  BY <1>1, <1>2 DEF Retried, WorkerType
<1>4. Placed(Retried(w))  BY <1>1, <1>3 DEF Placed
<1>5. ASSUME NEW k \in Keys, Answer(w, k)
      PROVE  \E u \in WorkerType :
                 worker' = [worker EXCEPT ![w] = u] /\ Placed(u) /\ u.chosen = NoFrame
  <2> DEFINE a == [worker[w] EXCEPT !.pc = "execute", !.held = k,
                                    !.chosen = NoFrame, !.tries = 0]
  <2>1. /\ a \in WorkerType /\ a.chosen = NoFrame /\ a.pc = "execute"
        /\ a.index = worker[w].index
    BY <1>1, <1>2 DEF WorkerType
  <2>2. Placed(a)  BY <1>1, <2>1 DEF Placed
  <2>3. worker' = [worker EXCEPT ![w] = a] \/ worker' = [worker EXCEPT ![w] = Retried(w)]
    BY <1>1, <1>5 DEF Answer
  <2> HIDE DEF a
  <2> QED  BY <1>3, <1>4, <2>1, <2>2, <2>3
<1> QED  BY <1>3, <1>4, <1>5

LEMMA NewTyped == NewWorker \in WorkerType /\ NewWorker.chosen = NoFrame
<1>1. 0 \in 0..(MaxIndex + 1) /\ 0 \in 0..ClaimTries  BY FrameAssumption
<1> QED  BY <1>1 DEF NewWorker, WorkerType

LEMMA OverTyped ==
    ASSUME NEW p \in {"ended", "dead", "rows"}
    PROVE  /\ [NewWorker EXCEPT !.pc = p] \in WorkerType
           /\ [NewWorker EXCEPT !.pc = p].chosen = NoFrame
           /\ Placed([NewWorker EXCEPT !.pc = p])
BY NewTyped DEF NewWorker, WorkerType, Placed

\* A worker that only goes to another place.
LEMMA AtTyped ==
    ASSUME FrameTypeOK, WorkersPlaced, NEW w \in Workers,
           worker[w].pc \notin {"none", "rows", "ended", "dead", "update"},
           NEW p \in {"own1", "take1", "own2", "take2", "insert", "byKey", "execute", "next"}
    PROVE  \E u \in WorkerType :
              At(w, p) = [worker EXCEPT ![w] = u] /\ Placed(u) /\ u.chosen = NoFrame
<1> DEFINE u == [worker[w] EXCEPT !.pc = p]
<1>1. worker[w] \in WorkerType /\ worker \in [Workers -> WorkerType]  BY WorkerTyped
<1>2. u \in WorkerType /\ u.pc = p /\ u.index = worker[w].index
      /\ u.chosen = worker[w].chosen
  BY <1>1 DEF WorkerType
<1>3. worker[w].chosen = NoFrame /\ worker[w].index <= MaxIndex
  BY DEF WorkersPlaced, Placed
<1>4. At(w, p) = [worker EXCEPT ![w] = u]  BY <1>1 DEF At
<1>5. Placed(u)  BY <1>2, <1>3 DEF Placed
<1> HIDE DEF u
<1> QED  BY <1>2, <1>3, <1>4, <1>5

-----------------------------------------------------------------------------
LEMMA FrameInitInv == FrameInit => FrameInv
<1> SUFFICES ASSUME FrameInit PROVE FrameInv  OBVIOUS
<1>1. /\ \A w \in Workers : worker[w] \in WorkerType /\ worker[w].chosen = NoFrame
                            /\ Placed(worker[w])
      /\ worker \in [Workers -> WorkerType]
  <2>1. Placed(NewWorker)  BY NewTyped DEF Placed, NewWorker
  <2>2. \A w \in Workers : worker[w] \in {NewWorker, [NewWorker EXCEPT !.pc = "rows"]}
    BY DEF FrameInit
  <2>3. \A w \in Workers : worker[w] \in WorkerType /\ worker[w].chosen = NoFrame
                           /\ Placed(worker[w])
    BY <2>1, <2>2, NewTyped, OverTyped
  <2>4. worker = [w \in Workers |-> worker[w]]  BY DEF FrameInit
  <2> QED  BY <2>3, <2>4
<1>2. FrameTypeOK
  <2>1. frame \in [Keys -> [status : {"none", "active", "ended"},
                            owner : StageSlots \cup {NoFrame}, lease : 0..FullLease]]
    BY FrameAssumption DEF FrameInit, Missing
  <2> QED  BY <1>1, <2>1 DEF FrameInit, FrameTypeOK, WorkerType
<1>3. OneLock /\ ChosenRightly /\ WorkersPlaced
  BY <1>1 DEF OneLock, ChosenRightly, WorkersPlaced
<1>4. EndsOncePerRevival  BY DEF FrameInit, EndsOncePerRevival, Missing
<1> QED  BY <1>2, <1>3, <1>4 DEF FrameInv

(* The worker.                                                             *)

LEMMA TakeRowsKeeps ==
    ASSUME FrameInv, NEW w \in Workers, TakeRows(w)
    PROVE  FrameInv' /\ HandsRight
<1>1. worker[w] \in WorkerType /\ worker \in [Workers -> WorkerType]
      /\ worker[w].pc = "rows" /\ worker[w].chosen = NoFrame
  BY WorkerTyped DEF FrameInv, TakeRows, WorkersPlaced, Placed
<1>2. UNCHANGED <<stage, frame, beats, commitCalls, ends, revivals>>  BY DEF TakeRows
<1>3. PICK u \in WorkerType :
         worker' = [worker EXCEPT ![w] = u] /\ Placed(u) /\ u.chosen = NoFrame
  <2>1. CASE worker[w].index <= MaxIndex
    <3> DEFINE u == [worker[w] EXCEPT !.pc = "stage", !.tries = 1]
    <3>1. 1 \in 0..ClaimTries  BY FrameAssumption
    <3>2. u \in WorkerType /\ u.pc = "stage" /\ u.index = worker[w].index
          /\ u.chosen = NoFrame
      BY <1>1, <3>1 DEF WorkerType
    <3>3. Placed(u)  BY <2>1, <3>2 DEF Placed
    <3>4. worker' = [worker EXCEPT ![w] = u]  BY <1>1, <2>1 DEF TakeRows
    <3> HIDE DEF u
    <3> QED  BY <3>2, <3>3, <3>4
  <2>2. CASE ~(worker[w].index <= MaxIndex)
    BY <2>2, OverTyped DEF TakeRows, Over
  <2> QED  BY <2>1, <2>2
<1> QED  BY <1>2, <1>3, WorkerMoves DEF FrameInv, FrameTypeOK

LEMMA BreakKeeps ==
    ASSUME FrameInv, NEW w \in Workers, Break(w)
    PROVE  FrameInv' /\ HandsRight
<1>1. UNCHANGED <<stage, frame, beats, commitCalls, ends, revivals>>  BY DEF Break
<1>2. worker' = [worker EXCEPT ![w] = [NewWorker EXCEPT !.pc = "ended"]]
  BY DEF Break, Over
<1> QED  BY <1>1, <1>2, OverTyped, WorkerMoves DEF FrameInv, FrameTypeOK

LEMMA NextFrameKeeps ==
    ASSUME FrameInv, NEW w \in Workers, NextFrame(w)
    PROVE  FrameInv' /\ HandsRight
<1> DEFINE u == [worker[w] EXCEPT !.pc = "rows", !.index = @ + 1]
<1>1. worker[w] \in WorkerType /\ worker \in [Workers -> WorkerType]
      /\ worker[w].pc = "next" /\ worker[w].chosen = NoFrame
      /\ worker[w].index <= MaxIndex
  BY WorkerTyped DEF FrameInv, NextFrame, WorkersPlaced, Placed
<1>2. UNCHANGED <<stage, frame, beats, commitCalls, ends, revivals>>  BY DEF NextFrame
<1>3. worker[w].index + 1 \in 0..(MaxIndex + 1)
  BY <1>1, FrameAssumption DEF WorkerType
<1>4. u \in WorkerType /\ u.pc = "rows" /\ u.chosen = NoFrame
  BY <1>1, <1>3 DEF WorkerType
<1>5. Placed(u)  BY <1>4 DEF Placed
<1>6. worker' = [worker EXCEPT ![w] = u]  BY <1>1 DEF NextFrame, WorkerType
<1> HIDE DEF u
<1> QED  BY <1>2, <1>4, <1>5, <1>6, WorkerMoves DEF FrameInv, FrameTypeOK

\* Requests are sent: the worker itself may move.
LEMMA HeartbeatKeeps ==
    ASSUME FrameInv, NEW w \in Workers, Heartbeat(w)
    PROVE  FrameInv' /\ HandsRight
<1>1. UNCHANGED <<stage, frame, worker, commitCalls, ends, revivals>>
      /\ worker[w].held # NoFrame
  BY DEF Heartbeat
<1>2. worker[w] \in WorkerType /\ worker = [worker EXCEPT ![w] = worker[w]]
      /\ SlotOf(w) \in StageSlots
  BY WorkerTyped, SlotTyped DEF FrameInv
<1>3. beats' \subseteq [slot : StageSlots, key : Keys, pc : {"sent", "read"}]
  BY <1>1, <1>2 DEF Heartbeat, FrameInv, FrameTypeOK, WorkerType
<1>4. FrameTypeOK'  BY <1>1, <1>3 DEF FrameInv, FrameTypeOK
<1>5. WorkersPlaced' /\ OneLock' /\ ChosenRightly' /\ EndsOncePerRevival' /\ HandsRight
  BY <1>1 DEF FrameInv, WorkersPlaced, OneLock, ChosenRightly, Right, Expired,
              EndsOncePerRevival, HandsRight
<1> QED  BY <1>4, <1>5 DEF FrameInv

LEMMA CommitFrameKeeps ==
    ASSUME FrameInv, NEW w \in Workers, CommitFrame(w)
    PROVE  FrameInv' /\ HandsRight
<1> DEFINE u == [worker[w] EXCEPT !.pc = "next", !.held = NoFrame]
<1>1. worker[w] \in WorkerType /\ worker \in [Workers -> WorkerType]
      /\ worker[w].pc = "execute" /\ worker[w].chosen = NoFrame
      /\ worker[w].index <= MaxIndex /\ SlotOf(w) \in StageSlots
  BY WorkerTyped, SlotTyped DEF FrameInv, CommitFrame, WorkersPlaced, Placed
<1>2. UNCHANGED <<stage, frame, beats, ends, revivals>>  BY DEF CommitFrame
<1>3. commitCalls' \subseteq [slot : StageSlots, key : Keys]
  BY <1>1 DEF CommitFrame, FrameInv, FrameTypeOK, WorkerType
<1>4. u \in WorkerType /\ u.pc = "next" /\ u.chosen = NoFrame
      /\ u.index = worker[w].index
  BY <1>1 DEF WorkerType
<1>5. Placed(u)  BY <1>1, <1>4 DEF Placed
<1>6. worker' = [worker EXCEPT ![w] = u]  BY <1>1 DEF CommitFrame, WorkerType
<1> HIDE DEF u
<1> QED  BY <1>2, <1>3, <1>4, <1>5, <1>6, WorkerMoves DEF FrameInv, FrameTypeOK

LEMMA RestartKeeps ==
    ASSUME FrameInv, NEW w \in Workers, Restart(w)
    PROVE  FrameInv' /\ HandsRight
<1> DEFINE n == <<w[1], w[2] + 1>>
<1>1. PICK dies \in BOOLEAN :
         worker' = [worker EXCEPT ![w] = IF dies THEN [NewWorker EXCEPT !.pc = "dead"] ELSE @,
                                  ![n].pc = IF @ = "none" THEN "rows" ELSE @]
  BY DEF Restart
<1>2. UNCHANGED <<stage, frame, beats, commitCalls, ends, revivals>>
      /\ worker[w].chosen = NoFrame /\ w[2] < MaxExecs[w[1]]
  BY DEF Restart, SlotOf
<1>3. n \in Workers /\ n # w
  <2>1. w[1] \in StageSlots /\ w[2] \in 1..MaxExecs[w[1]] /\ MaxExecs[w[1]] \in Nat
        /\ w = <<w[1], w[2]>>
    BY FrameAssumption DEF Workers
  <2>2. w[2] + 1 \in 1..MaxExecs[w[1]] /\ w[2] + 1 # w[2]  BY <1>2, <2>1
  <2>3. n \in {w[1]} \X (1..MaxExecs[w[1]])  BY <2>2
  <2>4. n # w  BY <2>1, <2>2
  <2> QED  BY <2>1, <2>3, <2>4 DEF Workers
<1> HIDE DEF n
<1>4. worker \in [Workers -> WorkerType]  BY WorkerTyped DEF FrameInv
<1> DEFINE a == IF dies THEN [NewWorker EXCEPT !.pc = "dead"] ELSE worker[w]
           b == [worker[n] EXCEPT !.pc = IF @ = "none" THEN "rows" ELSE @]
<1>5. a \in WorkerType /\ a.chosen = NoFrame /\ Placed(a)
  BY <1>2, <1>4, OverTyped DEF FrameInv, WorkersPlaced
<1>6. /\ b \in WorkerType /\ b.chosen = worker[n].chosen /\ b.index = worker[n].index
      /\ b.pc # worker[n].pc => b.pc = "rows"
  BY <1>3, <1>4 DEF WorkerType
<1>7. Placed(b)  BY <1>3, <1>6 DEF FrameInv, WorkersPlaced, Placed
<1>8. /\ worker' = [worker EXCEPT ![w] = a, ![n] = b]
  BY <1>1, <1>3, <1>4
<1> HIDE DEF a, b
<1>9. /\ worker' \in [Workers -> WorkerType]
      /\ worker'[w] = a /\ worker'[n] = b
      /\ \A v \in Workers : v # w /\ v # n => worker'[v] = worker[v]
  BY <1>3, <1>4, <1>5, <1>6, <1>8
<1>10. \A v \in Workers : worker'[v].chosen = worker[v].chosen
  BY <1>2, <1>3, <1>5, <1>6, <1>9
<1>11. FrameTypeOK'  BY <1>2, <1>9 DEF FrameInv, FrameTypeOK, WorkerType
<1>12. WorkersPlaced'
  BY <1>5, <1>7, <1>9 DEF FrameInv, WorkersPlaced, Placed
<1>13. OneLock'  BY <1>10 DEF FrameInv, OneLock
<1>14. ChosenRightly'
  BY <1>2, <1>10 DEF FrameInv, ChosenRightly, Right, Expired
<1>15. EndsOncePerRevival' /\ HandsRight
  BY <1>2 DEF FrameInv, EndsOncePerRevival, HandsRight
<1> QED  BY <1>11, <1>12, <1>13, <1>14, <1>15 DEF FrameInv

-----------------------------------------------------------------------------
(* The claim.                                                              *)

\* Steps in which the claim goes on without a row.
LEMMA SeekingKeeps ==
    ASSUME FrameInv, NEW w \in Workers, LoadStage(w) \/ NotOwn(w) \/ NoneExpired(w)
    PROVE  FrameInv' /\ HandsRight
<1>1. UNCHANGED <<stage, frame, beats, commitCalls, ends, revivals>>
  BY DEF LoadStage, NotOwn, NoneExpired
<1>2. worker[w].pc \in {"stage", "own1", "own2", "take1", "take2"}
  BY DEF LoadStage, NotOwn, NoneExpired
<1>3. \/ worker' = [worker EXCEPT ![w] = Retried(w)]
      \/ \E p \in {"own1", "take1", "own2", "take2", "insert"} : worker' = At(w, p)
  BY DEF LoadStage, NotOwn, NoneExpired
<1>4. PICK u \in WorkerType :
         worker' = [worker EXCEPT ![w] = u] /\ Placed(u) /\ u.chosen = NoFrame
  <2>1. Retried(w) \in WorkerType /\ Placed(Retried(w)) /\ Retried(w).chosen = NoFrame
    BY <1>2, Answered DEF FrameInv
  <2>2. \A p \in {"own1", "take1", "own2", "take2", "insert"} :
           \E u \in WorkerType :
              At(w, p) = [worker EXCEPT ![w] = u] /\ Placed(u) /\ u.chosen = NoFrame
    BY <1>2, AtTyped DEF FrameInv
  <2> QED  BY <1>3, <2>1, <2>2
<1> QED  BY <1>1, <1>4, WorkerMoves DEF FrameInv, FrameTypeOK

\* A worker that locks a row.
LEMMA RowLocked ==
    ASSUME FrameInv, NEW w \in Workers, NEW k \in Keys,
           worker[w].pc \in {"take1", "take2", "insert", "byKey"},
           worker' = [worker EXCEPT ![w].pc = "update", ![w].chosen = k],
           ~Locked(k), Right(w, k),
           UNCHANGED <<stage, frame, beats, commitCalls, ends, revivals>>
    PROVE  FrameInv' /\ HandsRight
<1> DEFINE u == [worker[w] EXCEPT !.pc = "update", !.chosen = k]
<1>1. worker[w] \in WorkerType /\ worker \in [Workers -> WorkerType]
      /\ worker[w].index <= MaxIndex
  BY WorkerTyped DEF FrameInv, WorkersPlaced, Placed
<1>2. u \in WorkerType /\ u.pc = "update" /\ u.chosen = k /\ u.index = worker[w].index
  BY <1>1 DEF WorkerType
<1>3. k # NoFrame  BY FrameAssumption DEF Keys
<1>4. Placed(u)  BY <1>1, <1>2, <1>3 DEF Placed
<1>5. worker' = [worker EXCEPT ![w] = u]  BY <1>1 DEF WorkerType
<1> HIDE DEF u
<1> QED  BY <1>2, <1>4, <1>5, WorkerMoves DEF FrameInv, FrameTypeOK

LEMMA TakeExpiredKeeps ==
    ASSUME FrameInv, NEW w \in Workers, TakeExpired(w)
    PROVE  FrameInv' /\ HandsRight
<1>1. PICK k \in Claimable :
         worker' = [worker EXCEPT ![w].pc = "update", ![w].chosen = k]
  BY DEF TakeExpired
<1>2. k \in Keys /\ Expired(k) /\ ~Locked(k)  BY DEF Claimable
<1> QED  BY <1>1, <1>2, RowLocked DEF TakeExpired, Right

LEMMA MintKeeps ==
    ASSUME FrameInv, NEW w \in Workers, Mint(w)
    PROVE  FrameInv' /\ HandsRight
<1>1. Key(w) \in Keys /\ Key(w)[1] = SlotOf(w)  BY KeyTyped DEF FrameInv, Mint
<1>2. CASE frame[Key(w)].status = "none"
  BY <1>1, <1>2, RowLocked DEF Mint, Right
<1>3. CASE frame[Key(w)].status # "none"
  <2>1. worker' = At(w, "byKey")  BY <1>3 DEF Mint
  <2>2. PICK u \in WorkerType :
           At(w, "byKey") = [worker EXCEPT ![w] = u] /\ Placed(u) /\ u.chosen = NoFrame
    BY AtTyped DEF FrameInv, Mint
  <2>3. UNCHANGED <<stage, frame, beats, commitCalls, ends, revivals>>  BY DEF Mint
  <2> QED  BY <2>1, <2>2, <2>3, WorkerMoves DEF FrameInv, FrameTypeOK
<1> QED  BY <1>2, <1>3

LEMMA TakeByKeyKeeps ==
    ASSUME FrameInv, NEW w \in Workers, TakeByKey(w)
    PROVE  FrameInv' /\ HandsRight
<1>1. Key(w) \in Keys /\ Key(w)[1] = SlotOf(w)  BY KeyTyped DEF FrameInv, TakeByKey
<1>2. CASE frame[Key(w)].status = "active" /\ ~Locked(Key(w))
  BY <1>1, <1>2, RowLocked DEF TakeByKey, Right
<1>3. CASE ~(frame[Key(w)].status = "active" /\ ~Locked(Key(w)))
  <2>1. worker' = [worker EXCEPT ![w] = Retried(w)]  BY <1>3 DEF TakeByKey
  <2>2. Retried(w) \in WorkerType /\ Placed(Retried(w)) /\ Retried(w).chosen = NoFrame
    BY Answered DEF FrameInv, TakeByKey
  <2>3. UNCHANGED <<stage, frame, beats, commitCalls, ends, revivals>>  BY DEF TakeByKey
  <2> QED  BY <2>1, <2>2, <2>3, WorkerMoves DEF FrameInv, FrameTypeOK
<1> QED  BY <1>2, <1>3

-----------------------------------------------------------------------------
(* Steps that write a frame.                                               *)

FrameType == [status : {"none", "active", "ended"}, owner : StageSlots \cup {NoFrame},
              lease : 0..FullLease]

\* A frame that nobody but worker w has locked is written; w may let go of its
\* lock.
LEMMA FrameWritten ==
    ASSUME FrameInv, NEW k \in Keys, NEW f \in FrameType, NEW w \in Workers,
           frame' = [frame EXCEPT ![k] = f],
           ~Locked(k) \/ worker[w].chosen = k,
           worker' \in [Workers -> WorkerType], WorkersPlaced',
           \A v \in Workers : v # w => worker'[v] = worker[v],
           worker'[w].chosen = NoFrame \/ (~Locked(k) /\ worker'[w] = worker[w]),
           stage' \in {"OPEN", "COMPLETED"},
           beats' \subseteq [slot : StageSlots, key : Keys, pc : {"sent", "read"}],
           commitCalls' \subseteq [slot : StageSlots, key : Keys],
           ends' \in [Keys -> Nat], revivals' \in [Keys -> Nat],
           EndsOncePerRevival'
    PROVE  FrameInv'
<1>1. /\ frame' \in [Keys -> FrameType]
      /\ \A j \in Keys : j # k => frame'[j] = frame[j]
  <2>1. frame \in [Keys -> FrameType]  BY DEF FrameInv, FrameTypeOK, FrameType
  <2> QED  BY <2>1
<1>2. FrameTypeOK'  BY <1>1 DEF FrameTypeOK, WorkerType, FrameType
<1>3. \A v \in Workers : worker'[v].chosen \in {worker[v].chosen, NoFrame}  OBVIOUS
<1>4. ASSUME NEW v \in Workers, worker'[v].chosen # NoFrame
      PROVE  Right(v, worker[v].chosen)'
  <2> DEFINE j == worker[v].chosen
  <2>1. worker'[v].chosen = j /\ j # NoFrame  BY <1>3, <1>4
  <2>2. j \in Keys /\ Right(v, j)
    BY <2>1, WorkerTyped DEF FrameInv, ChosenRightly, WorkerType
  <2>3. j # k
    <3>1. CASE v = w  BY <1>4, <2>1, <3>1 DEF Locked
    <3>2. CASE v # w
      <4>1. CASE ~Locked(k)  BY <4>1 DEF Locked
      <4>2. CASE worker[w].chosen = k
        BY <2>1, <3>2, <4>2 DEF FrameInv, OneLock
      <4> QED  BY <4>1, <4>2
    <3> QED  BY <3>1, <3>2
  <2>4. frame'[j] = frame[j]  BY <1>1, <2>2, <2>3
  <2>5. frame'[j].status = "none" \/ (frame'[j].status = "active" /\ frame'[j].lease = 0)
        \/ (frame'[j].status = "active" /\ j[1] = SlotOf(v))
    BY <2>2, <2>4 DEF Right, Expired
  <2> HIDE DEF j
  <2>6. worker'[v].chosen = j  BY <2>1
  <2> QED  BY <2>5, <2>6 DEF Right, Expired
<1> QED  BY <1>2, <1>3, <1>4, LocksKept

LEMMA ClaimOwnKeeps ==
    ASSUME FrameInv, NEW w \in Workers, ClaimOwn(w)
    PROVE  FrameInv' /\ HandsRight
<1> DEFINE k == Key(w)
           f == [frame[k] EXCEPT !.lease = FullLease]
<1>1. k \in Keys  BY KeyTyped DEF FrameInv, ClaimOwn
<1>2. frame \in [Keys -> FrameType]  BY DEF FrameInv, FrameTypeOK, FrameType
<1>3. f \in FrameType /\ f.status = frame[k].status /\ f.owner = frame[k].owner
  BY <1>1, <1>2, FrameAssumption DEF FrameType
<1>4. /\ ~Locked(k) /\ frame' = [frame EXCEPT ![k] = f]
      /\ UNCHANGED <<stage, beats, commitCalls, ends, revivals>>
  BY <1>1, <1>2 DEF ClaimOwn
<1>5. PICK u \in WorkerType :
         worker' = [worker EXCEPT ![w] = u] /\ Placed(u) /\ u.chosen = NoFrame
  BY <1>1, Answered DEF FrameInv, ClaimOwn
<1>6. /\ worker' \in [Workers -> WorkerType] /\ worker'[w] = u
      /\ \A v \in Workers : v # w => worker'[v] = worker[v]
  BY <1>5, OneWorker DEF FrameInv
<1>7. WorkersPlaced'  BY <1>5, <1>6 DEF FrameInv, WorkersPlaced, Placed
<1> HIDE DEF k, f
<1>8. /\ frame'[k] = f /\ \A j \in Keys : j # k => frame'[j] = frame[j]
  BY <1>1, <1>2, <1>4
<1>9. \A j \in Keys : frame'[j].status = frame[j].status /\ frame'[j].owner = frame[j].owner
  BY <1>3, <1>8
<1>10. EndsOncePerRevival'  BY <1>4, <1>9 DEF FrameInv, EndsOncePerRevival
<1>11. HandsRight  BY <1>9 DEF HandsRight
<1>12. /\ stage' \in {"OPEN", "COMPLETED"}
       /\ beats' \subseteq [slot : StageSlots, key : Keys, pc : {"sent", "read"}]
       /\ commitCalls' \subseteq [slot : StageSlots, key : Keys]
       /\ ends' \in [Keys -> Nat] /\ revivals' \in [Keys -> Nat]
  BY <1>4 DEF FrameInv, FrameTypeOK
<1>13. FrameInv'
  <2>1. worker'[w].chosen = NoFrame  BY <1>5, <1>6
  <2>2. ~Locked(k) /\ frame' = [frame EXCEPT ![k] = f]  BY <1>4
  <2>3. ~Locked(k) \/ worker[w].chosen = k  BY <2>2
  <2>4. \A v \in Workers : v # w => worker'[v] = worker[v]  BY <1>6
  <2>5. worker' \in [Workers -> WorkerType]  BY <1>6
  <2> QED
    BY <1>1, <1>3, <1>7, <1>10, <1>12, <2>1, <2>2, <2>3, <2>4, <2>5, FrameWritten
<1> QED  BY <1>11, <1>13

LEMMA ClaimUpdateKeeps ==
    ASSUME FrameInv, NEW w \in Workers, ClaimUpdate(w)
    PROVE  FrameInv' /\ HandsRight
<1> DEFINE k == worker[w].chosen
           f == [status |-> "active", owner |-> SlotOf(w), lease |-> FullLease]
<1>1. k \in Keys /\ k # NoFrame /\ Right(w, k)
  BY WorkerTyped DEF FrameInv, WorkersPlaced, Placed, ChosenRightly, ClaimUpdate, WorkerType
<1>2. frame \in [Keys -> FrameType]  BY DEF FrameInv, FrameTypeOK, FrameType
<1>3. f \in FrameType /\ f.status = "active" /\ f.owner = SlotOf(w)
  BY SlotTyped, FrameAssumption DEF FrameType
<1>4. /\ frame' = [frame EXCEPT ![k] = f] /\ Answer(w, k)
      /\ UNCHANGED <<stage, beats, commitCalls, ends, revivals>>
  BY DEF ClaimUpdate
<1>5. PICK u \in WorkerType :
         worker' = [worker EXCEPT ![w] = u] /\ Placed(u) /\ u.chosen = NoFrame
  BY <1>1, <1>4, Answered DEF FrameInv, ClaimUpdate
<1>6. /\ worker' \in [Workers -> WorkerType] /\ worker'[w] = u
      /\ \A v \in Workers : v # w => worker'[v] = worker[v]
  BY <1>5, OneWorker DEF FrameInv
<1>7. WorkersPlaced'  BY <1>5, <1>6 DEF FrameInv, WorkersPlaced, Placed
<1>8. /\ frame'[k] = f /\ \A j \in Keys : j # k => frame'[j] = frame[j]
  BY <1>1, <1>2, <1>4
<1>9. frame[k].status # "ended"  BY <1>1 DEF Right, Expired
<1>10. EndsOncePerRevival'
  <2> SUFFICES ASSUME NEW j \in Keys
               PROVE  ends[j] = revivals[j] + (IF frame'[j].status = "ended" THEN 1 ELSE 0)
    BY <1>4 DEF EndsOncePerRevival
  <2>1. frame'[j].status = "ended" <=> frame[j].status = "ended"
    BY <1>3, <1>8, <1>9
  <2> QED  BY <2>1 DEF FrameInv, EndsOncePerRevival
<1>11. HandsRight
  <2> SUFFICES ASSUME NEW j \in Keys, frame[j].status # "none",
                      frame'[j].owner # frame[j].owner
               PROVE  Expired(j) \/ (frame[j].status = "active" /\ frame'[j].owner = j[1])
    BY DEF HandsRight
  <2>1. j = k  BY <1>8
  <2> QED  BY <1>1, <1>3, <1>8, <2>1 DEF Right
<1>12. /\ stage' \in {"OPEN", "COMPLETED"}
       /\ beats' \subseteq [slot : StageSlots, key : Keys, pc : {"sent", "read"}]
       /\ commitCalls' \subseteq [slot : StageSlots, key : Keys]
       /\ ends' \in [Keys -> Nat] /\ revivals' \in [Keys -> Nat]
  BY <1>4 DEF FrameInv, FrameTypeOK
<1>13. FrameInv'
  <2>1. worker[w].chosen = k  OBVIOUS
  <2>2. worker'[w].chosen = NoFrame  BY <1>5, <1>6
  <2>3. frame' = [frame EXCEPT ![k] = f]  BY <1>4
  <2> HIDE DEF k, f
  <2>4. \A v \in Workers : v # w => worker'[v] = worker[v]  BY <1>6
  <2>5. worker' \in [Workers -> WorkerType]  BY <1>6
  <2> QED
    BY <1>1, <1>3, <1>7, <1>10, <1>12, <2>1, <2>2, <2>3, <2>4, <2>5, FrameWritten
<1> QED  BY <1>11, <1>13

\* A write of the server on a row that is not locked; the workers stay.
LEMMA ServerWrites ==
    ASSUME FrameInv, NEW k \in Keys, NEW f \in FrameType,
           frame' = [frame EXCEPT ![k] = f], f.owner = frame[k].owner,
           ~Locked(k), UNCHANGED <<stage, worker>>,
           beats' \subseteq beats, commitCalls' \subseteq commitCalls,
           ends' \in [Keys -> Nat], revivals' \in [Keys -> Nat], EndsOncePerRevival'
    PROVE  FrameInv' /\ HandsRight
<1>1. frame \in [Keys -> FrameType] /\ worker \in [Workers -> WorkerType]
  BY WorkerTyped DEF FrameInv, FrameTypeOK, FrameType, WorkerType
<1>2. /\ frame'[k] = f /\ \A j \in Keys : j # k => frame'[j] = frame[j]
  BY <1>1
<1>3. HandsRight  BY <1>2 DEF HandsRight
<1>4. PICK s \in StageSlots : k[1] = s  BY DEF Keys
<1>5. <<s, 1>> \in Workers
  <2>1. 1 \in 1..MaxExecs[s]  BY <1>4, FrameAssumption
  <2>2. <<s, 1>> \in {s} \X (1..MaxExecs[s])  BY <2>1
  <2> QED  BY <1>4, <2>2 DEF Workers
<1>6. WorkersPlaced'  BY DEF FrameInv, WorkersPlaced
<1>7. /\ stage' \in {"OPEN", "COMPLETED"}
      /\ beats' \subseteq [slot : StageSlots, key : Keys, pc : {"sent", "read"}]
      /\ commitCalls' \subseteq [slot : StageSlots, key : Keys]
  BY DEF FrameInv, FrameTypeOK
<1>8. FrameInv'  BY <1>1, <1>5, <1>6, <1>7, FrameWritten
<1> QED  BY <1>3, <1>8

-----------------------------------------------------------------------------
(* Heartbeat and commit in the server, and the surroundings.               *)

\* No frame is written, nobody claims.
LEMMA OnlyCallsChange ==
    ASSUME FrameInv, UNCHANGED <<frame, worker, ends, revivals>>,
           stage' \in {"OPEN", "COMPLETED"},
           beats' \subseteq [slot : StageSlots, key : Keys, pc : {"sent", "read"}],
           commitCalls' \subseteq [slot : StageSlots, key : Keys]
    PROVE  FrameInv' /\ HandsRight
<1>1. FrameTypeOK'  BY DEF FrameInv, FrameTypeOK
<1>2. WorkersPlaced' /\ OneLock' /\ ChosenRightly'
  BY DEF FrameInv, WorkersPlaced, OneLock, ChosenRightly, Right, Expired
<1>3. EndsOncePerRevival' /\ HandsRight
  BY DEF FrameInv, EndsOncePerRevival, HandsRight
<1> QED  BY <1>1, <1>2, <1>3 DEF FrameInv

LEMMA BeatReadKeeps ==
    ASSUME FrameInv, NEW r \in beats, BeatRead(r)
    PROVE  FrameInv' /\ HandsRight
<1>1. UNCHANGED <<stage, frame, worker, commitCalls, ends, revivals>>  BY DEF BeatRead
<1>2. r \in [slot : StageSlots, key : Keys, pc : {"sent", "read"}]
  BY DEF FrameInv, FrameTypeOK
<1>3. [r EXCEPT !.pc = "read"] \in [slot : StageSlots, key : Keys, pc : {"sent", "read"}]
  BY <1>2
<1>4. beats' \subseteq [slot : StageSlots, key : Keys, pc : {"sent", "read"}]
  BY <1>3 DEF BeatRead, FrameInv, FrameTypeOK
<1> QED  BY <1>1, <1>4, OnlyCallsChange DEF FrameInv, FrameTypeOK

LEMMA BeatWriteKeeps ==
    ASSUME FrameInv, NEW r \in beats, BeatWrite(r)
    PROVE  FrameInv' /\ HandsRight
<1> DEFINE k == r.key
           f == [frame[k] EXCEPT !.status = "active", !.lease = FullLease]
<1>1. k \in Keys  BY DEF FrameInv, FrameTypeOK
<1>2. /\ ~Locked(k) /\ UNCHANGED <<stage, worker, commitCalls, ends>>
      /\ beats' \subseteq beats
      /\ revivals' = [revivals EXCEPT ![k] = IF frame[k].status = "ended" THEN @ + 1 ELSE @]
  BY DEF BeatWrite
<1>3. /\ frame \in [Keys -> FrameType] /\ ends \in [Keys -> Nat]
      /\ revivals \in [Keys -> Nat]
  BY DEF FrameInv, FrameTypeOK, FrameType
<1>4. f \in FrameType /\ f.status = "active" /\ f.owner = frame[k].owner
  <2>1. FullLease \in 0..FullLease  BY FrameAssumption
  <2>2. frame[k] \in FrameType  BY <1>1, <1>3
  <2> HIDE DEF k
  <2> QED  BY <2>1, <2>2 DEF FrameType
<1>5. frame' = [frame EXCEPT ![k] = f]
  <2>1. frame' = [frame EXCEPT ![k].status = "active", ![k].lease = FullLease]
    BY DEF BeatWrite
  <2> HIDE DEF k
  <2> QED  BY <1>1, <1>3, <2>1 DEF FrameType
<1> HIDE DEF f, k
<1>6. /\ frame'[k] = f /\ \A j \in Keys : j # k => frame'[j] = frame[j]
  BY <1>1, <1>3, <1>5
<1>7. /\ revivals' \in [Keys -> Nat]
      /\ revivals'[k] = revivals[k] + (IF frame[k].status = "ended" THEN 1 ELSE 0)
      /\ \A j \in Keys : j # k => revivals'[j] = revivals[j]
  BY <1>1, <1>2, <1>3
<1>8. EndsOncePerRevival'
  <2> SUFFICES ASSUME NEW j \in Keys
               PROVE  ends[j] = revivals'[j] + (IF frame'[j].status = "ended" THEN 1 ELSE 0)
    BY <1>2 DEF EndsOncePerRevival
  <2>1. ends[j] = revivals[j] + (IF frame[j].status = "ended" THEN 1 ELSE 0)
    BY DEF FrameInv, EndsOncePerRevival
  <2>2. CASE j # k  BY <1>6, <1>7, <2>1, <2>2
  <2>3. CASE j = k
    <3>1. frame'[k].status # "ended" /\ ends[k] = revivals'[k]
      BY <1>4, <1>6, <1>7, <2>1, <2>3
    <3> QED  BY <1>7, <2>3, <3>1
  <2> QED  BY <2>2, <2>3
<1>9. ends' \in [Keys -> Nat] /\ commitCalls' \subseteq commitCalls  BY <1>2, <1>3
<1> QED  BY <1>1, <1>2, <1>4, <1>5, <1>7, <1>8, <1>9, ServerWrites

LEMMA ServeCommitKeeps ==
    ASSUME FrameInv, NEW r \in commitCalls, ServeCommit(r)
    PROVE  FrameInv' /\ HandsRight
<1> DEFINE k == r.key
           f == [frame[k] EXCEPT !.status = "ended"]
<1>1. k \in Keys  BY DEF FrameInv, FrameTypeOK
<1>2. /\ ~Locked(k) /\ UNCHANGED <<stage, worker, beats, revivals>>
      /\ commitCalls' \subseteq commitCalls
  BY DEF ServeCommit
<1>3. /\ frame \in [Keys -> FrameType] /\ ends \in [Keys -> Nat]
      /\ revivals \in [Keys -> Nat]
  BY DEF FrameInv, FrameTypeOK, FrameType
<1>4. CASE ~OwnedActive(r)
  <2>1. UNCHANGED <<frame, ends>>  BY <1>4 DEF ServeCommit
  <2> QED  BY <1>2, <2>1, OnlyCallsChange DEF FrameInv, FrameTypeOK
<1>5. CASE OwnedActive(r)
  <2>1. f \in FrameType /\ f.status = "ended" /\ f.owner = frame[k].owner
    BY <1>1, <1>3 DEF FrameType
  <2>2. frame' = [frame EXCEPT ![k] = f] /\ ends' = [ends EXCEPT ![k] = @ + 1]
    BY <1>1, <1>3, <1>5 DEF ServeCommit
  <2>3. frame[k].status = "active"  BY <1>5 DEF OwnedActive
  <2> HIDE DEF f, k
  <2>4. /\ frame'[k] = f /\ \A j \in Keys : j # k => frame'[j] = frame[j]
    BY <1>1, <1>3, <2>2
  <2>5. /\ ends' \in [Keys -> Nat] /\ ends'[k] = ends[k] + 1
        /\ \A j \in Keys : j # k => ends'[j] = ends[j]
    BY <1>1, <1>3, <2>2
  <2>6. EndsOncePerRevival'
    <3> SUFFICES ASSUME NEW j \in Keys
                 PROVE  ends'[j] = revivals[j] + (IF frame'[j].status = "ended" THEN 1 ELSE 0)
      BY <1>2 DEF EndsOncePerRevival
    <3>1. ends[j] = revivals[j] + (IF frame[j].status = "ended" THEN 1 ELSE 0)
      BY DEF FrameInv, EndsOncePerRevival
    <3>2. CASE j # k  BY <2>4, <2>5, <3>1, <3>2
    <3>3. CASE j = k
      <4>1. ends[k] = revivals[k]  BY <1>1, <1>3, <2>3, <3>1, <3>3
      <4> QED  BY <2>1, <2>4, <2>5, <3>3, <4>1
    <3> QED  BY <3>2, <3>3
  <2>7. revivals' \in [Keys -> Nat] /\ beats' \subseteq beats  BY <1>2, <1>3
  <2> QED  BY <1>1, <1>2, <2>1, <2>2, <2>5, <2>6, <2>7, ServerWrites
<1> QED  BY <1>4, <1>5

LEMMA LoseOrCloseKeeps ==
    ASSUME FrameInv, LoseCall \/ CloseStage
    PROVE  FrameInv' /\ HandsRight
<1>1. UNCHANGED <<frame, worker, ends, revivals>>  BY DEF LoseCall, CloseStage
<1>2. stage' \in {"OPEN", "COMPLETED"}  BY DEF LoseCall, CloseStage, FrameInv, FrameTypeOK
<1>3. /\ beats' \subseteq [slot : StageSlots, key : Keys, pc : {"sent", "read"}]
      /\ commitCalls' \subseteq [slot : StageSlots, key : Keys]
  BY DEF LoseCall, CloseStage, FrameInv, FrameTypeOK
<1> QED  BY <1>1, <1>2, <1>3, OnlyCallsChange

LEMMA FrameTickKeeps ==
    ASSUME FrameInv, FrameTick
    PROVE  FrameInv' /\ HandsRight
<1>1. UNCHANGED <<stage, worker, beats, commitCalls, ends, revivals>>  BY DEF FrameTick
<1>2. frame \in [Keys -> FrameType]  BY DEF FrameInv, FrameTypeOK, FrameType
<1>3. \A k \in Keys :
         /\ frame'[k] \in FrameType
         /\ frame'[k].status = frame[k].status /\ frame'[k].owner = frame[k].owner
         /\ frame[k].lease = 0 => frame'[k].lease = 0
  <2> SUFFICES ASSUME NEW k \in Keys
               PROVE  /\ frame'[k] \in FrameType
                      /\ frame'[k].status = frame[k].status
                      /\ frame'[k].owner = frame[k].owner
                      /\ frame[k].lease = 0 => frame'[k].lease = 0
    OBVIOUS
  <2> DEFINE n == IF frame[k].status = "active" /\ frame[k].lease > 0
                  THEN frame[k].lease - 1 ELSE frame[k].lease
  <2>1. frame'[k] = [frame[k] EXCEPT !.lease = n]  BY DEF FrameTick
  <2>2. frame[k] \in FrameType /\ frame[k].lease \in 0..FullLease
    BY <1>2 DEF FrameType
  <2>3. n \in 0..FullLease /\ (frame[k].lease = 0 => n = 0)
    BY <2>2, FrameAssumption
  <2> HIDE DEF n
  <2> QED  BY <2>1, <2>2, <2>3 DEF FrameType
<1>4. frame' \in [Keys -> FrameType]
  <2>1. frame' = [k \in Keys |-> frame'[k]]  BY DEF FrameTick
  <2> QED  BY <1>3, <2>1
<1>5. FrameTypeOK'  BY <1>1, <1>4 DEF FrameInv, FrameTypeOK, FrameType
<1>6. WorkersPlaced' /\ OneLock'  BY <1>1 DEF FrameInv, WorkersPlaced, OneLock
<1>7. ChosenRightly'
  <2> SUFFICES ASSUME NEW w \in Workers, worker[w].chosen # NoFrame
               PROVE  Right(w, worker[w].chosen)'
    BY <1>1 DEF ChosenRightly
  <2> DEFINE k == worker[w].chosen
  <2>1. k \in Keys /\ Right(w, k)
    BY WorkerTyped DEF FrameInv, ChosenRightly, WorkerType
  <2>2. frame'[k].status = "none" \/ (frame'[k].status = "active" /\ frame'[k].lease = 0)
        \/ (frame'[k].status = "active" /\ k[1] = SlotOf(w))
    BY <1>3, <2>1 DEF Right, Expired
  <2>3. worker'[w].chosen = k  BY <1>1
  <2> HIDE DEF k
  <2> QED  BY <2>2, <2>3 DEF Right, Expired
<1>8. EndsOncePerRevival'  BY <1>1, <1>3 DEF FrameInv, EndsOncePerRevival
<1>9. HandsRight  BY <1>3 DEF HandsRight
<1> QED  BY <1>5, <1>6, <1>7, <1>8, <1>9 DEF FrameInv

-----------------------------------------------------------------------------
LEMMA FrameStepKeeps ==
    ASSUME FrameInv, [FrameNext]_frameVars
    PROVE  FrameInv' /\ HandsRight
<1>1. ASSUME NEW w \in Workers,
             TakeRows(w) \/ Break(w) \/ NextFrame(w) \/ Heartbeat(w) \/ CommitFrame(w)
             \/ Restart(w)
      PROVE  FrameInv' /\ HandsRight
  BY <1>1, TakeRowsKeeps, BreakKeeps, NextFrameKeeps, HeartbeatKeeps, CommitFrameKeeps,
     RestartKeeps
<1>2. ASSUME NEW w \in Workers, ClaimStep(w)
      PROVE  FrameInv' /\ HandsRight
  BY <1>2, SeekingKeeps, ClaimOwnKeeps, TakeExpiredKeeps, MintKeeps, TakeByKeyKeeps,
     ClaimUpdateKeeps DEF ClaimStep
<1>3. CASE \E r \in beats : BeatRead(r) \/ BeatWrite(r)
  BY <1>3, BeatReadKeeps, BeatWriteKeeps
<1>4. CASE \E r \in commitCalls : ServeCommit(r)  BY <1>4, ServeCommitKeeps
<1>5. CASE LoseCall \/ CloseStage  BY <1>5, LoseOrCloseKeeps
<1>6. CASE FrameTick  BY <1>6, FrameTickKeeps
<1>7. CASE UNCHANGED frameVars
  BY <1>7, OnlyCallsChange DEF frameVars, FrameInv, FrameTypeOK
<1> QED  BY <1>1, <1>2, <1>3, <1>4, <1>5, <1>6, <1>7 DEF FrameNext

LEMMA FrameInvariant == FrameSpec => []FrameInv
<1>1. FrameInit => FrameInv  BY FrameInitInv
<1>2. FrameInv /\ [FrameNext]_frameVars => FrameInv'  BY FrameStepKeeps
<1> QED  BY <1>1, <1>2, PTL DEF FrameSpec

\* Stages, frames, workers and requests keep to their types.
THEOREM FrameTypes == FrameSpec => []FrameTypeOK
<1>1. FrameInv => FrameTypeOK  BY DEF FrameInv
<1> QED  BY <1>1, FrameInvariant, PTL

\* For any slots, executions and leases, a frame ends a second time only after a
\* heartbeat has set it back (_commit_frame, _heartbeat_frame).
THEOREM FramesEndOncePerRevival == FrameSpec => []EndsOncePerRevival
<1>1. FrameInv => EndsOncePerRevival  BY DEF FrameInv
<1> QED  BY <1>1, FrameInvariant, PTL

\* A frame changes hands only when its lease is over or its slot takes it back:
\* what a claim saw when it locked the row is still so when it writes.
THEOREM HandsChangeRightly == FrameSpec => ChangesHandsRightly
<1>1. FrameInv /\ [FrameNext]_frameVars =>
         [\A k \in Keys :
            frame[k].status # "none" /\ frame'[k].owner # frame[k].owner
            => Expired(k) \/ (frame[k].status = "active" /\ frame'[k].owner = k[1])]_frameVars
  BY FrameStepKeeps DEF HandsRight
<1> QED  BY <1>1, FrameInvariant, PTL DEF FrameSpec, ChangesHandsRightly
=============================================================================

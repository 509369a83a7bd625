---- MODULE FrameLease ----
(***************************************************************************)
(* Frames of a cursor loop (server/api/frames/endpoint.py) and the workers *)
(* that process them (worker/cursor_worker.py).  A stage is one epoch of   *)
(* the loop.  Each of its slots is a command; a worker that executes it    *)
(* claims rows, takes a frame for them, and commits the frame.  A command  *)
(* that is executed again (its worker died, or is only slow) starts over   *)
(* from frame 0 under the same worker id, the name of the slot.            *)
(*                                                                         *)
(* A claim is one transaction, cut at its statements: row locks are taken  *)
(* on the way and kept until the commit.  A frame has its claim key        *)
(* <<slot, index>> for a name (idx_frame_claim_key_unique).                *)
(***************************************************************************)
EXTENDS Naturals, FiniteSets

CONSTANTS StageSlots,       \* worker slots of the stage
          MaxExecs,    \* executions of each slot's command
          MaxIndex,    \* batches of rows a slot finds are MaxIndex + 1
          FullLease,   \* lease_seconds, in ticks
          ClaimTries,  \* attempts of _claim_runtime_frame
          NoFrame      \* no frame

ASSUME FrameAssumption ==
    /\ MaxExecs \in [StageSlots -> Nat \ {0}]
    /\ MaxIndex \in Nat
    /\ FullLease \in Nat \ {0}
    /\ ClaimTries \in Nat \ {0}
    /\ NoFrame \notin StageSlots \X (0..MaxIndex)

VARIABLES
    stage,      \* noetl.stage.status
    frame,      \* committed rows of noetl.frame
    worker,     \* executions of the slots' commands
    beats,      \* heartbeat requests under way
    commitCalls,\* commit requests under way
    ends,       \* history: terminal events of each frame
    revivals    \* history: terminal frames set back by a heartbeat

frameVars == <<stage, frame, worker, beats, commitCalls, ends, revivals>>

Keys    == StageSlots \X (0..MaxIndex)
Workers == UNION {{s} \X (1..MaxExecs[s]) : s \in StageSlots}
SlotOf(w) == w[1]

\* "active": CLAIMED or RUNNING; "ended": COMPLETED or FAILED.
Missing  == [status |-> "none", owner |-> NoFrame, lease |-> 0]

\* index: of the next frame; held: the frame of the claim response; chosen: the
\* row the claim transaction has locked; tries: claims of this frame.
NewWorker == [pc |-> "none", index |-> 0, held |-> NoFrame, chosen |-> NoFrame, tries |-> 0]

FrameInit ==
    /\ stage = "OPEN"
    /\ frame = [k \in Keys |-> Missing]
    /\ worker = [w \in Workers |-> IF w[2] = 1 THEN [NewWorker EXCEPT !.pc = "rows"]
                                   ELSE NewWorker]
    /\ beats = {}
    /\ commitCalls = {}
    /\ ends = [k \in Keys |-> 0]
    /\ revivals = [k \in Keys |-> 0]

Locked(k) == \E w \in Workers : worker[w].chosen = k
Key(w)    == <<SlotOf(w), worker[w].index>>
Expired(k)   == frame[k].status = "active" /\ frame[k].lease = 0
At(w, p)     == [worker EXCEPT ![w].pc = p]
Over(w)      == [worker EXCEPT ![w] = [NewWorker EXCEPT !.pc = "ended"]]

----
(* The worker. *)

\* Rows for another frame, or none: the slot is drained and reports its end.
TakeRows(w) ==
    /\ worker[w].pc = "rows"
    /\ worker' = IF worker[w].index <= MaxIndex
                 THEN [worker EXCEPT ![w].pc = "stage", ![w].tries = 1]
                 ELSE Over(w)
    /\ UNCHANGED <<stage, frame, beats, commitCalls, ends, revivals>>

\* A drained slot, or a task sequence that breaks, ends the command.
Break(w) ==
    /\ worker[w].pc = "next"
    /\ worker' = Over(w)
    /\ UNCHANGED <<stage, frame, beats, commitCalls, ends, revivals>>

NextFrame(w) ==
    /\ worker[w].pc = "next"
    /\ worker' = [worker EXCEPT ![w].pc = "rows", ![w].index = @ + 1]
    /\ UNCHANGED <<stage, frame, beats, commitCalls, ends, revivals>>

\* frames/{id}/heartbeat before the tasks and, from a thread, during them.  The
\* worker does not depend on the answer: a slow request outlives its sender.
Heartbeat(w) ==
    /\ worker[w].pc = "execute"
    /\ worker[w].held # NoFrame
    /\ beats' = beats \cup {[slot |-> SlotOf(w), key |-> worker[w].held, pc |-> "sent"]}
    /\ UNCHANGED <<stage, frame, worker, commitCalls, ends, revivals>>

\* frames/{id}/commit: a failure is only logged.
CommitFrame(w) ==
    /\ worker[w].pc = "execute"
    /\ commitCalls' = IF worker[w].held = NoFrame THEN commitCalls
                      ELSE commitCalls \cup {[slot |-> SlotOf(w), key |-> worker[w].held]}
    /\ worker' = [worker EXCEPT ![w].pc = "next", ![w].held = NoFrame]
    /\ UNCHANGED <<stage, frame, beats, ends, revivals>>

\* A worker dies, or is taken for dead, and the command is executed once more.
Restart(w) ==
    /\ worker[w].pc \notin {"none", "ended", "dead"}
    /\ worker[w].chosen = NoFrame
    /\ w[2] < MaxExecs[SlotOf(w)]
    /\ \E dies \in BOOLEAN :
          worker' = [worker EXCEPT ![w] = IF dies THEN [NewWorker EXCEPT !.pc = "dead"] ELSE @,
                                   ![<<w[1], w[2] + 1>>].pc = IF @ = "none" THEN "rows" ELSE @]
    /\ UNCHANGED <<stage, frame, beats, commitCalls, ends, revivals>>

----
(* The claim. *)

\* Mutant: attempts are not counted.
RetriedForEver(w) == [worker[w] EXCEPT !.chosen = NoFrame, !.pc = "stage"]

\* A request that fails is repeated; after the last one the rows are processed
\* without a frame.
Retried(w) ==
    [worker[w] EXCEPT !.chosen = NoFrame,
                      !.tries = IF @ < ClaimTries THEN @ + 1 ELSE 0,
                      !.pc = IF worker[w].tries < ClaimTries THEN "stage" ELSE "execute"]

\* The answer arrives, or is lost.
Answer(w, k) ==
    \/ worker' = [worker EXCEPT ![w] = [@ EXCEPT !.pc = "execute", !.held = k,
                                                 !.chosen = NoFrame, !.tries = 0]]
    \/ worker' = [worker EXCEPT ![w] = Retried(w)]

LoadStage(w) ==
    /\ worker[w].pc = "stage"
    /\ worker' = IF stage = "OPEN" THEN At(w, "own1") ELSE [worker EXCEPT ![w] = Retried(w)]
    /\ UNCHANGED <<stage, frame, beats, commitCalls, ends, revivals>>

\* _load_idempotent_claimed_frame waits for the lock of the worker's own frame;
\* its lease is renewed and the claim is over.  It is tried twice.
Own(w) == frame[Key(w)].status = "active" /\ frame[Key(w)].owner = SlotOf(w)
ClaimOwn(w) ==
    /\ worker[w].pc \in {"own1", "own2"}
    /\ Own(w)
    /\ ~Locked(Key(w))
    /\ frame' = [frame EXCEPT ![Key(w)].lease = FullLease]
    /\ Answer(w, Key(w))
    /\ UNCHANGED <<stage, beats, commitCalls, ends, revivals>>

NotOwn(w) ==
    /\ worker[w].pc \in {"own1", "own2"}
    /\ ~Own(w)
    /\ worker' = At(w, IF worker[w].pc = "own1" THEN "take1" ELSE "take2")
    /\ UNCHANGED <<stage, frame, beats, commitCalls, ends, revivals>>

\* Mutant: the lease is not looked at.
ClaimableActive == {k \in Keys : frame[k].status = "active" /\ ~Locked(k)}

\* _load_claimable_frame: a frame of the stage whose lease is over, whatever its
\* slot, locked rows skipped.  (The code takes the one with the least id; PENDING
\* rows are never committed.)
Claimable == {k \in Keys : Expired(k) /\ ~Locked(k)}
TakeExpired(w) ==
    /\ worker[w].pc \in {"take1", "take2"}
    /\ \E k \in Claimable :
          worker' = [worker EXCEPT ![w].pc = "update", ![w].chosen = k]
    /\ UNCHANGED <<stage, frame, beats, commitCalls, ends, revivals>>

NoneExpired(w) ==
    /\ worker[w].pc \in {"take1", "take2"}
    /\ Claimable = {}
    /\ worker' = At(w, IF worker[w].pc = "take1" THEN "own2" ELSE "insert")
    /\ UNCHANGED <<stage, frame, beats, commitCalls, ends, revivals>>

\* INSERT ... ON CONFLICT DO NOTHING: it waits for another transaction that is
\* inserting the key; a key in use, terminal frames included, is a conflict.
Mint(w) ==
    /\ worker[w].pc = "insert"
    /\ ~(frame[Key(w)].status = "none" /\ Locked(Key(w)))
    /\ worker' = IF frame[Key(w)].status = "none"
                 THEN [worker EXCEPT ![w].pc = "update", ![w].chosen = Key(w)]
                 ELSE At(w, "byKey")
    /\ UNCHANGED <<stage, frame, beats, commitCalls, ends, revivals>>

\* _load_frame_by_claim_key: an active frame under the key, expired or not; 409
\* when it is terminal or locked.
TakeByKey(w) ==
    /\ worker[w].pc = "byKey"
    /\ worker' = IF frame[Key(w)].status = "active" /\ ~Locked(Key(w))
                 THEN [worker EXCEPT ![w].pc = "update", ![w].chosen = Key(w)]
                 ELSE [worker EXCEPT ![w] = Retried(w)]
    /\ UNCHANGED <<stage, frame, beats, commitCalls, ends, revivals>>

\* The UPDATE has no condition but the id; the transaction commits.
ClaimUpdate(w) ==
    /\ worker[w].pc = "update"
    /\ LET k == worker[w].chosen
       IN /\ frame' = [frame EXCEPT ![k] = [status |-> "active", owner |-> SlotOf(w),
                                            lease |-> FullLease]]
          /\ Answer(w, k)
    /\ UNCHANGED <<stage, beats, commitCalls, ends, revivals>>

----
(* Heartbeat and commit in the server. *)

\* Mutant: only the owner is looked at.
OwnedOnly(r) == frame[r.key].owner = r.slot

OwnedActive(r) == frame[r.key].status = "active" /\ frame[r.key].owner = r.slot

\* The statement looks for the row in its snapshot (WITH active), then updates
\* by id once the row is free: the new version is not asked again.
BeatRead(r) ==
    /\ r \in beats /\ r.pc = "sent"
    /\ beats' = (beats \ {r}) \cup (IF OwnedActive(r) THEN {[r EXCEPT !.pc = "read"]} ELSE {})
    /\ UNCHANGED <<stage, frame, worker, commitCalls, ends, revivals>>

BeatWrite(r) ==
    /\ r \in beats /\ r.pc = "read"
    /\ ~Locked(r.key)
    /\ frame' = [frame EXCEPT ![r.key].status = "active", ![r.key].lease = FullLease]
    /\ revivals' = [revivals EXCEPT ![r.key] =
                      IF frame[r.key].status = "ended" THEN @ + 1 ELSE @]
    /\ beats' = beats \ {r}
    /\ UNCHANGED <<stage, worker, commitCalls, ends>>

\* The conditions of commit are on the updated row itself: they are evaluated
\* again after a wait.
ServeCommit(r) ==
    /\ r \in commitCalls
    /\ ~Locked(r.key)
    /\ IF OwnedActive(r)
       THEN /\ frame' = [frame EXCEPT ![r.key].status = "ended"]
            /\ ends' = [ends EXCEPT ![r.key] = @ + 1]
       ELSE UNCHANGED <<frame, ends>>
    /\ commitCalls' = commitCalls \ {r}
    /\ UNCHANGED <<stage, worker, beats, revivals>>

LoseCall ==
    /\ \/ \E r \in beats : beats' = beats \ {r} /\ UNCHANGED commitCalls
       \/ \E r \in commitCalls : commitCalls' = commitCalls \ {r} /\ UNCHANGED beats
    /\ UNCHANGED <<stage, frame, worker, ends, revivals>>

\* _close_runtime_stage_for_loop, when each slot has reported its end.
CloseStage ==
    /\ stage = "OPEN"
    /\ \A s \in StageSlots : \E n \in 1..MaxExecs[s] : worker[<<s, n>>].pc = "ended"
    /\ stage' = "COMPLETED"
    /\ UNCHANGED <<frame, worker, beats, commitCalls, ends, revivals>>

FrameTick ==
    /\ frame' = [k \in Keys |->
                   [frame[k] EXCEPT !.lease =
                      IF frame[k].status = "active" /\ @ > 0 THEN @ - 1 ELSE @]]
    /\ frame' # frame
    /\ UNCHANGED <<stage, worker, beats, commitCalls, ends, revivals>>

ClaimStep(w) ==
    \/ LoadStage(w) \/ ClaimOwn(w) \/ NotOwn(w) \/ TakeExpired(w)
    \/ NoneExpired(w) \/ Mint(w) \/ TakeByKey(w) \/ ClaimUpdate(w)

FrameNext ==
    \/ \E w \in Workers : TakeRows(w) \/ Break(w) \/ NextFrame(w) \/ Heartbeat(w)
                          \/ CommitFrame(w) \/ Restart(w) \/ ClaimStep(w)
    \/ \E r \in beats : BeatRead(r) \/ BeatWrite(r)
    \/ \E r \in commitCalls : ServeCommit(r)
    \/ LoseCall \/ CloseStage \/ FrameTick

FrameSpec == FrameInit /\ [][FrameNext]_frameVars

\* The server works on requests, workers go on, tasks end.
FrameFairness ==
    /\ \A w \in Workers : WF_frameVars(TakeRows(w) \/ ClaimStep(w))
    /\ \A w \in Workers : WF_frameVars(CommitFrame(w)) /\ WF_frameVars(NextFrame(w) \/ Break(w))
    /\ WF_frameVars(CloseStage)

----
(* Properties. *)

FrameTypeOK ==
    /\ stage \in {"OPEN", "COMPLETED"}
    /\ frame \in [Keys -> [status : {"none", "active", "ended"},
                           owner : StageSlots \cup {NoFrame}, lease : 0..FullLease]]
    /\ worker \in [Workers ->
          [pc : {"none", "rows", "stage", "own1", "take1", "own2", "take2", "insert", "byKey",
                 "update", "execute", "next", "ended", "dead"},
           index : 0..(MaxIndex + 1), held : Keys \cup {NoFrame},
           chosen : Keys \cup {NoFrame}, tries : 0..ClaimTries]]
    /\ beats \subseteq [slot : StageSlots, key : Keys, pc : {"sent", "read"}]
    /\ commitCalls \subseteq [slot : StageSlots, key : Keys]
    /\ ends \in [Keys -> Nat] /\ revivals \in [Keys -> Nat]

\* A frame gets a second terminal event only after a heartbeat has set it back:
\* claims, repeated commits and commits of former owners never end it again.
EndsOncePerRevival ==
    \A k \in Keys : ends[k] = revivals[k] + (IF frame[k].status = "ended" THEN 1 ELSE 0)

\* A frame changes hands only when its lease is over, or when the slot whose
\* rows it was minted for takes it back by its key (_load_frame_by_claim_key).
ChangesHandsRightly ==
    [][\A k \in Keys :
         frame[k].status # "none" /\ frame'[k].owner # frame[k].owner
         => Expired(k) \/ (frame[k].status = "active" /\ frame'[k].owner = k[1])]_frameVars

\* A stage in which a slot has begun is closed, although workers die and claims
\* fail: a slot that gets no frame processes its rows without one.
EventuallyClosed ==
    (\E w \in Workers : worker[w].pc \notin {"none", "rows"}) ~> (stage = "COMPLETED")
====

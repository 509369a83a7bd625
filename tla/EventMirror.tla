---------------------------- MODULE EventMirror ----------------------------
(***************************************************************************)
(* The path of an event from noetl.event to the projection rows.           *)
(*                                                                         *)
(* A transaction that appends an event inserts its outbox row; drainers    *)
(* (the publisher process, the drain every server runs after a commit, the *)
(* system playbook over HTTP) claim rows in batches, publish each one on   *)
(* the event stream and mark it; the projectors of a shard pull messages   *)
(* of the stream through one durable consumer, fold them, upsert the       *)
(* record of the execution and the record of the frame, and acknowledge.   *)
(*                                                                         *)
(* Time is abstract: a failed row waits for its back-off and a message     *)
(* that is held waits for its acknowledgement time.                        *)
(***************************************************************************)
EXTENDS Naturals, Sequences, FiniteSets

CONSTANTS Events,      \* events that are appended
          VersionOf,   \* the order number of an event: stream_version or event_id
          Records,     \* the records: execution/<id>, frame/<id>
          RecordsOf,   \* those an event is folded into, in the order they are saved
          Drainers,    \* concurrent runs of publish_outbox_batch
          BatchLimit,  \* rows one claim takes
          MaxInflight, \* messages the projectors of the shard hold at a time
          MaxDeliver,  \* deliveries of one message
          MaxFailures, \* bound: calls that end in an error, in all
          Strands,     \* whether a drainer may die or fail to mark a failure
          NoEvent

ASSUME MirrorAssumption ==
    /\ VersionOf \in [Events -> Nat \ {0}]
    /\ RecordsOf \in [Events -> Seq(Records)]
    /\ BatchLimit \in Nat \ {0} /\ MaxInflight \in Nat /\ MaxDeliver \in Nat
    /\ MaxFailures \in Nat /\ Strands \in BOOLEAN
    /\ NoEvent \notin Events

VARIABLES
    row,     \* noetl.outbox.status of the event's row; "waiting": failed, not yet available
    batch,   \* rows a drainer has claimed and not handled yet
    doing,   \* the row it handles and how far it is
    stream,  \* the messages of the event stream and their deliveries
    shown,   \* the event the record of a key was last folded from
    failures \* calls that ended in an error so far

mirrorVars == <<row, batch, doing, stream, shown, failures>>

RowStatuses == {"absent", "ready", "waiting", "inFlight", "published"}
IdleDrainer == [event |-> NoEvent, step |-> "publish"]
Message == [event : Events, state : {"queued", "held", "acked"},
            tries : 0..MaxDeliver, saved : Nat]

Version(e) == IF e = NoEvent THEN 0 ELSE VersionOf[e]

MirrorTypeOK ==
    /\ row \in [Events -> RowStatuses]
    /\ batch \in [Drainers -> SUBSET Events]
    /\ doing \in [Drainers -> [event : Events \cup {NoEvent},
                               step : {"publish", "mark", "fail"}]]
    /\ stream \in Seq(Message)
    /\ shown \in [Records -> Events \cup {NoEvent}]
    /\ failures \in 0..MaxFailures

MirrorInit ==
    /\ row = [e \in Events |-> "absent"]
    /\ batch = [d \in Drainers |-> {}]
    /\ doing = [d \in Drainers |-> IdleDrainer]
    /\ stream = <<>>
    /\ shown = [k \in Records |-> NoEvent]
    /\ failures = 0

CallFails == failures < MaxFailures /\ failures' = failures + 1

-----------------------------------------------------------------------------
(* The outbox                                                              *)

\* The order number is drawn before the commit, so that events may become
\* visible in another order.
AppendEvent(e) ==
    /\ row[e] = "absent"
    /\ row' = [row EXCEPT ![e] = "ready"]
    /\ UNCHANGED <<batch, doing, stream, shown, failures>>

BackoffOver(e) ==
    /\ row[e] = "waiting"
    /\ row' = [row EXCEPT ![e] = "ready"]
    /\ UNCHANGED <<batch, doing, stream, shown, failures>>

Takeable == {e \in Events : row[e] = "ready"}

\* The oldest rows up to the limit; the order in which the drainer handles them
\* is the order UPDATE ... RETURNING gives, any.
ClaimBatch(d) ==
    /\ batch[d] = {} /\ Takeable # {}
    /\ \E S \in SUBSET Takeable :
        /\ Cardinality(S) <= BatchLimit
        /\ S = Takeable \/ Cardinality(S) = BatchLimit
        /\ \A e \in S, o \in Takeable \ S : VersionOf[e] <= VersionOf[o]
        /\ batch' = [batch EXCEPT ![d] = S]
        /\ row' = [e \in Events |-> IF e \in S THEN "inFlight" ELSE row[e]]
    /\ UNCHANGED <<doing, stream, shown, failures>>

Copies(e, n) ==
    [i \in 1..n |-> [event |-> e, state |-> "queued", tries |-> 0, saved |-> 0]]

\* The broker may have stored a message whose publication raised: publish_event
\* publishes once more after a reconnect, so that 0, 1 or 2 copies are stored.
Publish(d) ==
    \E e \in batch[d], n \in 0..2, ok \in BOOLEAN :
        /\ doing[d] = IdleDrainer
        /\ \/ n = 1 /\ ok /\ failures' = failures
           \/ (ok => n > 0) /\ CallFails
        /\ stream' = stream \o Copies(e, n)
        /\ doing' = [doing EXCEPT ![d] = [event |-> e, step |-> IF ok THEN "mark" ELSE "fail"]]
        /\ UNCHANGED <<row, batch, shown>>

Done(d, e) ==
    /\ batch' = [batch EXCEPT ![d] = @ \ {e}]
    /\ doing' = [doing EXCEPT ![d] = IdleDrainer]

\* An update that raises may or may not have been committed.
MarkPublished(d) ==
    LET e == doing[d].event IN
    /\ doing[d].step = "mark"
    /\ \/ row' = [row EXCEPT ![e] = "published"] /\ Done(d, e) /\ failures' = failures
       \/ /\ row' \in {row, [row EXCEPT ![e] = "published"]}
          /\ doing' = [doing EXCEPT ![d].step = "fail"] /\ UNCHANGED batch
          /\ CallFails
    /\ UNCHANGED <<stream, shown>>

\* The drainer forgets its batch; the rows stay as they are.
Forget(d) ==
    /\ batch' = [batch EXCEPT ![d] = {}]
    /\ doing' = [doing EXCEPT ![d] = IdleDrainer]

\* An error here leaves the loop: the rest of the batch is given up.
MarkFailed(d) ==
    LET e == doing[d].event IN
    /\ doing[d].step = "fail"
    /\ \/ row' = [row EXCEPT ![e] = "waiting"] /\ Done(d, e) /\ failures' = failures
       \/ /\ Strands /\ CallFails
          /\ row' \in {row, [row EXCEPT ![e] = "waiting"]}
          /\ Forget(d)
    /\ UNCHANGED <<stream, shown>>

DrainerDies(d) ==
    /\ Strands /\ batch[d] # {} /\ CallFails
    /\ Forget(d)
    /\ UNCHANGED <<row, stream, shown>>

-----------------------------------------------------------------------------
(* The projectors                                                          *)

HeldMessages == {i \in DOMAIN stream : stream[i].state = "held"}

\* Mutant: a message is delivered one time.
DeliverOnce(i) ==
    /\ stream[i].state = "queued" /\ Cardinality(HeldMessages) < MaxInflight
    /\ stream[i].tries = 0 /\ \A j \in 1..(i - 1) : stream[j].tries > 0
    /\ stream' = [stream EXCEPT ![i].state = "held", ![i].tries = @ + 1, ![i].saved = 0]
    /\ UNCHANGED <<row, batch, doing, shown, failures>>

\* First deliveries come in the order of the stream, others when they are due.
Deliver(i) ==
    /\ stream[i].state = "queued" /\ Cardinality(HeldMessages) < MaxInflight
    /\ stream[i].tries < MaxDeliver
    /\ stream[i].tries = 0 => \A j \in 1..(i - 1) : stream[j].tries > 0
    /\ stream' = [stream EXCEPT ![i].state = "held", ![i].tries = @ + 1, ![i].saved = 0]
    /\ UNCHANGED <<row, batch, doing, shown, failures>>

\* Mutant: an upsert without its version condition.
UpsertAlways(k, e) == shown' = [shown EXCEPT ![k] = e]

Upsert(k, e) ==
    shown' = IF Version(shown[k]) <= VersionOf[e] THEN [shown EXCEPT ![k] = e] ELSE shown

\* The record of the execution, then that of the frame, each in a transaction.
SaveRecord(i) ==
    LET e == stream[i].event
        n == stream[i].saved + 1
    IN  /\ stream[i].state = "held" /\ n <= Len(RecordsOf[e])
        /\ Upsert(RecordsOf[e][n], e)
        /\ stream' = [stream EXCEPT ![i].saved = n]
        /\ UNCHANGED <<row, batch, doing, failures>>

\* Mutant: the message is acknowledged once its first record is saved.
AcknowledgeEarly(i) ==
    /\ stream[i].state = "held" /\ stream[i].saved > 0
    /\ stream' = [stream EXCEPT ![i].state = "acked"]
    /\ UNCHANGED <<row, batch, doing, shown, failures>>

Acknowledge(i) ==
    /\ stream[i].state = "held" /\ stream[i].saved = Len(RecordsOf[stream[i].event])
    /\ stream' = [stream EXCEPT ![i].state = "acked"]
    /\ UNCHANGED <<row, batch, doing, shown, failures>>

\* The fold or a save raised (nak), or the projector died or its
\* acknowledgement was lost (acknowledgement time).  A message that has had all
\* its deliveries stays as it is.
GiveBack(i) ==
    /\ stream[i].state = "held" /\ CallFails
    /\ stream' = [stream EXCEPT ![i].state = "queued"]
    /\ UNCHANGED <<row, batch, doing, shown>>

MirrorNext ==
    \/ \E e \in Events : AppendEvent(e) \/ BackoffOver(e)
    \/ \E d \in Drainers : \/ ClaimBatch(d) \/ Publish(d) \/ MarkPublished(d)
                           \/ MarkFailed(d) \/ DrainerDies(d)
    \/ \E i \in DOMAIN stream : \/ Deliver(i) \/ SaveRecord(i)
                                \/ Acknowledge(i) \/ GiveBack(i)

MirrorSpec == MirrorInit /\ [][MirrorNext]_mirrorVars

(***************************************************************************)
(* Fairness.  A drainer loops for ever (the publisher process) and handles *)
(* its rows one after the other; the broker delivers what is not           *)
(* acknowledged; a projector task runs to its end.                         *)
(***************************************************************************)
Indexes == 1..(2 * Cardinality(Events) * (MaxFailures + 1))

MirrorFairness ==
    /\ \A e \in Events : WF_mirrorVars(BackoffOver(e))
    /\ \A d \in Drainers : /\ WF_mirrorVars(ClaimBatch(d)) /\ WF_mirrorVars(Publish(d))
                           /\ WF_mirrorVars(MarkPublished(d)) /\ WF_mirrorVars(MarkFailed(d))
    /\ \A i \in Indexes :
        /\ WF_mirrorVars(i \in DOMAIN stream /\ Deliver(i))
        /\ WF_mirrorVars(i \in DOMAIN stream /\ SaveRecord(i))
        /\ WF_mirrorVars(i \in DOMAIN stream /\ Acknowledge(i))

MirrorFairSpec == MirrorSpec /\ MirrorFairness

-----------------------------------------------------------------------------
(* Properties                                                              *)

\* No row is in the hands of two drainers, although nothing but its status
\* keeps a claim away from it and failed rows are claimed again
\* (claim_outbox_batch against publish_outbox_batch of every server).
OneDrainerPerRow ==
    \A d1, d2 \in Drainers : d1 # d2 => batch[d1] \cap batch[d2] = {}

\* A row marked as published has a message in the stream, whatever calls of its
\* drainer and of earlier ones failed (publish_outbox_batch).
PublishedIsInStream ==
    \A e \in Events : row[e] = "published" => \E i \in DOMAIN stream : stream[i].event = e

\* A message that is acknowledged is in all its records, or something newer is:
\* a projector that stops between the two saves, late copies and redeliveries
\* lose nothing (handle_notification, save_projection).
AckedIsShown ==
    \A i \in DOMAIN stream : stream[i].state = "acked" =>
        \A n \in DOMAIN RecordsOf[stream[i].event] :
            Version(shown[RecordsOf[stream[i].event][n]]) >= VersionOf[stream[i].event]

\* No record goes back to an older event, although drainers publish in any
\* order, messages are delivered again and projectors work side by side
\* (save_projection).
NeverShowsOlder == [][\A k \in Records : Version(shown'[k]) >= Version(shown[k])]_mirrorVars

\* An appended event, or a newer one, reaches all its records in the end, after
\* any bounded number of failed calls (the publisher loop, redelivery).
EventuallyShown ==
    \A e \in Events :
        (row[e] # "absent")
            ~> (\A n \in DOMAIN RecordsOf[e] : Version(shown[RecordsOf[e][n]]) >= VersionOf[e])

\* What README.md says of the outbox publisher, delivery at least once: an
\* appended event is published in the end.
EveryRowPublished == \A e \in Events : (row[e] = "ready") ~> (row[e] = "published")
=============================================================================

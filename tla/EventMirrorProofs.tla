------------------------- MODULE EventMirrorProofs -------------------------
(***************************************************************************)
(* What holds of the path of an event for any events, records, drainers    *)
(* and limits: a row is in the hands of one drainer, what is marked as     *)
(* published is in the stream, no record goes back, and an acknowledged    *)
(* message is shown.                                                       *)
(***************************************************************************)
EXTENDS EventMirror, SequenceTheorems, TLAPS

\* A row that a drainer holds cannot be claimed: it is in flight, or already
\* marked by an update whose answer was lost.
HeldRows == \A d \in Drainers : \A e \in batch[d] : row[e] \in {"inFlight", "published"}

\* What a drainer marks is a row of its batch.
AtItsRow ==
    \A d \in Drainers : IF doing[d].step = "publish" THEN doing[d] = IdleDrainer
                                                     ELSE doing[d].event \in batch[d]

InStream(e) == \E i \in DOMAIN stream : stream[i].event = e
MarksPublished == \A d \in Drainers : doing[d].step = "mark" => InStream(doing[d].event)

\* The records of a held message up to those saved show it, or something newer.
ShownUpTo(m) ==
    \A n \in DOMAIN RecordsOf[m.event] :
        n <= m.saved => Version(shown[RecordsOf[m.event][n]]) >= VersionOf[m.event]
SavedIsShown ==
    \A i \in DOMAIN stream : stream[i].state = "held" => ShownUpTo(stream[i])

OutboxType ==
    /\ row \in [Events -> RowStatuses]
    /\ batch \in [Drainers -> SUBSET Events]
    /\ doing \in [Drainers -> [event : Events \cup {NoEvent},
                               step : {"publish", "mark", "fail"}]]
    /\ failures \in 0..MaxFailures

OutboxInv ==
    /\ OutboxType
    /\ HeldRows
    /\ AtItsRow
    /\ OneDrainerPerRow
    /\ MarksPublished
    /\ PublishedIsInStream

StreamType ==
    /\ stream \in Seq(Message)
    /\ shown \in [Records -> Events \cup {NoEvent}]

StreamInv ==
    /\ StreamType
    /\ SavedIsShown
    /\ AckedIsShown

MirrorInv == OutboxInv /\ StreamInv

\* What no step undoes: the messages of the stream, and what records show.
StreamKeeps ==
    \A i \in DOMAIN stream : i \in DOMAIN stream' /\ stream'[i].event = stream[i].event
ShownGrows == \A k \in Records : Version(shown'[k]) >= Version(shown[k])

-----------------------------------------------------------------------------
LEMMA TypesSplit == MirrorTypeOK <=> OutboxType /\ StreamType
BY DEF MirrorTypeOK, OutboxType, StreamType

LEMMA VersionIsNat == \A e \in Events \cup {NoEvent} : Version(e) \in Nat
BY MirrorAssumption DEF Version

LEMMA VersionOfEvent == \A e \in Events : Version(e) = VersionOf[e]
BY MirrorAssumption DEF Version

LEMMA OneMessage ==
    ASSUME stream \in Seq(Message), NEW i \in DOMAIN stream, NEW m \in Message,
           stream' = [stream EXCEPT ![i] = m]
    PROVE  /\ stream' \in Seq(Message)
           /\ DOMAIN stream' = DOMAIN stream
           /\ stream'[i] = m
           /\ \A j \in DOMAIN stream : j # i => stream'[j] = stream[j]
BY ExceptSeq

LEMMA MessageTyped ==
    ASSUME stream \in Seq(Message), NEW i \in DOMAIN stream
    PROVE  stream[i] \in Message
BY ElementOfSeq

\* Publication adds copies at the end.
LEMMA StreamGrowth ==
    ASSUME stream \in Seq(Message), NEW e \in Events, NEW n \in 0..2,
           stream' = stream \o Copies(e, n)
    PROVE  /\ stream' \in Seq(Message)
           /\ \A i \in DOMAIN stream : i \in DOMAIN stream' /\ stream'[i] = stream[i]
           /\ \A i \in DOMAIN stream' \ DOMAIN stream : stream'[i].state = "queued"
           /\ n > 0 => InStream(e)'
<1> DEFINE m == [event |-> e, state |-> "queued", tries |-> 0, saved |-> 0]
           C == Copies(e, n)
<1>1. m \in Message  BY MirrorAssumption DEF Message
<1>2. C = [i \in 1..n |-> m]  BY DEF Copies
<1>3. C \in Seq(Message) /\ Len(C) = n
  BY <1>1, <1>2, IsASeq
<1> HIDE DEF C
<1>4. /\ stream' \in Seq(Message)
      /\ Len(stream') = Len(stream) + n
      /\ \A i \in 1..Len(stream') :
            stream'[i] = IF i <= Len(stream) THEN stream[i] ELSE C[i - Len(stream)]
  BY <1>3, ConcatProperties DEF C
<1>5. /\ DOMAIN stream = 1..Len(stream) /\ Len(stream) \in Nat
      /\ DOMAIN stream' = 1..Len(stream')
  BY <1>4, LenProperties
<1>6. \A i \in 1..n : C[i] = m  BY <1>2
<1>7. \A i \in DOMAIN stream : i \in DOMAIN stream' /\ stream'[i] = stream[i]
  BY <1>4, <1>5
<1>8. \A i \in DOMAIN stream' \ DOMAIN stream : stream'[i] = m
  BY <1>4, <1>5, <1>6
<1>9. n > 0 => InStream(e)'
  <2> SUFFICES ASSUME n > 0 PROVE \E i \in DOMAIN stream' : stream'[i].event = e
    BY DEF InStream
  <2>1. Len(stream) + 1 \in DOMAIN stream' \ DOMAIN stream  BY <1>4, <1>5
  <2> QED  BY <1>8, <2>1
<1> QED  BY <1>4, <1>7, <1>8, <1>9

-----------------------------------------------------------------------------
(* What each half of a step leaves of the other's invariant.               *)

LEMMA OutboxKept ==
    ASSUME OutboxInv, UNCHANGED <<row, batch, doing>>, failures' \in 0..MaxFailures,
           StreamKeeps
    PROVE  OutboxInv'
<1> USE DEF OutboxInv
<1>1. OutboxType'  BY DEF OutboxType
<1>2. HeldRows' /\ AtItsRow' /\ OneDrainerPerRow'
  BY DEF HeldRows, AtItsRow, OneDrainerPerRow
<1>3. \A e \in Events : InStream(e) => InStream(e)'  BY DEF StreamKeeps, InStream
<1>4. MarksPublished'
  <2> SUFFICES ASSUME NEW d \in Drainers, doing[d].step = "mark"
               PROVE  InStream(doing[d].event)'
    BY DEF MarksPublished, InStream
  <2>1. doing[d].event \in Events  BY DEF AtItsRow, OutboxType
  <2> QED  BY <1>3, <2>1 DEF MarksPublished
<1>5. PublishedIsInStream'  BY <1>3 DEF PublishedIsInStream, InStream
<1> QED  BY <1>1, <1>2, <1>4, <1>5

LEMMA StreamKept == StreamInv /\ UNCHANGED <<stream, shown>> => StreamInv'
BY DEF StreamInv, StreamType, SavedIsShown, AckedIsShown, ShownUpTo

LEMMA CallFailsBounded ==
    ASSUME OutboxInv, CallFails \/ failures' = failures
    PROVE  failures' \in 0..MaxFailures
BY MirrorAssumption DEF OutboxInv, OutboxType, CallFails

\* Records that only move on keep what messages have been saved.
LEMMA ShownKept ==
    ASSUME StreamInv, shown' \in [Records -> Events \cup {NoEvent}], ShownGrows,
           NEW m \in Message, ShownUpTo(m)
    PROVE  ShownUpTo(m)'
<1> SUFFICES ASSUME NEW n \in DOMAIN RecordsOf[m.event], n <= m.saved
             PROVE  Version(shown'[RecordsOf[m.event][n]]) >= VersionOf[m.event]
  BY DEF ShownUpTo
<1> DEFINE k == RecordsOf[m.event][n]
<1>1. m.event \in Events  BY DEF Message
<1>2. k \in Records
  BY <1>1, MirrorAssumption, LenProperties, ElementOfSeq
<1>3. VersionOf[m.event] \in Nat  BY <1>1, MirrorAssumption
<1>4. Version(shown[k]) >= VersionOf[m.event]  BY DEF ShownUpTo
<1>5. Version(shown'[k]) >= Version(shown[k])  BY <1>2 DEF ShownGrows
<1>6. Version(shown[k]) \in Nat /\ Version(shown'[k]) \in Nat
  BY <1>2, VersionIsNat DEF StreamInv, StreamType
<1> HIDE DEF k
<1>7. Version(shown'[k]) >= VersionOf[m.event]  BY <1>3, <1>4, <1>5, <1>6
<1> QED  BY <1>7 DEF k

-----------------------------------------------------------------------------
LEMMA MirrorInitInv == MirrorInit => MirrorInv
<1> SUFFICES ASSUME MirrorInit PROVE MirrorInv  OBVIOUS
<1>1. OutboxType  BY MirrorAssumption DEF MirrorInit, OutboxType, RowStatuses, IdleDrainer
<1>2. StreamType  BY EmptySeq DEF MirrorInit, StreamType
<1>3. HeldRows /\ AtItsRow /\ OneDrainerPerRow /\ MarksPublished
  BY DEF MirrorInit, HeldRows, AtItsRow, OneDrainerPerRow, MarksPublished, IdleDrainer
<1>4. PublishedIsInStream  BY DEF MirrorInit, PublishedIsInStream
<1>5. SavedIsShown /\ AckedIsShown  BY DEF MirrorInit, SavedIsShown, AckedIsShown
<1> QED  BY <1>1, <1>2, <1>3, <1>4, <1>5 DEF MirrorInv, OutboxInv, StreamInv

(* The outbox.                                                             *)

LEMMA RowMoves ==
    ASSUME OutboxInv, NEW e \in Events, row[e] \in {"absent", "waiting"},
           row' = [row EXCEPT ![e] = "ready"],
           UNCHANGED <<batch, doing, stream, failures>>
    PROVE  OutboxInv'
<1> USE DEF OutboxInv
<1>1. OutboxType'  BY DEF OutboxType, RowStatuses
<1>2. HeldRows'  BY DEF HeldRows, OutboxType
<1>3. AtItsRow' /\ OneDrainerPerRow'  BY DEF AtItsRow, OneDrainerPerRow
<1>4. MarksPublished'  BY DEF MarksPublished, InStream
<1>5. PublishedIsInStream'  BY DEF PublishedIsInStream, OutboxType
<1> QED  BY <1>1, <1>2, <1>3, <1>4, <1>5

LEMMA ClaimBatchKeeps ==
    ASSUME OutboxInv, NEW d \in Drainers, ClaimBatch(d)
    PROVE  OutboxInv'
<1> USE DEF OutboxInv
<1>1. PICK S \in SUBSET Takeable :
         /\ batch' = [batch EXCEPT ![d] = S]
         /\ row' = [e \in Events |-> IF e \in S THEN "inFlight" ELSE row[e]]
  BY DEF ClaimBatch
<1>2. UNCHANGED <<doing, stream, shown, failures>> /\ batch[d] = {}  BY DEF ClaimBatch
<1>3. S \subseteq Events /\ \A e \in S : row[e] = "ready"  BY DEF Takeable
<1>4. /\ batch' \in [Drainers -> SUBSET Events]
      /\ batch'[d] = S /\ \A b \in Drainers \ {d} : batch'[b] = batch[b]
  BY <1>1, <1>3 DEF OutboxType
<1>5. OutboxType'
  <2>1. row' \in [Events -> RowStatuses]  BY <1>1 DEF OutboxType, RowStatuses
  <2> QED  BY <1>2, <1>4, <2>1 DEF OutboxType
<1>6. \A b \in Drainers : batch[b] \cap S = {}  BY <1>3 DEF HeldRows
<1>7. HeldRows'
  <2> SUFFICES ASSUME NEW b \in Drainers, NEW e \in batch'[b]
               PROVE  row'[e] \in {"inFlight", "published"}
    BY DEF HeldRows
  <2>1. e \in Events  BY <1>4
  <2>2. CASE b = d  BY <1>1, <1>4, <2>1, <2>2
  <2>3. CASE b # d
    <3>1. e \in batch[b] /\ e \notin S  BY <1>4, <1>6, <2>3
    <3> QED  BY <1>1, <2>1, <3>1 DEF HeldRows
  <2> QED  BY <2>2, <2>3
<1>8. AtItsRow'
  <2> SUFFICES ASSUME NEW b \in Drainers
               PROVE  IF doing[b].step = "publish" THEN doing[b] = IdleDrainer
                      ELSE doing[b].event \in batch'[b]
    BY <1>2 DEF AtItsRow
  <2>1. CASE b = d  BY <1>2, <2>1 DEF AtItsRow
  <2>2. CASE b # d  BY <1>4, <2>2 DEF AtItsRow
  <2> QED  BY <2>1, <2>2
<1>9. OneDrainerPerRow'
  <2> SUFFICES ASSUME NEW a \in Drainers, NEW b \in Drainers, a # b
               PROVE  batch'[a] \cap batch'[b] = {}
    BY DEF OneDrainerPerRow
  <2>1. batch[a] \cap batch[b] = {}  BY DEF OneDrainerPerRow
  <2> QED  BY <1>4, <1>6, <2>1
<1>10. MarksPublished'  BY <1>2 DEF MarksPublished, InStream
<1>11. PublishedIsInStream'  BY <1>1, <1>2 DEF PublishedIsInStream
<1> QED  BY <1>5, <1>7, <1>8, <1>9, <1>10, <1>11

\* A drainer lets go of the row it was at, or of its whole batch, and leaves that
\* row with some other status.
LEMMA DrainerMoves ==
    ASSUME OutboxInv, NEW d \in Drainers, NEW e \in Events, e \in batch[d],
           NEW v \in {"inFlight", "published", "waiting"},
           row' = [row EXCEPT ![e] = v],
           NEW T \in SUBSET batch[d],
           batch' = [batch EXCEPT ![d] = T],
           v = "waiting" => e \notin T,
           v = "published" => InStream(e),
           NEW t \in [event : Events \cup {NoEvent}, step : {"publish", "fail"}],
           doing' = [doing EXCEPT ![d] = t],
           IF t.step = "publish" THEN t = IdleDrainer ELSE t.event \in T,
           UNCHANGED stream, failures' \in 0..MaxFailures
    PROVE  OutboxInv'
<1> USE DEF OutboxInv
<1>1. /\ batch' \in [Drainers -> SUBSET Events]
      /\ batch'[d] = T /\ \A b \in Drainers \ {d} : batch'[b] = batch[b]
  BY DEF OutboxType
<1>2. /\ doing' \in [Drainers -> [event : Events \cup {NoEvent},
                                  step : {"publish", "mark", "fail"}]]
      /\ doing'[d] = t /\ \A b \in Drainers \ {d} : doing'[b] = doing[b]
  BY DEF OutboxType
<1>3. /\ row' \in [Events -> RowStatuses]
      /\ row'[e] = v /\ \A f \in Events \ {e} : row'[f] = row[f]
  BY DEF OutboxType, RowStatuses
<1>4. OutboxType'  BY <1>1, <1>2, <1>3 DEF OutboxType
<1>5. HeldRows'
  <2> SUFFICES ASSUME NEW b \in Drainers, NEW f \in batch'[b]
               PROVE  row'[f] \in {"inFlight", "published"}
    BY DEF HeldRows
  <2>1. f \in Events /\ f \in batch[b]  BY <1>1
  <2>2. CASE f # e  BY <1>3, <2>1, <2>2 DEF HeldRows
  <2>3. CASE f = e
    <3>1. b = d  BY <2>1, <2>3 DEF OneDrainerPerRow
    <3> QED  BY <1>1, <1>3, <2>3, <3>1
  <2> QED  BY <2>2, <2>3
<1>6. AtItsRow'  BY <1>1, <1>2 DEF AtItsRow
<1>7. OneDrainerPerRow'
  <2> SUFFICES ASSUME NEW a \in Drainers, NEW b \in Drainers, a # b
               PROVE  batch'[a] \cap batch'[b] = {}
    BY DEF OneDrainerPerRow
  <2>1. batch[a] \cap batch[b] = {}  BY DEF OneDrainerPerRow
  <2> QED  BY <1>1, <2>1
<1>8. \A f : InStream(f) => InStream(f)'  BY DEF InStream
<1>9. MarksPublished'  BY <1>2, <1>8 DEF MarksPublished
<1>10. PublishedIsInStream'
  <2> SUFFICES ASSUME NEW f \in Events, row'[f] = "published" PROVE InStream(f)
    BY <1>8 DEF PublishedIsInStream, InStream
  <2>1. CASE f = e  BY <1>3, <2>1
  <2>2. CASE f # e  BY <1>3, <2>2 DEF PublishedIsInStream, InStream
  <2> QED  BY <2>1, <2>2
<1> QED  BY <1>4, <1>5, <1>6, <1>7, <1>9, <1>10

\* A drainer that is at a row holds it, in flight or already marked.
LEMMA RowAtHand ==
    ASSUME OutboxInv, NEW d \in Drainers, doing[d].step # "publish"
    PROVE  /\ doing[d].event \in Events /\ doing[d].event \in batch[d]
           /\ row[doing[d].event] \in {"inFlight", "published"}
           /\ row[doing[d].event] = "published" => InStream(doing[d].event)
           /\ row = [row EXCEPT ![doing[d].event] = row[doing[d].event]]
<1>1. doing[d].event \in batch[d] /\ batch[d] \subseteq Events
  BY DEF OutboxInv, OutboxType, AtItsRow
<1>2. row[doing[d].event] \in {"inFlight", "published"}
  BY <1>1 DEF OutboxInv, HeldRows
<1> QED  BY <1>1, <1>2 DEF OutboxInv, OutboxType, PublishedIsInStream, InStream

LEMMA IdleTyped ==
    IdleDrainer \in [event : Events \cup {NoEvent}, step : {"publish", "fail"}]
BY DEF IdleDrainer

LEMMA MarkPublishedKeeps ==
    ASSUME OutboxInv, NEW d \in Drainers, MarkPublished(d)
    PROVE  OutboxInv'
<1> DEFINE e == doing[d].event
<1>1. doing[d].step = "mark" /\ UNCHANGED <<stream, shown>>  BY DEF MarkPublished
<1>2. /\ e \in Events /\ e \in batch[d] /\ row[e] \in {"inFlight", "published"}
      /\ row = [row EXCEPT ![e] = row[e]]
  BY <1>1, RowAtHand
<1>3. InStream(e)  BY <1>1 DEF OutboxInv, MarksPublished
<1>4. failures' \in 0..MaxFailures  BY CallFailsBounded DEF MarkPublished
<1>5. CASE row' = [row EXCEPT ![e] = "published"] /\ Done(d, e)
  <2>1. batch[d] \ {e} \in SUBSET batch[d]  OBVIOUS
  <2>2. /\ batch' = [batch EXCEPT ![d] = batch[d] \ {e}]
        /\ doing' = [doing EXCEPT ![d] = IdleDrainer]
    BY <1>5 DEF Done
  <2>3. IdleDrainer.step = "publish"  BY DEF IdleDrainer
  <2> HIDE DEF e
  <2> QED  BY <1>1, <1>2, <1>3, <1>4, <1>5, <2>1, <2>2, <2>3, IdleTyped, DrainerMoves
<1>6. CASE /\ row' \in {row, [row EXCEPT ![e] = "published"]}
           /\ doing' = [doing EXCEPT ![d].step = "fail"] /\ UNCHANGED batch
  <2> DEFINE t == [event |-> e, step |-> "fail"]
  <2>1. t \in [event : Events \cup {NoEvent}, step : {"publish", "fail"}]  BY <1>2
  <2>2. doing' = [doing EXCEPT ![d] = t]
    <3>1. doing \in [Drainers -> [event : Events \cup {NoEvent},
                                  step : {"publish", "mark", "fail"}]]
      BY DEF OutboxInv, OutboxType
    <3>2. [doing[d] EXCEPT !.step = "fail"] = t  BY <3>1
    <3>3. doing' = [doing EXCEPT ![d] = [doing[d] EXCEPT !.step = "fail"]]  BY <1>6, <3>1
    <3> QED  BY <3>2, <3>3
  <2>3. batch' = [batch EXCEPT ![d] = batch[d]]  BY <1>6 DEF OutboxInv, OutboxType
  <2>4. t.step = "fail" /\ t.event = e  OBVIOUS
  <2>5. PICK v \in {"inFlight", "published"} : row' = [row EXCEPT ![e] = v]
    BY <1>2, <1>6
  <2> HIDE DEF e, t
  <2> QED  BY <1>1, <1>2, <1>3, <1>4, <2>1, <2>2, <2>3, <2>4, <2>5, DrainerMoves
<1> QED  BY <1>5, <1>6 DEF MarkPublished

LEMMA MarkFailedKeeps ==
    ASSUME OutboxInv, NEW d \in Drainers, MarkFailed(d)
    PROVE  OutboxInv'
<1> DEFINE e == doing[d].event
<1>1. doing[d].step = "fail" /\ UNCHANGED <<stream, shown>>  BY DEF MarkFailed
<1>2. /\ e \in Events /\ e \in batch[d] /\ row[e] \in {"inFlight", "published"}
      /\ row[e] = "published" => InStream(e)
      /\ row = [row EXCEPT ![e] = row[e]]
  BY <1>1, RowAtHand
<1>3. failures' \in 0..MaxFailures  BY CallFailsBounded DEF MarkFailed
<1>4. IdleDrainer.step = "publish"  BY DEF IdleDrainer
<1>5. CASE row' = [row EXCEPT ![e] = "waiting"] /\ Done(d, e)
  <2>1. batch[d] \ {e} \in SUBSET batch[d]  OBVIOUS
  <2>2. /\ batch' = [batch EXCEPT ![d] = batch[d] \ {e}]
        /\ doing' = [doing EXCEPT ![d] = IdleDrainer]
    BY <1>5 DEF Done
  <2> HIDE DEF e
  <2> QED  BY <1>1, <1>2, <1>3, <1>4, <1>5, <2>1, <2>2, IdleTyped, DrainerMoves
<1>6. CASE row' \in {row, [row EXCEPT ![e] = "waiting"]} /\ Forget(d)
  <2>1. {} \in SUBSET batch[d]  OBVIOUS
  <2>2. /\ batch' = [batch EXCEPT ![d] = {}]
        /\ doing' = [doing EXCEPT ![d] = IdleDrainer]
    BY <1>6 DEF Forget
  <2>3. PICK v \in {"inFlight", "published", "waiting"} :
           row' = [row EXCEPT ![e] = v] /\ (v = "published" => InStream(e))
    BY <1>2, <1>6
  <2> HIDE DEF e
  <2> QED  BY <1>1, <1>2, <1>3, <1>4, <2>1, <2>2, <2>3, IdleTyped, DrainerMoves
<1> QED  BY <1>5, <1>6 DEF MarkFailed

LEMMA DrainerDiesKeeps ==
    ASSUME OutboxInv, NEW d \in Drainers, DrainerDies(d)
    PROVE  OutboxInv'
<1>1. PICK e \in batch[d] : TRUE  BY DEF DrainerDies
<1>2. e \in Events /\ row[e] \in {"inFlight", "published"}
  BY <1>1 DEF OutboxInv, OutboxType, HeldRows
<1>3. row[e] = "published" => InStream(e)
  BY <1>2 DEF OutboxInv, PublishedIsInStream, InStream
<1>4. UNCHANGED <<row, stream, shown>> /\ failures' \in 0..MaxFailures
  BY CallFailsBounded DEF DrainerDies
<1>5. row' = [row EXCEPT ![e] = row[e]]  BY <1>2, <1>4 DEF OutboxInv, OutboxType
<1>6. /\ batch' = [batch EXCEPT ![d] = {}]
      /\ doing' = [doing EXCEPT ![d] = IdleDrainer]
  BY DEF DrainerDies, Forget
<1>7. {} \in SUBSET batch[d] /\ IdleDrainer.step = "publish"  BY DEF IdleDrainer
<1> QED  BY <1>1, <1>2, <1>3, <1>4, <1>5, <1>6, <1>7, IdleTyped, DrainerMoves


LEMMA PublishKeeps ==
    ASSUME MirrorInv, NEW d \in Drainers, Publish(d)
    PROVE  MirrorInv'
<1> USE DEF MirrorInv
<1>1. PICK e \in batch[d], n \in 0..2, ok \in BOOLEAN :
         /\ doing[d] = IdleDrainer
         /\ \/ n = 1 /\ ok /\ failures' = failures
            \/ (ok => n > 0) /\ CallFails
         /\ stream' = stream \o Copies(e, n)
         /\ doing' = [doing EXCEPT ![d] = [event |-> e, step |-> IF ok THEN "mark" ELSE "fail"]]
         /\ UNCHANGED <<row, batch, shown>>
  BY DEF Publish
<1>2. e \in Events  BY DEF OutboxInv, OutboxType
<1>3. stream \in Seq(Message)  BY DEF StreamInv, StreamType
<1>4. /\ stream' \in Seq(Message)
      /\ \A i \in DOMAIN stream : i \in DOMAIN stream' /\ stream'[i] = stream[i]
      /\ \A i \in DOMAIN stream' \ DOMAIN stream : stream'[i].state = "queued"
      /\ n > 0 => InStream(e)'
  BY <1>1, <1>2, <1>3, StreamGrowth
<1>5. StreamInv'
  <2>1. StreamType'  BY <1>1, <1>4 DEF StreamInv, StreamType
  <2>2. SavedIsShown'
    <3> SUFFICES ASSUME NEW i \in DOMAIN stream', stream'[i].state = "held"
                 PROVE  ShownUpTo(stream[i])'
      BY DEF SavedIsShown
    <3>1. i \in DOMAIN stream /\ stream'[i] = stream[i]  BY <1>4
    <3>2. ShownUpTo(stream[i])  BY <3>1 DEF StreamInv, SavedIsShown
    <3> QED  BY <1>1, <3>1, <3>2 DEF ShownUpTo
  <2>3. AckedIsShown'
    BY <1>1, <1>4 DEF StreamInv, AckedIsShown
  <2> QED  BY <2>1, <2>2, <2>3 DEF StreamInv
<1>6. OutboxInv'
  <2> USE DEF OutboxInv
  <2> DEFINE t == [event |-> e, step |-> IF ok THEN "mark" ELSE "fail"]
  <2>1. failures' \in 0..MaxFailures  BY <1>1, CallFailsBounded
  <2>2. t \in [event : Events \cup {NoEvent}, step : {"publish", "mark", "fail"}]
    BY <1>2
  <2>3. /\ doing' \in [Drainers -> [event : Events \cup {NoEvent},
                                    step : {"publish", "mark", "fail"}]]
        /\ doing'[d] = t /\ \A b \in Drainers \ {d} : doing'[b] = doing[b]
    BY <1>1, <2>2 DEF OutboxType
  <2>4. OutboxType'  BY <1>1, <2>1, <2>3 DEF OutboxType
  <2>5. HeldRows' /\ OneDrainerPerRow'  BY <1>1 DEF HeldRows, OneDrainerPerRow
  <2>6. t.step # "publish" /\ t.event \in batch[d] /\ (t.step = "mark" => n > 0)
    BY <1>1
  <2> HIDE DEF t
  <2>7. AtItsRow'
    <3> SUFFICES ASSUME NEW b \in Drainers
                 PROVE  IF doing'[b].step = "publish" THEN doing'[b] = IdleDrainer
                        ELSE doing'[b].event \in batch[b]
      BY <1>1 DEF AtItsRow
    <3>1. CASE b = d  BY <2>3, <2>6, <3>1
    <3>2. CASE b # d  BY <2>3, <3>2 DEF AtItsRow
    <3> QED  BY <3>1, <3>2
  <2>8. \A f : InStream(f) => InStream(f)'  BY <1>4 DEF InStream
  <2>9. MarksPublished'
    <3> SUFFICES ASSUME NEW b \in Drainers, doing'[b].step = "mark"
                 PROVE  InStream(doing[b].event)'
      BY DEF MarksPublished, InStream
    <3>1. CASE b = d
      <4>1. doing'[b].event = e /\ n > 0  BY <2>3, <2>6, <3>1 DEF t
      <4>2. InStream(e)'  BY <1>4, <4>1
      <4> QED  BY <4>1, <4>2 DEF InStream
    <3>2. CASE b # d
      <4>1. doing'[b] = doing[b]  BY <2>3, <3>2
      <4>2. InStream(doing[b].event)  BY <4>1 DEF MarksPublished
      <4> QED  BY <1>4, <4>1, <4>2 DEF InStream
    <3> QED  BY <3>1, <3>2
  <2>10. PublishedIsInStream'
    BY <1>1, <2>8 DEF PublishedIsInStream, InStream
  <2> QED  BY <2>4, <2>5, <2>7, <2>9, <2>10
<1> QED  BY <1>5, <1>6

-----------------------------------------------------------------------------
(* The projectors.                                                         *)

\* One message changes its state, and the records stay.
LEMMA MessageMoves ==
    ASSUME MirrorInv, NEW i \in DOMAIN stream, NEW m \in Message,
           stream' = [stream EXCEPT ![i] = m], m.event = stream[i].event,
           UNCHANGED <<row, batch, doing, shown>>, failures' \in 0..MaxFailures,
           m.state = "held" => ShownUpTo(m),
           m.state = "acked" =>
              ShownUpTo(m) /\ \A n \in DOMAIN RecordsOf[m.event] : n <= m.saved
    PROVE  MirrorInv'
<1> USE DEF MirrorInv
<1>1. stream \in Seq(Message)  BY DEF StreamInv, StreamType
<1>2. /\ stream' \in Seq(Message)
      /\ DOMAIN stream' = DOMAIN stream
      /\ stream'[i] = m
      /\ \A j \in DOMAIN stream : j # i => stream'[j] = stream[j]
  BY <1>1, OneMessage
<1>3. StreamKeeps  BY <1>2 DEF StreamKeeps
<1>4. OutboxInv'  BY <1>3, OutboxKept
<1>5. StreamType'  BY <1>2 DEF StreamInv, StreamType
<1>6. \A l \in Message : ShownUpTo(l) => ShownUpTo(l)'  BY DEF ShownUpTo
<1>7. SavedIsShown'
  <2> SUFFICES ASSUME NEW j \in DOMAIN stream, stream'[j].state = "held"
               PROVE  ShownUpTo(stream[j])'
    BY <1>2 DEF SavedIsShown
  <2>1. CASE j = i  BY <1>2, <2>1 DEF ShownUpTo
  <2>2. CASE j # i
    <3>1. stream'[j] = stream[j]  BY <1>2, <2>2
    <3>2. ShownUpTo(stream[j])  BY <3>1 DEF StreamInv, SavedIsShown
    <3> QED  BY <3>1, <3>2 DEF ShownUpTo
  <2> QED  BY <2>1, <2>2
<1>8. AckedIsShown'
  <2> SUFFICES ASSUME NEW j \in DOMAIN stream, stream'[j].state = "acked",
                      NEW n \in DOMAIN RecordsOf[stream'[j].event]
               PROVE  Version(shown[RecordsOf[stream'[j].event][n]])
                         >= VersionOf[stream'[j].event]
    BY <1>2 DEF AckedIsShown
  <2>1. CASE j = i  BY <1>2, <2>1 DEF ShownUpTo
  <2>2. CASE j # i  BY <1>2, <2>2 DEF StreamInv, AckedIsShown
  <2> QED  BY <2>1, <2>2
<1> QED  BY <1>4, <1>5, <1>7, <1>8 DEF StreamInv

LEMMA DeliverKeeps ==
    ASSUME MirrorInv, NEW i \in DOMAIN stream, Deliver(i)
    PROVE  MirrorInv'
<1> DEFINE m == [stream[i] EXCEPT !.state = "held", !.tries = @ + 1, !.saved = 0]
<1>1. stream[i] \in Message
  BY MessageTyped DEF MirrorInv, StreamInv, StreamType
<1>2. stream[i].tries + 1 \in 0..MaxDeliver
  BY <1>1, MirrorAssumption DEF Message, Deliver
<1>3. m \in Message /\ m.event = stream[i].event /\ m.state = "held" /\ m.saved = 0
  BY <1>1, <1>2 DEF Message
<1>4. stream' = [stream EXCEPT ![i] = m]
  BY <1>1 DEF Deliver, Message
<1>5. UNCHANGED <<row, batch, doing, shown>> /\ failures' \in 0..MaxFailures
  BY CallFailsBounded DEF Deliver, MirrorInv
<1>6. ShownUpTo(m)
  <2>1. RecordsOf[m.event] \in Seq(Records)  BY <1>1, <1>3, MirrorAssumption DEF Message
  <2>2. \A n \in DOMAIN RecordsOf[m.event] : n \in Nat /\ n > 0
    BY <2>1, LenProperties
  <2> HIDE DEF m
  <2> QED  BY <1>3, <2>2 DEF ShownUpTo
<1> HIDE DEF m
<1> QED  BY <1>3, <1>4, <1>5, <1>6, MessageMoves

LEMMA GiveBackKeeps ==
    ASSUME MirrorInv, NEW i \in DOMAIN stream, GiveBack(i)
    PROVE  MirrorInv'
<1> DEFINE m == [stream[i] EXCEPT !.state = "queued"]
<1>1. stream[i] \in Message
  BY MessageTyped DEF MirrorInv, StreamInv, StreamType
<1>2. m \in Message /\ m.event = stream[i].event /\ m.state = "queued"
  BY <1>1 DEF Message
<1>3. stream' = [stream EXCEPT ![i] = m]  BY <1>1 DEF GiveBack, Message
<1>4. UNCHANGED <<row, batch, doing, shown>> /\ failures' \in 0..MaxFailures
  BY CallFailsBounded DEF GiveBack, MirrorInv
<1> HIDE DEF m
<1> QED  BY <1>2, <1>3, <1>4, MessageMoves

LEMMA AcknowledgeKeeps ==
    ASSUME MirrorInv, NEW i \in DOMAIN stream, Acknowledge(i)
    PROVE  MirrorInv'
<1> DEFINE m == [stream[i] EXCEPT !.state = "acked"]
<1>1. stream[i] \in Message
  BY MessageTyped DEF MirrorInv, StreamInv, StreamType
<1>2. /\ m \in Message /\ m.event = stream[i].event /\ m.state = "acked"
      /\ m.saved = stream[i].saved
  BY <1>1 DEF Message
<1>3. stream' = [stream EXCEPT ![i] = m]  BY <1>1 DEF Acknowledge, Message
<1>4. UNCHANGED <<row, batch, doing, shown>> /\ failures' \in 0..MaxFailures
  BY CallFailsBounded DEF Acknowledge, MirrorInv
<1> HIDE DEF m
<1>5. ShownUpTo(m)
  <2>1. ShownUpTo(stream[i])  BY DEF Acknowledge, MirrorInv, StreamInv, SavedIsShown
  <2> QED  BY <1>2, <2>1 DEF ShownUpTo
<1>6. \A n \in DOMAIN RecordsOf[m.event] : n <= m.saved
  <2>1. RecordsOf[m.event] \in Seq(Records)  BY <1>1, <1>2, MirrorAssumption DEF Message
  <2>2. m.saved = Len(RecordsOf[m.event])  BY <1>2 DEF Acknowledge
  <2> QED  BY <2>1, <2>2, LenProperties
<1> QED  BY <1>2, <1>3, <1>4, <1>5, <1>6, MessageMoves

\* A record takes an event that is not older than what it shows.
LEMMA UpsertMovesOn ==
    ASSUME StreamType, NEW k \in Records, NEW e \in Events, Upsert(k, e)
    PROVE  /\ shown' \in [Records -> Events \cup {NoEvent}]
           /\ ShownGrows
           /\ Version(shown'[k]) >= VersionOf[e]
<1> USE DEF StreamType
<1>1. /\ Version(shown[k]) \in Nat /\ VersionOf[e] \in Nat /\ Version(e) = VersionOf[e]
      /\ \A r \in Records : Version(shown[r]) \in Nat
  BY VersionIsNat, VersionOfEvent
<1>2. CASE Version(shown[k]) <= VersionOf[e]
  <2>1. shown' = [shown EXCEPT ![k] = e]  BY <1>2 DEF Upsert
  <2>2. /\ shown' \in [Records -> Events \cup {NoEvent}]
        /\ shown'[k] = e /\ \A r \in Records \ {k} : shown'[r] = shown[r]
    BY <2>1
  <2>3. \A r \in Records : Version(shown'[r]) >= Version(shown[r])
    BY <1>1, <1>2, <2>2
  <2> QED  BY <1>1, <2>2, <2>3 DEF ShownGrows
<1>3. CASE ~(Version(shown[k]) <= VersionOf[e])
  <2>1. shown' = shown  BY <1>3 DEF Upsert
  <2>2. \A r \in Records : Version(shown[r]) >= Version(shown[r])  BY <1>1
  <2>3. Version(shown[k]) >= VersionOf[e]  BY <1>1, <1>3
  <2> QED  BY <2>1, <2>2, <2>3 DEF ShownGrows
<1> QED  BY <1>2, <1>3

LEMMA SaveRecordKeeps ==
    ASSUME MirrorInv, NEW i \in DOMAIN stream, SaveRecord(i)
    PROVE  MirrorInv' /\ ShownGrows
<1> USE DEF MirrorInv
<1> DEFINE e == stream[i].event
           n == stream[i].saved + 1
           m == [stream[i] EXCEPT !.saved = n]
           k == RecordsOf[e][n]
<1>0. StreamType  BY DEF StreamInv
<1>1. stream \in Seq(Message) /\ stream[i] \in Message
  BY <1>0, MessageTyped DEF StreamType
<1>2. /\ stream[i].state = "held" /\ n <= Len(RecordsOf[e])
      /\ Upsert(k, e) /\ stream' = [stream EXCEPT ![i].saved = n]
      /\ UNCHANGED <<row, batch, doing, failures>>
  BY DEF SaveRecord
<1>3. e \in Events /\ RecordsOf[e] \in Seq(Records) /\ n \in Nat /\ n > 0
  BY <1>1, MirrorAssumption DEF Message
<1>4. n \in 1..Len(RecordsOf[e])  BY <1>2, <1>3, LenProperties
<1>5. k \in Records  BY <1>3, <1>4, ElementOfSeq
<1>6. m \in Message /\ m.event = e /\ m.saved = n  BY <1>1, <1>3 DEF Message
<1>7. stream' = [stream EXCEPT ![i] = m]  BY <1>1, <1>2 DEF Message
<1>8. /\ shown' \in [Records -> Events \cup {NoEvent}] /\ ShownGrows
      /\ Version(shown'[k]) >= VersionOf[e]
  BY <1>0, <1>2, <1>3, <1>5, UpsertMovesOn
<1>9. /\ stream' \in Seq(Message)
      /\ DOMAIN stream' = DOMAIN stream
      /\ stream'[i] = m
      /\ \A j \in DOMAIN stream : j # i => stream'[j] = stream[j]
  <2> HIDE DEF m
  <2> QED  BY <1>1, <1>6, <1>7, OneMessage
<1>10. OutboxInv'
  <2>1. StreamKeeps  BY <1>6, <1>9 DEF StreamKeeps
  <2>2. failures' \in 0..MaxFailures  BY <1>2, CallFailsBounded
  <2> QED  BY <1>2, <2>1, <2>2, OutboxKept
<1>11. StreamType'  BY <1>8, <1>9 DEF StreamType
<1>12. \A l \in Message : ShownUpTo(l) => ShownUpTo(l)'  BY <1>8, ShownKept
<1>13. ShownUpTo(stream[i])  BY <1>2 DEF StreamInv, SavedIsShown
<1>14. ShownUpTo(stream[i])'
  <2> SUFFICES ASSUME NEW l \in DOMAIN RecordsOf[e], l <= n
               PROVE  Version(shown'[RecordsOf[e][l]]) >= VersionOf[e]
    BY <1>6, <1>9 DEF ShownUpTo
  <2>1. CASE l = n  BY <1>8, <2>1
  <2>2. CASE l # n
    <3>1. l \in Nat  BY <1>3, LenProperties
    <3>2. l <= stream[i].saved  BY <1>1, <2>2, <3>1 DEF Message
    <3>3. \A j \in DOMAIN RecordsOf[e] :
            j <= stream[i].saved => Version(shown'[RecordsOf[e][j]]) >= VersionOf[e]
      <4>1. \A x \in Message : ShownUpTo(x) =>
               \A j \in DOMAIN RecordsOf[x.event] : j <= x.saved =>
                  Version(shown'[RecordsOf[x.event][j]]) >= VersionOf[x.event]
        BY <1>12 DEF ShownUpTo
      <4> QED  BY <1>1, <1>13, <4>1
    <3> QED  BY <3>2, <3>3
  <2> QED  BY <2>1, <2>2
<1>15. SavedIsShown'
  <2> SUFFICES ASSUME NEW j \in DOMAIN stream, stream'[j].state = "held"
               PROVE  ShownUpTo(stream[j])'
    BY <1>9 DEF SavedIsShown
  <2>1. CASE j = i  BY <1>14, <2>1
  <2>2. CASE j # i
    <3>1. stream'[j] = stream[j] /\ stream[j] \in Message
      BY <1>1, <1>9, <2>2, MessageTyped
    <3>2. ShownUpTo(stream[j])  BY <3>1 DEF StreamInv, SavedIsShown
    <3>3. \A x \in Message : ShownUpTo(x) =>
               \A l \in DOMAIN RecordsOf[x.event] : l <= x.saved =>
                  Version(shown'[RecordsOf[x.event][l]]) >= VersionOf[x.event]
      BY <1>12 DEF ShownUpTo
    <3> QED  BY <3>1, <3>2, <3>3 DEF ShownUpTo
  <2> QED  BY <2>1, <2>2
<1>16. AckedIsShown'
  <2> SUFFICES ASSUME NEW j \in DOMAIN stream, stream'[j].state = "acked",
                      NEW l \in DOMAIN RecordsOf[stream'[j].event]
               PROVE  Version(shown'[RecordsOf[stream'[j].event][l]])
                         >= VersionOf[stream'[j].event]
    BY <1>9 DEF AckedIsShown
  <2>1. j # i  BY <1>1, <1>2, <1>9 DEF Message
  <2>2. stream'[j] = stream[j] /\ stream[j] \in Message
    BY <1>1, <1>9, <2>1, MessageTyped
  <2> DEFINE f == stream[j].event
             r == RecordsOf[f][l]
  <2>3. f \in Events /\ RecordsOf[f] \in Seq(Records) /\ VersionOf[f] \in Nat
    BY <2>2, MirrorAssumption DEF Message
  <2>4. l \in DOMAIN RecordsOf[f]  BY <2>2
  <2>5. r \in Records  BY <2>3, <2>4, LenProperties, ElementOfSeq
  <2>6. Version(shown[r]) >= VersionOf[f]
    BY <2>2, <2>4 DEF StreamInv, AckedIsShown
  <2>7. Version(shown'[r]) >= Version(shown[r])  BY <1>8, <2>5 DEF ShownGrows
  <2>8. Version(shown[r]) \in Nat /\ Version(shown'[r]) \in Nat
    BY <1>0, <1>8, <2>5, VersionIsNat DEF StreamType
  <2> HIDE DEF r, f
  <2>9. Version(shown'[r]) >= VersionOf[f]  BY <2>3, <2>6, <2>7, <2>8
  <2> QED  BY <2>2, <2>9 DEF r, f
<1> QED  BY <1>8, <1>10, <1>11, <1>15, <1>16 DEF StreamInv

-----------------------------------------------------------------------------
LEMMA MirrorStutters == MirrorInv /\ UNCHANGED mirrorVars => MirrorInv'
<1> SUFFICES ASSUME MirrorInv, UNCHANGED mirrorVars PROVE MirrorInv'  OBVIOUS
<1>1. UNCHANGED <<row, batch, doing, stream, shown, failures>>  BY DEF mirrorVars
<1>2. failures' \in 0..MaxFailures /\ StreamKeeps
  BY <1>1 DEF MirrorInv, OutboxInv, OutboxType, StreamKeeps
<1> QED  BY <1>1, <1>2, OutboxKept, StreamKept DEF MirrorInv

\* A step that leaves the records leaves them where they are.
LEMMA ShownStays == StreamType /\ UNCHANGED shown => ShownGrows
<1> SUFFICES ASSUME StreamType, UNCHANGED shown, NEW k \in Records
             PROVE  Version(shown'[k]) >= Version(shown[k])
  BY DEF ShownGrows
<1>1. Version(shown[k]) \in Nat  BY VersionIsNat DEF StreamType
<1> QED  BY <1>1

LEMMA MirrorStepKeeps ==
    ASSUME MirrorInv, [MirrorNext]_mirrorVars
    PROVE  MirrorInv' /\ ShownGrows
<1>0. StreamType /\ OutboxInv /\ StreamInv  BY DEF MirrorInv, StreamInv
<1>1. ASSUME NEW e \in Events, AppendEvent(e) \/ BackoffOver(e)
      PROVE  MirrorInv' /\ ShownGrows
  <2>1. /\ row[e] \in {"absent", "waiting"} /\ row' = [row EXCEPT ![e] = "ready"]
        /\ UNCHANGED <<batch, doing, stream, shown, failures>>
    BY <1>1 DEF AppendEvent, BackoffOver
  <2> QED  BY <1>0, <2>1, RowMoves, StreamKept, ShownStays DEF MirrorInv
<1>2. ASSUME NEW d \in Drainers,
             ClaimBatch(d) \/ MarkPublished(d) \/ MarkFailed(d) \/ DrainerDies(d)
      PROVE  MirrorInv' /\ ShownGrows
  <2>1. UNCHANGED <<stream, shown>>
    BY <1>2 DEF ClaimBatch, MarkPublished, MarkFailed, DrainerDies
  <2>2. OutboxInv'
    BY <1>0, <1>2, ClaimBatchKeeps, MarkPublishedKeeps, MarkFailedKeeps, DrainerDiesKeeps
  <2> QED  BY <1>0, <2>1, <2>2, StreamKept, ShownStays DEF MirrorInv
<1>3. ASSUME NEW d \in Drainers, Publish(d)
      PROVE  MirrorInv' /\ ShownGrows
  <2>1. UNCHANGED shown  BY <1>3 DEF Publish
  <2> QED  BY <1>0, <1>3, <2>1, PublishKeeps, ShownStays
<1>4. ASSUME NEW i \in DOMAIN stream, Deliver(i) \/ Acknowledge(i) \/ GiveBack(i)
      PROVE  MirrorInv' /\ ShownGrows
  <2>1. UNCHANGED shown  BY <1>4 DEF Deliver, Acknowledge, GiveBack
  <2> QED  BY <1>0, <1>4, <2>1, DeliverKeeps, AcknowledgeKeeps, GiveBackKeeps, ShownStays
<1>5. ASSUME NEW i \in DOMAIN stream, SaveRecord(i)
      PROVE  MirrorInv' /\ ShownGrows
  BY <1>5, SaveRecordKeeps
<1>6. CASE UNCHANGED mirrorVars
  <2>1. UNCHANGED shown  BY <1>6 DEF mirrorVars
  <2> QED  BY <1>0, <1>6, <2>1, MirrorStutters, ShownStays
<1> QED  BY <1>1, <1>2, <1>3, <1>4, <1>5, <1>6 DEF MirrorNext

\* The strengthening is an invariant of the path.
LEMMA MirrorInvariant == MirrorSpec => []MirrorInv
<1>1. MirrorInit => MirrorInv  BY MirrorInitInv
<1>2. MirrorInv /\ [MirrorNext]_mirrorVars => MirrorInv'  BY MirrorStepKeeps
<1> QED  BY <1>1, <1>2, PTL DEF MirrorSpec

\* Rows, drainers, messages and records keep to their types.
THEOREM MirrorTypes == MirrorSpec => []MirrorTypeOK
<1>1. MirrorInv => MirrorTypeOK  BY TypesSplit DEF MirrorInv, OutboxInv, StreamInv
<1> QED  BY <1>1, MirrorInvariant, PTL

\* For any number of drainers no row is in the hands of two, whatever calls fail
\* and wherever drainers stop (claim_outbox_batch).
THEOREM RowsHaveOneDrainer == MirrorSpec => []OneDrainerPerRow
<1>1. MirrorInv => OneDrainerPerRow  BY DEF MirrorInv, OutboxInv
<1> QED  BY <1>1, MirrorInvariant, PTL

\* A row marked as published has its message in the stream (publish_outbox_batch).
THEOREM PublishedStays == MirrorSpec => []PublishedIsInStream
<1>1. MirrorInv => PublishedIsInStream  BY DEF MirrorInv, OutboxInv
<1> QED  BY <1>1, MirrorInvariant, PTL

\* An acknowledged message is in all its records, or something newer is, for any
\* number of projectors, deliveries and failures (handle_notification).
THEOREM AcknowledgedIsShown == MirrorSpec => []AckedIsShown
<1>1. MirrorInv => AckedIsShown  BY DEF MirrorInv, StreamInv
<1> QED  BY <1>1, MirrorInvariant, PTL

\* No record ever goes back to an older event (save_projection).
THEOREM RecordsMoveOn == MirrorSpec => NeverShowsOlder
<1>1. MirrorInv /\ [MirrorNext]_mirrorVars =>
         [\A k \in Records : Version(shown'[k]) >= Version(shown[k])]_mirrorVars
  BY MirrorStepKeeps DEF ShownGrows
<1> QED  BY <1>1, MirrorInvariant, PTL DEF MirrorSpec, NeverShowsOlder
=============================================================================

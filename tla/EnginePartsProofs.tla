------------------------- MODULE EnginePartsProofs -------------------------
(***************************************************************************)
(* The parts of the server that drive an execution, together: what holds   *)
(* of the supervisor's count of pending commands and of the ends of a tree *)
(* of executions, each for any instance, and that a behaviour of the parts *)
(* side by side is a behaviour of every one of them.                       *)
(***************************************************************************)
EXTENDS MCEngineParts, WorkflowEngineProofs, BatchAcceptorProofs, SequenceTheorems,
        FiniteSetTheorems, TLAPS

----
(* The count of pending commands.                                          *)
(*                                                                         *)
(* The two keys of a command are written one after the other, so that the  *)
(* count is right only between two writes of the execution's key.  The     *)
(* inductive invariant says when it is: while no call that has written the *)
(* command's key holds an outdated copy of the execution's key.            *)

CommandEntry == [status : {"absent", "issued", "terminal"}, rev : Nat]
ExecEntry    == [count : Nat, rev : Nat]
CallState    == [pc : {"new", "readExec", "putCommand", "putExec", "true", "false"},
                 cmd : CommandEntry, ex : ExecEntry, tries : 0..MaxAttempts]

PendingTypes ==
    /\ entry \in [SupCommands -> CommandEntry]
    /\ exec \in ExecEntry
    /\ sup \in [Calls -> CallState]
    /\ clash \in BOOLEAN
    /\ \A k \in Calls : sup[k].pc = "new" => sup[k].tries < MaxAttempts

\* A key is absent exactly while it has never been written.
Revisions ==
    /\ \A c \in SupCommands : (entry[c].rev = 0 <=> entry[c].status = "absent")
    /\ exec.rev = 0 => exec.count = 0

\* What a call has read is the key itself while the revision is the same.
Reads ==
    \A k \in Calls :
        /\ sup[k].cmd.rev <= entry[k[1]].rev
        /\ sup[k].cmd.rev = entry[k[1]].rev => sup[k].cmd = entry[k[1]]
        /\ sup[k].ex.rev <= exec.rev
        /\ sup[k].ex.rev = exec.rev => sup[k].ex = exec

Past(k)        == sup[k].pc \in {"putExec", "true"}
AtExec(k)      == sup[k].pc = "putExec"
RegisterOf(c)  == <<c, "register">>
MarksAt(c)     == {c} \X MarksOf[c]

\* Without a clash the key of a command goes from absent to issued to terminal,
\* by its register call and then by one of its marks.
Orderly ==
    ~clash =>
        /\ \A k \in Calls : sup[k].pc # "false"
        /\ \A c \in SupCommands : (entry[c].status # "absent" <=> Past(RegisterOf(c)))
        /\ \A c \in SupCommands : \A k \in MarksAt(c) :
              Past(k) => entry[c].status = "terminal"
        /\ \A c \in SupCommands :
              entry[c].status = "terminal" => \E k \in MarksAt(c) : Past(k)
        /\ \A c \in SupCommands : \A j, k \in MarksAt(c) : AtExec(j) /\ AtExec(k) => j = k
        /\ \A c \in SupCommands : AtExec(RegisterOf(c)) =>
              sup[RegisterOf(c)].cmd.status = "absent"
        /\ \A k \in Calls : sup[k].pc \in {"readExec", "putCommand"} =>
              ~NothingToDo(k, sup[k].cmd.status)

\* The commands whose register call, or whose mark, has reached the count.
AddedIn(c)  == entry[c].status # "absent" /\ ~AtExec(RegisterOf(c))
TakenOff(c) == entry[c].status = "terminal" /\ \A k \in MarksAt(c) : ~AtExec(k)
InCount     == {c \in SupCommands : AddedIn(c) /\ ~TakenOff(c)}

\* A register call that can still add its command finds it not taken off.
AddsBefore ==
    ~clash => \A c \in SupCommands :
        AtExec(RegisterOf(c)) /\ sup[RegisterOf(c)].ex.rev = exec.rev => ~TakenOff(c)

UpToDate == \A k \in Calls : AtExec(k) => sup[k].ex.rev = exec.rev

CountExact ==
    ~clash /\ UpToDate => IsFiniteSet(InCount) /\ exec.count = Cardinality(InCount)

PendingInv == PendingTypes /\ Revisions /\ Reads /\ Orderly /\ AddsBefore /\ CountExact

\* The calls: a command is the first component, its kind the second.
LEMMA CallShape ==
    ASSUME NEW k \in Calls
    PROVE  /\ k[1] \in SupCommands
           /\ Registers(k) => k = RegisterOf(k[1])
           /\ ~Registers(k) => k \in MarksAt(k[1])
<1>1. PICK c \in SupCommands : k \in {c} \X ({"register"} \cup MarksOf[c])
  BY DEF Calls
<1>2. k = <<k[1], k[2]>> /\ k[1] = c /\ k[2] \in {"register"} \cup MarksOf[c]
  BY <1>1
<1> QED BY <1>2 DEF Registers, RegisterOf, MarksAt

LEMMA CallsOf ==
    ASSUME NEW c \in SupCommands
    PROVE  /\ RegisterOf(c) \in Calls /\ Registers(RegisterOf(c))
           /\ RegisterOf(c)[1] = c
           /\ \A k \in MarksAt(c) :
                 /\ k \in Calls /\ ~Registers(k) /\ k[1] = c
                 /\ k # RegisterOf(c)
<1>1. RegisterOf(c) \in Calls BY DEF RegisterOf, Calls
<1>2. ASSUME NEW k \in MarksAt(c)
      PROVE  k \in Calls /\ ~Registers(k) /\ k[1] = c /\ k # RegisterOf(c)
  <2>1. k = <<k[1], k[2]>> /\ k[1] = c /\ k[2] \in MarksOf[c] BY DEF MarksAt
  <2>2. k[2] # "register" BY <2>1, PendingAssumption
  <2>3. k \in {c} \X ({"register"} \cup MarksOf[c]) BY <2>1
  <2>4. k \in Calls BY <2>3 DEF Calls
  <2> QED BY <2>1, <2>2, <2>4 DEF Registers, RegisterOf
<1> QED BY <1>1, <1>2 DEF RegisterOf, Registers

LEMMA PendingStarts == PendingInit => PendingInv
<1> SUFFICES ASSUME PendingInit PROVE PendingInv OBVIOUS
<1> USE DEF PendingInit
<1>1. \A c \in SupCommands : entry[c] = [status |-> "absent", rev |-> 0] OBVIOUS
<1>2. \A k \in Calls : sup[k] = NewCall OBVIOUS
<1>3. NewCall \in CallState /\ NewCall.pc = "new" /\ NewCall.tries = 0
  BY PendingAssumption DEF NewCall, CallState, CommandEntry, ExecEntry
<1>4. NewCall.cmd = [status |-> "absent", rev |-> 0] /\ NewCall.ex = [count |-> 0, rev |-> 0]
  BY DEF NewCall
<1>5. PendingTypes
  <2>1. entry \in [SupCommands -> CommandEntry] BY DEF CommandEntry
  <2>2. exec \in ExecEntry BY DEF ExecEntry
  <2>3. sup \in [Calls -> CallState] BY <1>3
  <2>4. \A k \in Calls : sup[k].pc = "new" => sup[k].tries < MaxAttempts
    BY <1>2, <1>3, PendingAssumption
  <2> QED BY <2>1, <2>2, <2>3, <2>4 DEF PendingTypes
<1>6. Revisions BY <1>1 DEF Revisions
<1>7. Reads
  <2> SUFFICES ASSUME NEW k \in Calls
               PROVE  /\ sup[k].cmd.rev <= entry[k[1]].rev
                      /\ sup[k].cmd = entry[k[1]]
                      /\ sup[k].ex.rev <= exec.rev
                      /\ sup[k].ex = exec
    BY DEF Reads
  <2>1. entry[k[1]] = [status |-> "absent", rev |-> 0] BY <1>1, CallShape
  <2> QED BY <2>1, <1>2, <1>4
<1>8. \A k \in Calls : ~Past(k) /\ ~AtExec(k) /\ sup[k].pc = "new"
  BY <1>2, <1>3 DEF Past, AtExec
<1>9. Orderly
  <2>1. \A c \in SupCommands : entry[c].status = "absent" BY <1>1
  <2>2. \A c \in SupCommands : ~Past(RegisterOf(c)) /\ ~AtExec(RegisterOf(c))
    BY <1>8, CallsOf
  <2>3. \A c \in SupCommands : \A k \in MarksAt(c) : ~Past(k) /\ ~AtExec(k)
    BY <1>8, CallsOf
  <2> QED BY <2>1, <2>2, <2>3, <1>8 DEF Orderly
<1>10. AddsBefore BY <1>8, CallsOf DEF AddsBefore
<1>11. CountExact
  <2>1. InCount = {} BY <1>1 DEF InCount, AddedIn
  <2> QED BY <2>1, FS_EmptySet DEF CountExact
<1> QED BY <1>5, <1>6, <1>7, <1>9, <1>10, <1>11 DEF PendingInv

LEMMA PendingExact == PendingInv => ExactWithoutClash
<1> SUFFICES ASSUME PendingInv, ~clash, \A k \in Calls : ~Active(k)
             PROVE  exec.count = Cardinality(Registered \ Marked)
  BY DEF ExactWithoutClash
<1>1. \A k \in Calls : sup[k].pc \in {"new", "true"}
  BY DEF PendingInv, PendingTypes, CallState, Orderly, Active
<1>2. \A k \in Calls : (Past(k) <=> Returned(k)) /\ ~AtExec(k)
  BY <1>1 DEF Past, Returned, AtExec
<1>3. UpToDate BY <1>2 DEF UpToDate
<1>4. InCount = Registered \ Marked
  <2> SUFFICES ASSUME NEW c \in SupCommands
               PROVE  /\ (AddedIn(c) <=> Returned(RegisterOf(c)))
                      /\ (TakenOff(c) <=> \E n \in MarksOf[c] : Returned(<<c, n>>))
    BY DEF InCount, Registered, Marked, RegisterOf
  <2>1. AddedIn(c) <=> Returned(RegisterOf(c))
    BY <1>2, CallsOf DEF AddedIn, PendingInv, Orderly
  <2>2. TakenOff(c) <=> \E k \in MarksAt(c) : Returned(k)
    BY <1>2, CallsOf DEF TakenOff, PendingInv, Orderly
  <2>3. (\E k \in MarksAt(c) : Returned(k)) <=> \E n \in MarksOf[c] : Returned(<<c, n>>)
    <3>1. ASSUME NEW k \in MarksAt(c), Returned(k)
          PROVE  \E n \in MarksOf[c] : Returned(<<c, n>>)
      <4>1. k = <<c, k[2]>> /\ k[2] \in MarksOf[c] BY DEF MarksAt
      <4> QED BY <4>1, <3>1
    <3>2. \A n \in MarksOf[c] : <<c, n>> \in MarksAt(c) BY DEF MarksAt
    <3> QED BY <3>1, <3>2
  <2> QED BY <2>1, <2>2, <2>3
<1> QED BY <1>3, <1>4 DEF PendingInv, CountExact

\* A call that goes on keeps the entry it has read and counts the attempt.
Going(r, e) == [pc |-> "readExec", cmd |-> e, ex |-> r.ex, tries |-> r.tries + 1]

LEMMA CallGoesOn ==
    ASSUME NEW r \in CallState, NEW e \in CommandEntry
    PROVE  [r EXCEPT !.cmd = e, !.tries = r.tries + 1, !.pc = "readExec"] = Going(r, e)
<1> DEFINE r1 == [r EXCEPT !.cmd = e]
           r2 == [r1 EXCEPT !.tries = r.tries + 1]
           r3 == [r2 EXCEPT !.pc = "readExec"]
<1>1. r1 = [pc |-> r.pc, cmd |-> e, ex |-> r.ex, tries |-> r.tries] BY DEF CallState
<1> HIDE DEF r1
<1>2. r2 = [pc |-> r.pc, cmd |-> e, ex |-> r.ex, tries |-> r.tries + 1] BY <1>1
<1> HIDE DEF r2
<1>3. r3 = Going(r, e) BY <1>2 DEF Going
<1>4. [r EXCEPT !.cmd = e, !.tries = r.tries + 1, !.pc = "readExec"] = r3 BY DEF r1, r2, r3
<1> QED BY <1>3, <1>4

\* Reading the command's key: nothing but the call moves.
LEMMA PendingReadCommand ==
    ASSUME PendingInv, NEW k \in Calls, SupReadCommand(k)
    PROVE  PendingInv'
<1> DEFINE e == entry[k[1]]
<1>1. e \in CommandEntry BY CallShape DEF PendingInv, PendingTypes
<1>2. sup[k].pc = "new" /\ entry' = entry /\ exec' = exec /\ clash' = clash
  BY DEF SupReadCommand
<1>3. sup[k] \in CallState /\ sup[k].tries < MaxAttempts /\ sup[k].tries + 1 \in 0..MaxAttempts
  BY <1>2, PendingAssumption DEF PendingInv, PendingTypes, CallState
<1>4. sup' = [sup EXCEPT ![k] = IF NothingToDo(k, e.status) THEN Return("true")
                                ELSE Going(sup[k], e)]
  <2>1. [sup[k] EXCEPT !.cmd = e, !.tries = sup[k].tries + 1, !.pc = "readExec"] = Going(sup[k], e)
    BY <1>1, <1>3, CallGoesOn
  <2>2. sup' = [sup EXCEPT ![k] = IF NothingToDo(k, e.status) THEN Return("true")
                    ELSE [sup[k] EXCEPT !.cmd = e, !.tries = sup[k].tries + 1, !.pc = "readExec"]]
    BY DEF SupReadCommand
  <2> HIDE DEF e
  <2> QED BY <2>1, <2>2
<1>5. Return("true") = [pc |-> "true", cmd |-> [status |-> "absent", rev |-> 0],
                        ex |-> [count |-> 0, rev |-> 0], tries |-> 0]
  BY DEF Return, NewCall
<1>6. \A j \in Calls \ {k} : sup'[j] = sup[j]
  BY <1>4 DEF PendingInv, PendingTypes
<1>7. Going(sup[k], e) \in CallState /\ Return("true") \in CallState
  <2>1. Return("true") \in CallState
    BY <1>5, PendingAssumption DEF CallState, CommandEntry, ExecEntry
  <2>2. Going(sup[k], e) \in CallState BY <1>1, <1>3 DEF CallState, Going
  <2> QED BY <2>1, <2>2
<1> HIDE DEF e
<1>8. /\ sup' \in [Calls -> CallState]
      /\ NothingToDo(k, e.status) => sup'[k] = Return("true")
      /\ ~NothingToDo(k, e.status) => sup'[k] = Going(sup[k], e)
      /\ sup'[k].pc \in {"readExec", "true"}
  <2>1. sup'[k] = IF NothingToDo(k, e.status) THEN Return("true") ELSE Going(sup[k], e)
    BY <1>4 DEF PendingInv, PendingTypes
  <2>2. sup' \in [Calls -> CallState] BY <1>4, <1>7 DEF PendingInv, PendingTypes
  <2>3. Going(sup[k], e).pc = "readExec" /\ Return("true").pc = "true" BY <1>5 DEF Going
  <2> QED BY <2>1, <2>2, <2>3
<1>9. PendingTypes'
  <2>1. \A j \in Calls : sup'[j].pc = "new" => sup'[j].tries < MaxAttempts
    BY <1>6, <1>8 DEF PendingInv, PendingTypes
  <2> QED BY <1>2, <1>8, <2>1 DEF PendingInv, PendingTypes
<1>10. Revisions' BY <1>2 DEF Revisions, PendingInv
<1>11. Reads'
  <2>1. \A j \in Calls \ {k} :
          /\ sup'[j].cmd.rev <= entry'[j[1]].rev
          /\ sup'[j].cmd.rev = entry'[j[1]].rev => sup'[j].cmd = entry'[j[1]]
          /\ sup'[j].ex.rev <= exec'.rev
          /\ sup'[j].ex.rev = exec'.rev => sup'[j].ex = exec'
    BY <1>2, <1>6 DEF Reads, PendingInv
  <2>2. CASE NothingToDo(k, e.status)
    <3>1. sup'[k].cmd = [status |-> "absent", rev |-> 0] /\ sup'[k].ex = [count |-> 0, rev |-> 0]
      BY <2>2, <1>8, <1>5
    <3>2. entry[k[1]] \in CommandEntry /\ exec \in ExecEntry
      BY <1>1 DEF e, PendingInv, PendingTypes
    <3>3. entry[k[1]].rev = 0 => entry[k[1]] = [status |-> "absent", rev |-> 0]
      BY <3>2, CallShape DEF CommandEntry, PendingInv, Revisions
    <3>4. exec.rev = 0 => exec = [count |-> 0, rev |-> 0]
      BY <3>2 DEF ExecEntry, PendingInv, Revisions
    <3>5. 0 <= entry[k[1]].rev /\ 0 <= exec.rev BY <3>2 DEF CommandEntry, ExecEntry
    <3> QED BY <2>1, <3>1, <3>3, <3>4, <3>5, <1>2 DEF Reads
  <2>3. CASE ~NothingToDo(k, e.status)
    <3>1. sup'[k].cmd = entry[k[1]] /\ sup'[k].ex = sup[k].ex BY <2>3, <1>8 DEF e, Going
    <3>2. entry[k[1]].rev <= entry[k[1]].rev BY <1>1 DEF e, CommandEntry
    <3>3. sup[k].ex.rev <= exec.rev /\ (sup[k].ex.rev = exec.rev => sup[k].ex = exec)
      BY DEF Reads, PendingInv
    <3> QED BY <2>1, <3>1, <3>2, <3>3, <1>2 DEF Reads
  <2> QED BY <2>2, <2>3
<1>12. \A j \in Calls : (AtExec(j)' <=> AtExec(j))
  BY <1>2, <1>6, <1>8 DEF AtExec
<1>13. \A j \in Calls : AtExec(j) => sup'[j] = sup[j]
  BY <1>2, <1>6 DEF AtExec
<1>14. \A c \in SupCommands : (AtExec(RegisterOf(c))' <=> AtExec(RegisterOf(c)))
  BY <1>12, CallsOf DEF AtExec, RegisterOf
<1>15. \A c \in SupCommands : (TakenOff(c)' <=> TakenOff(c)) /\ (AddedIn(c)' <=> AddedIn(c))
  <2> SUFFICES ASSUME NEW c \in SupCommands
               PROVE  (TakenOff(c)' <=> TakenOff(c)) /\ (AddedIn(c)' <=> AddedIn(c))
    OBVIOUS
  <2>1. \A j \in MarksAt(c) : (AtExec(j)' <=> AtExec(j)) BY <1>12, CallsOf
  <2>2. (\A j \in MarksAt(c) : AtExec(j))' <=> (\A j \in MarksAt(c) : AtExec(j)')
    BY DEF MarksAt
  <2> QED BY <1>2, <1>14, <2>1 DEF TakenOff, AddedIn, MarksAt
<1>16. AddsBefore' BY <1>2, <1>13, <1>14, <1>15, CallsOf DEF AddsBefore, PendingInv
<1>17. CountExact'
  <2>1. InCount' = InCount BY <1>15 DEF InCount
  <2>2. UpToDate' => UpToDate BY <1>2, <1>12, <1>13 DEF UpToDate
  <2> QED BY <1>2, <2>1, <2>2 DEF CountExact, PendingInv
<1>18. ~clash => (NothingToDo(k, e.status) => ~Registers(k))
  <2> SUFFICES ASSUME ~clash, Registers(k), e.status = "issued" PROVE FALSE
    BY DEF NothingToDo
  <2>1. Past(RegisterOf(k[1])) BY CallShape DEF e, PendingInv, Orderly
  <2> QED BY <2>1, <1>2, CallShape DEF Past
<1>19. \A j \in Calls : /\ Past(j) => Past(j)'
                        /\ Past(j)' /\ j # k => Past(j)
  BY <1>2, <1>6 DEF Past
<1>20. \A c \in SupCommands : ~clash => (Past(RegisterOf(c))' <=> Past(RegisterOf(c)))
  <2> SUFFICES ASSUME NEW c \in SupCommands, ~clash
               PROVE  Past(RegisterOf(c))' <=> Past(RegisterOf(c))
    OBVIOUS
  <2>1. CASE RegisterOf(c) = k
    <3>1. ~NothingToDo(k, e.status) BY <2>1, <1>18, CallsOf
    <3>2. sup'[k].pc = "readExec" BY <3>1, <1>8 DEF Going
    <3> QED BY <3>2, <2>1, <1>2 DEF Past, RegisterOf
  <2>2. CASE RegisterOf(c) # k
    <3>1. sup'[RegisterOf(c)] = sup[RegisterOf(c)] BY <2>2, <1>6, CallsOf
    <3> QED BY <3>1 DEF Past, RegisterOf
  <2> QED BY <2>1, <2>2
<1>21. Orderly'
  <2> SUFFICES ASSUME ~clash PROVE Orderly' BY <1>2 DEF Orderly
  <2>1. \A j \in Calls : sup'[j].pc # "false" BY <1>6, <1>8 DEF PendingInv, Orderly
  <2>2. \A c \in SupCommands : (entry'[c].status # "absent" <=> Past(RegisterOf(c))')
    BY <1>2, <1>20 DEF PendingInv, Orderly
  <2>3. ASSUME NEW c \in SupCommands, NEW j \in MarksAt(c), Past(j)'
        PROVE  entry'[c].status = "terminal"
    <3>1. CASE j = k
      <4>1. NothingToDo(k, e.status) BY <3>1, <2>3, <1>8 DEF Past, Going
      <4> QED BY <4>1, <3>1, <1>2, CallsOf DEF NothingToDo, e
    <3>2. CASE j # k BY <3>2, <2>3, <1>2, <1>19, CallsOf DEF PendingInv, Orderly
    <3> QED BY <3>1, <3>2
  <2>4. \A c \in SupCommands :
          entry'[c].status = "terminal" => \E j \in MarksAt(c) : Past(j)'
    BY <1>2, <1>19, CallsOf DEF PendingInv, Orderly
  <2>5. \A c \in SupCommands : \A i, j \in MarksAt(c) : AtExec(i)' /\ AtExec(j)' => i = j
    BY <1>12, CallsOf DEF PendingInv, Orderly
  <2>6. \A c \in SupCommands : AtExec(RegisterOf(c))' =>
          sup'[RegisterOf(c)].cmd.status = "absent"
    BY <1>13, <1>14, CallsOf DEF PendingInv, Orderly
  <2>7. ASSUME NEW j \in Calls, sup'[j].pc \in {"readExec", "putCommand"}
        PROVE  ~NothingToDo(j, sup'[j].cmd.status)
    <3>1. CASE j = k
      <4>1. ~NothingToDo(k, e.status) BY <3>1, <2>7, <1>5, <1>8
      <4>2. sup'[k].cmd = e BY <4>1, <1>8 DEF Going
      <4> QED BY <4>1, <4>2, <3>1
    <3>2. CASE j # k
      <4>1. sup'[j] = sup[j] BY <3>2, <1>6
      <4> QED BY <4>1, <2>7 DEF PendingInv, Orderly
    <3> QED BY <3>1, <3>2
  <2> QED BY <2>1, <2>2, <2>3, <2>4, <2>5, <2>6, <2>7 DEF Orderly, MarksAt, RegisterOf, NothingToDo, Registers
<1> QED BY <1>9, <1>10, <1>11, <1>16, <1>17, <1>21 DEF PendingInv

\* Reading the execution's key.
LEMMA PendingReadExec ==
    ASSUME PendingInv, NEW k \in Calls, SupReadExec(k)
    PROVE  PendingInv'
<1>1. sup[k].pc = "readExec" /\ entry' = entry /\ exec' = exec /\ clash' = clash
  BY DEF SupReadExec
<1>2. sup[k] \in CallState /\ exec \in ExecEntry BY DEF PendingInv, PendingTypes
<1>3. \A j \in Calls \ {k} : sup'[j] = sup[j]
  BY DEF PendingInv, PendingTypes, SupReadExec
<1>4. sup'[k] = [pc |-> "putCommand", cmd |-> sup[k].cmd, ex |-> exec, tries |-> sup[k].tries]
  <2> DEFINE r1 == [sup[k] EXCEPT !.ex = exec]
  <2>1. r1 = [pc |-> sup[k].pc, cmd |-> sup[k].cmd, ex |-> exec, tries |-> sup[k].tries]
    BY <1>2 DEF CallState
  <2>2. sup'[k] = [r1 EXCEPT !.pc = "putCommand"]
    BY DEF SupReadExec, PendingInv, PendingTypes
  <2> HIDE DEF r1
  <2> QED BY <2>1, <2>2
<1>5. sup' \in [Calls -> CallState]
  <2>1. sup'[k] \in CallState BY <1>2, <1>4 DEF CallState
  <2>2. \A j \in Calls : sup'[j] \in CallState BY <2>1, <1>3 DEF PendingInv, PendingTypes
  <2>3. sup' = [j \in Calls |-> sup'[j]] BY DEF SupReadExec, PendingInv, PendingTypes
  <2> QED BY <2>2, <2>3
<1>6. PendingTypes' BY <1>1, <1>3, <1>4, <1>5 DEF PendingInv, PendingTypes
<1>7. Revisions' BY <1>1 DEF Revisions, PendingInv
<1>8. Reads'
  <2>1. \A j \in Calls \ {k} :
          /\ sup'[j].cmd.rev <= entry'[j[1]].rev
          /\ sup'[j].cmd.rev = entry'[j[1]].rev => sup'[j].cmd = entry'[j[1]]
          /\ sup'[j].ex.rev <= exec'.rev
          /\ sup'[j].ex.rev = exec'.rev => sup'[j].ex = exec'
    BY <1>1, <1>3 DEF Reads, PendingInv
  <2>2. sup'[k].cmd = sup[k].cmd /\ sup'[k].ex = exec BY <1>4
  <2>3. exec.rev <= exec.rev BY <1>2 DEF ExecEntry
  <2>4. /\ sup[k].cmd.rev <= entry[k[1]].rev
        /\ sup[k].cmd.rev = entry[k[1]].rev => sup[k].cmd = entry[k[1]]
    BY DEF Reads, PendingInv
  <2> QED BY <2>1, <2>2, <2>3, <2>4, <1>1 DEF Reads
<1>9. \A j \in Calls : /\ (Past(j)' <=> Past(j)) /\ (AtExec(j)' <=> AtExec(j))
                       /\ AtExec(j) => sup'[j] = sup[j]
  BY <1>1, <1>3, <1>4 DEF Past, AtExec
<1>10. \A c \in SupCommands : /\ (AtExec(RegisterOf(c))' <=> AtExec(RegisterOf(c)))
                              /\ (Past(RegisterOf(c))' <=> Past(RegisterOf(c)))
  BY <1>9, CallsOf DEF AtExec, Past, RegisterOf
<1>11. \A c \in SupCommands : (TakenOff(c)' <=> TakenOff(c)) /\ (AddedIn(c)' <=> AddedIn(c))
  <2> SUFFICES ASSUME NEW c \in SupCommands
               PROVE  (TakenOff(c)' <=> TakenOff(c)) /\ (AddedIn(c)' <=> AddedIn(c))
    OBVIOUS
  <2>1. \A j \in MarksAt(c) : (AtExec(j)' <=> AtExec(j)) BY <1>9, CallsOf
  <2> QED BY <1>1, <1>10, <2>1 DEF TakenOff, AddedIn, MarksAt
<1>12. AddsBefore' BY <1>1, <1>9, <1>10, <1>11, CallsOf DEF AddsBefore, PendingInv
<1>13. CountExact'
  <2>1. InCount' = InCount BY <1>11 DEF InCount
  <2>2. UpToDate' => UpToDate BY <1>1, <1>9 DEF UpToDate
  <2> QED BY <1>1, <2>1, <2>2 DEF CountExact, PendingInv
<1>14. Orderly'
  <2> SUFFICES ASSUME ~clash PROVE Orderly' BY <1>1 DEF Orderly
  <2>1. \A j \in Calls : sup'[j].pc # "false" BY <1>3, <1>4 DEF PendingInv, Orderly
  <2>2. \A c \in SupCommands : (entry'[c].status # "absent" <=> Past(RegisterOf(c))')
    BY <1>1, <1>10 DEF PendingInv, Orderly
  <2>3. \A c \in SupCommands : \A j \in MarksAt(c) : Past(j)' => entry'[c].status = "terminal"
    BY <1>1, <1>9, CallsOf DEF PendingInv, Orderly
  <2>4. \A c \in SupCommands :
          entry'[c].status = "terminal" => \E j \in MarksAt(c) : Past(j)'
    BY <1>1, <1>9, CallsOf DEF PendingInv, Orderly
  <2>5. \A c \in SupCommands : \A i, j \in MarksAt(c) : AtExec(i)' /\ AtExec(j)' => i = j
    BY <1>9, CallsOf DEF PendingInv, Orderly
  <2>6. \A c \in SupCommands : AtExec(RegisterOf(c))' =>
          sup'[RegisterOf(c)].cmd.status = "absent"
    BY <1>9, <1>10, CallsOf DEF PendingInv, Orderly
  <2>7. ASSUME NEW j \in Calls, sup'[j].pc \in {"readExec", "putCommand"}
        PROVE  ~NothingToDo(j, sup'[j].cmd.status)
    <3>1. sup'[j].cmd = sup[j].cmd /\ sup[j].pc \in {"readExec", "putCommand"}
      BY <2>7, <1>1, <1>3, <1>4
    <3> QED BY <3>1 DEF PendingInv, Orderly
  <2> QED BY <2>1, <2>2, <2>3, <2>4, <2>5, <2>6, <2>7 DEF Orderly, MarksAt, RegisterOf, NothingToDo, Registers
<1> QED BY <1>6, <1>7, <1>8, <1>12, <1>13, <1>14 DEF PendingInv

\* A conflict starts the call again, or ends it; it is a clash in any case.
LEMMA PendingRetry ==
    ASSUME PendingInv, NEW k \in Calls, SupRetry(k)
    PROVE  PendingInv'
<1>1. entry' = entry /\ exec' = exec /\ clash' = TRUE BY DEF SupRetry
<1>2. sup[k] \in CallState BY DEF PendingInv, PendingTypes
<1> DEFINE z == [status |-> "absent", rev |-> 0]
           new == [pc |-> IF sup[k].tries < MaxAttempts THEN "new" ELSE "false",
                   cmd |-> z, ex |-> [count |-> 0, rev |-> 0],
                   tries |-> IF sup[k].tries < MaxAttempts THEN sup[k].tries ELSE 0]
<1>3. sup' = [sup EXCEPT ![k] = new]
  <2>1. CASE sup[k].tries < MaxAttempts
    <3>1. sup' = [sup EXCEPT ![k] = [NewCall EXCEPT !.tries = sup[k].tries]]
      BY <2>1 DEF SupRetry
    <3>2. [NewCall EXCEPT !.tries = sup[k].tries] = new BY <2>1 DEF NewCall
    <3> QED BY <3>1, <3>2
  <2>2. CASE ~(sup[k].tries < MaxAttempts)
    <3>1. sup' = [sup EXCEPT ![k] = Return("false")] BY <2>2 DEF SupRetry
    <3>2. Return("false") = new BY <2>2 DEF Return, NewCall
    <3> QED BY <3>1, <3>2
  <2> QED BY <2>1, <2>2
<1>4. new \in CallState /\ (new.pc = "new" => new.tries < MaxAttempts)
  BY <1>2, PendingAssumption DEF CallState, CommandEntry, ExecEntry
<1>5. new.cmd = z /\ new.ex = [count |-> 0, rev |-> 0] OBVIOUS
<1> HIDE DEF new
<1>6. PendingTypes'
  <2>1. sup' \in [Calls -> CallState] BY <1>3, <1>4 DEF PendingInv, PendingTypes
  <2>2. \A j \in Calls : sup'[j].pc = "new" => sup'[j].tries < MaxAttempts
    BY <1>3, <1>4 DEF PendingInv, PendingTypes
  <2> QED BY <1>1, <2>1, <2>2 DEF PendingInv, PendingTypes
<1>7. Revisions' BY <1>1 DEF Revisions, PendingInv
<1>8. Reads'
  <2>1. \A j \in Calls \ {k} :
          /\ sup'[j].cmd.rev <= entry'[j[1]].rev
          /\ sup'[j].cmd.rev = entry'[j[1]].rev => sup'[j].cmd = entry'[j[1]]
          /\ sup'[j].ex.rev <= exec'.rev
          /\ sup'[j].ex.rev = exec'.rev => sup'[j].ex = exec'
    BY <1>1, <1>3 DEF Reads, PendingInv, PendingTypes
  <2>2. sup'[k].cmd = z /\ sup'[k].ex = [count |-> 0, rev |-> 0]
    BY <1>3, <1>5 DEF PendingInv, PendingTypes
  <2>3. entry[k[1]] \in CommandEntry /\ exec \in ExecEntry
    BY CallShape DEF PendingInv, PendingTypes
  <2>4. entry[k[1]].rev = 0 => entry[k[1]] = z
    BY <2>3, CallShape DEF CommandEntry, PendingInv, Revisions
  <2>5. exec.rev = 0 => exec = [count |-> 0, rev |-> 0]
    BY <2>3 DEF ExecEntry, PendingInv, Revisions
  <2>6. 0 <= entry[k[1]].rev /\ 0 <= exec.rev BY <2>3 DEF CommandEntry, ExecEntry
  <2> QED BY <2>1, <2>2, <2>4, <2>5, <2>6, <1>1 DEF Reads
<1> QED BY <1>1, <1>6, <1>7, <1>8 DEF PendingInv, Orderly, AddsBefore, CountExact

LEMMA PendingStutters ==
    ASSUME PendingInv, UNCHANGED pendingVars PROVE PendingInv'
<1> USE DEF pendingVars
<1>1. PendingTypes' /\ Revisions' /\ Reads'
  BY DEF PendingInv, PendingTypes, Revisions, Reads
<1>2. Orderly'
  BY DEF PendingInv, Orderly, Past, AtExec, NothingToDo, Registers, RegisterOf, MarksAt
<1>3. AddsBefore' /\ CountExact'
  BY DEF PendingInv, AddsBefore, CountExact, TakenOff, AddedIn, InCount, UpToDate,
         AtExec, RegisterOf, MarksAt
<1> QED BY <1>1, <1>2, <1>3 DEF PendingInv

\* Writing the command's key under its revision.  Without a clash this is the
\* register call, or the first mark of a registered command.
LEMMA PendingPutCommand ==
    ASSUME PendingInv, NEW k \in Calls, SupPutCommand(k)
    PROVE  PendingInv'
<1> DEFINE d == k[1]
           e == entry[k[1]]
<1>1. /\ sup[k].pc = "putCommand" /\ exec' = exec
      /\ sup' = [sup EXCEPT ![k].pc = "putExec"]
      /\ entry' = [entry EXCEPT ![d] = [status |-> Written(k), rev |-> e.rev + 1]]
      /\ (clash' <=> \/ clash \/ sup[k].cmd.rev # e.rev
                     \/ ~Registers(k) /\ sup[k].cmd.rev = 0)
  BY DEF SupPutCommand
<1>2. sup[k] \in CallState /\ d \in SupCommands /\ e \in CommandEntry /\ clash' \in BOOLEAN
  BY <1>1, CallShape DEF PendingInv, PendingTypes
<1>3. sup'[k] = [pc |-> "putExec", cmd |-> sup[k].cmd, ex |-> sup[k].ex, tries |-> sup[k].tries]
  BY <1>1, <1>2 DEF PendingInv, PendingTypes, CallState
<1>4. \A j \in Calls \ {k} : sup'[j] = sup[j] BY <1>1 DEF PendingInv, PendingTypes
<1>5. /\ entry'[d] = [status |-> Written(k), rev |-> e.rev + 1]
      /\ \A c \in SupCommands \ {d} : entry'[c] = entry[c]
  BY <1>1, <1>2 DEF PendingInv, PendingTypes
<1>6. e.rev \in Nat /\ Written(k) \in {"issued", "terminal"}
  BY <1>2 DEF CommandEntry, Written
<1>7. PendingTypes'
  <2>1. [status |-> Written(k), rev |-> e.rev + 1] \in CommandEntry BY <1>6 DEF CommandEntry
  <2>2. entry' \in [SupCommands -> CommandEntry]
    BY <1>1, <2>1 DEF PendingInv, PendingTypes
  <2>3. sup'[k] \in CallState BY <1>2, <1>3 DEF CallState
  <2>4. \A j \in Calls : sup'[j] \in CallState BY <2>3, <1>4 DEF PendingInv, PendingTypes
  <2>5. sup' = [j \in Calls |-> sup'[j]] BY <1>1 DEF PendingInv, PendingTypes
  <2>6. sup' \in [Calls -> CallState] BY <2>4, <2>5
  <2>7. \A j \in Calls : sup'[j].pc = "new" => sup'[j].tries < MaxAttempts
    BY <1>3, <1>4 DEF PendingInv, PendingTypes
  <2> QED BY <1>1, <1>2, <2>2, <2>6, <2>7 DEF PendingInv, PendingTypes
<1> HIDE DEF d, e
<1>8. Revisions'
  <2>1. \A c \in SupCommands : (entry'[c].rev = 0 <=> entry'[c].status = "absent")
    BY <1>5, <1>6 DEF PendingInv, Revisions
  <2> QED BY <2>1, <1>1 DEF PendingInv, Revisions
<1>9. Reads'
  <2> SUFFICES ASSUME NEW j \in Calls
               PROVE  /\ sup'[j].cmd.rev <= entry'[j[1]].rev
                      /\ sup'[j].cmd.rev = entry'[j[1]].rev => sup'[j].cmd = entry'[j[1]]
                      /\ sup'[j].ex.rev <= exec'.rev
                      /\ sup'[j].ex.rev = exec'.rev => sup'[j].ex = exec'
    BY DEF Reads
  <2>1. sup'[j].cmd = sup[j].cmd /\ sup'[j].ex = sup[j].ex BY <1>3, <1>4
  <2>2. /\ sup[j].cmd.rev <= entry[j[1]].rev
        /\ sup[j].cmd.rev = entry[j[1]].rev => sup[j].cmd = entry[j[1]]
        /\ sup[j].ex.rev <= exec.rev
        /\ sup[j].ex.rev = exec.rev => sup[j].ex = exec
    BY DEF PendingInv, Reads
  <2>3. sup[j].cmd.rev \in Nat BY DEF PendingInv, PendingTypes, CallState, CommandEntry
  <2>4. j[1] \in SupCommands BY CallShape
  <2>5. CASE j[1] = d
    <3>1. sup[j].cmd.rev <= e.rev BY <2>2, <2>5 DEF d, e
    <3>2. sup[j].cmd.rev < entry'[j[1]].rev BY <3>1, <2>3, <2>5, <1>5, <1>6
    <3> QED BY <3>2, <2>1, <2>2, <2>3, <2>5, <1>1, <1>5, <1>6
  <2>6. CASE j[1] # d
    <3>1. entry'[j[1]] = entry[j[1]] BY <2>4, <2>6, <1>5
    <3> QED BY <3>1, <2>1, <2>2, <1>1
  <2> QED BY <2>5, <2>6
<1>10. \A j \in Calls : /\ (AtExec(j)' <=> AtExec(j) \/ j = k)
                        /\ (Past(j)' <=> Past(j) \/ j = k)
                        /\ sup'[j].ex = sup[j].ex /\ sup'[j].cmd = sup[j].cmd
  BY <1>3, <1>4 DEF AtExec, Past
<1>11. ~AtExec(k) /\ ~Past(k) BY <1>1 DEF AtExec, Past
<1>12. ASSUME ~clash'
       PROVE  /\ ~clash /\ sup[k].cmd = e
              /\ Registers(k) => e.status = "absent"
              /\ ~Registers(k) => e.status = "issued"
  <2>1. ~clash /\ sup[k].cmd.rev = e.rev /\ (~Registers(k) => e.rev # 0)
    BY <1>1, <1>12
  <2>2. sup[k].cmd = e BY <2>1 DEF e, PendingInv, Reads
  <2>3. ~NothingToDo(k, e.status) BY <2>1, <2>2, <1>1 DEF PendingInv, Orderly
  <2>4. ASSUME Registers(k) PROVE e.status = "absent"
    <3>1. ~Past(RegisterOf(d)) BY <2>4, <1>11, CallShape DEF d
    <3> QED BY <3>1, <2>1, <1>2 DEF e, d, PendingInv, Orderly
  <2>5. ASSUME ~Registers(k) PROVE e.status = "issued"
    <3>1. e.status # "absent" BY <2>1, <2>5, <1>2 DEF e, d, PendingInv, Revisions
    <3> QED BY <3>1, <2>3, <2>5, <1>2 DEF NothingToDo, CommandEntry
  <2> QED BY <2>1, <2>2, <2>4, <2>5
<1>13. \A c \in SupCommands :
          /\ (Past(RegisterOf(c))' <=> Past(RegisterOf(c)) \/ RegisterOf(c) = k)
          /\ (AtExec(RegisterOf(c))' <=> AtExec(RegisterOf(c)) \/ RegisterOf(c) = k)
  BY <1>10, CallsOf DEF Past, AtExec, RegisterOf
<1>14. \A c \in SupCommands \ {d} : RegisterOf(c) # k /\ k \notin MarksAt(c)
  BY CallsOf DEF d
<1>15. Registers(k) => k = RegisterOf(d) /\ Written(k) = "issued" /\ k \notin MarksAt(d)
  BY <1>2, CallShape, CallsOf DEF d, Written
<1>16. ~Registers(k) => k # RegisterOf(d) /\ k \in MarksAt(d) /\ Written(k) = "terminal"
  BY <1>2, CallShape, CallsOf DEF d, Written
<1>17. Orderly'
  <2> SUFFICES ASSUME ~clash' PROVE Orderly' BY DEF Orderly
  <2>0. ~clash /\ sup[k].cmd = e BY <1>12
  <2>1. \A j \in Calls : sup'[j].pc # "false" BY <2>0, <1>3, <1>4 DEF PendingInv, Orderly
  <2>2. ASSUME NEW c \in SupCommands
        PROVE  entry'[c].status # "absent" <=> Past(RegisterOf(c))'
    <3>1. CASE c # d BY <3>1, <2>0, <1>5, <1>13, <1>14 DEF PendingInv, Orderly
    <3>2. CASE c = d /\ Registers(k) BY <3>2, <1>5, <1>6, <1>13, <1>15
    <3>3. CASE c = d /\ ~Registers(k)
      <4>1. entry[c].status = "issued" BY <3>3, <1>12 DEF e, d
      <4>2. Past(RegisterOf(c)) BY <4>1, <2>0 DEF PendingInv, Orderly
      <4> QED BY <4>2, <3>3, <1>5, <1>6, <1>13
    <3> QED BY <3>1, <3>2, <3>3
  <2>3. ASSUME NEW c \in SupCommands, NEW j \in MarksAt(c), Past(j)'
        PROVE  entry'[c].status = "terminal"
    <3>1. j \in Calls BY CallsOf
    <3>2. CASE c # d
      <4>1. j # k BY <3>2, <1>14
      <4> QED BY <4>1, <3>1, <3>2, <2>0, <2>3, <1>5, <1>10 DEF PendingInv, Orderly
    <3>3. CASE c = d /\ Registers(k)
      <4>1. j # k BY <3>3, <1>15
      <4>2. Past(j) BY <4>1, <3>1, <2>3, <1>10
      <4>3. entry[c].status = "terminal" BY <4>2, <2>0 DEF PendingInv, Orderly
      <4> QED BY <4>3, <3>3, <1>12 DEF e, d
    <3>4. CASE c = d /\ ~Registers(k) BY <3>4, <1>5, <1>16
    <3> QED BY <3>2, <3>3, <3>4
  <2>4. ASSUME NEW c \in SupCommands, entry'[c].status = "terminal"
        PROVE  \E j \in MarksAt(c) : Past(j)'
    <3>1. CASE c # d
      <4>1. PICK j \in MarksAt(c) : Past(j) BY <3>1, <2>0, <2>4, <1>5 DEF PendingInv, Orderly
      <4>2. Past(j)' BY <4>1, <1>10, CallsOf
      <4> QED BY <4>2
    <3>2. CASE c = d /\ Registers(k) BY <3>2, <2>4, <1>5, <1>15
    <3>3. CASE c = d /\ ~Registers(k)
      <4>1. Past(k)' BY <1>10
      <4> QED BY <4>1, <3>3, <1>16
    <3> QED BY <3>1, <3>2, <3>3
  <2>5. ASSUME NEW c \in SupCommands, NEW i \in MarksAt(c), NEW j \in MarksAt(c),
               AtExec(i)', AtExec(j)'
        PROVE  i = j
    <3>1. i \in Calls /\ j \in Calls BY CallsOf
    <3>2. CASE k \notin {i, j}
      <4>1. AtExec(i) /\ AtExec(j) BY <3>1, <3>2, <2>5, <1>10
      <4> QED BY <4>1, <2>0 DEF PendingInv, Orderly
    <3>3. CASE k \in {i, j}
      <4>1. k \in MarksAt(c) /\ c = d BY <3>3, <1>14
      <4>2. ~Registers(k) BY <4>1, CallsOf
      <4>3. entry[c].status = "issued" BY <4>1, <4>2, <1>12 DEF e, d
      <4>4. \A l \in MarksAt(c) : ~Past(l) BY <4>3, <2>0 DEF PendingInv, Orderly
      <4>5. ~AtExec(i) /\ ~AtExec(j) BY <4>4 DEF Past, AtExec
      <4> QED BY <4>5, <3>1, <2>5, <1>10
    <3> QED BY <3>2, <3>3
  <2>6. ASSUME NEW c \in SupCommands, AtExec(RegisterOf(c))'
        PROVE  sup'[RegisterOf(c)].cmd.status = "absent"
    <3>1. RegisterOf(c) \in Calls /\ Registers(RegisterOf(c)) BY CallsOf
    <3>2. CASE RegisterOf(c) = k BY <3>1, <3>2, <1>3, <1>12
    <3>3. CASE RegisterOf(c) # k
      <4>1. AtExec(RegisterOf(c)) BY <3>3, <2>6, <1>13
      <4> QED BY <4>1, <3>1, <2>0, <1>10 DEF PendingInv, Orderly
    <3> QED BY <3>2, <3>3
  <2>7. ASSUME NEW j \in Calls, sup'[j].pc \in {"readExec", "putCommand"}
        PROVE  ~NothingToDo(j, sup'[j].cmd.status)
    <3>1. sup'[j] = sup[j] BY <2>7, <1>3, <1>4
    <3> QED BY <3>1, <2>0, <2>7 DEF PendingInv, Orderly
  <2> QED BY <2>1, <2>2, <2>3, <2>4, <2>5, <2>6, <2>7 DEF Orderly, MarksAt, RegisterOf, NothingToDo, Registers
<1>18. ASSUME ~clash', NEW c \in SupCommands
       PROVE  (TakenOff(c)' <=> TakenOff(c)) /\ (AddedIn(c)' <=> AddedIn(c))
  <2>0. ~clash BY <1>12, <1>18
  <2>1. CASE c # d
    <3>1. \A j \in MarksAt(c) : (AtExec(j)' <=> AtExec(j)) BY <2>1, <1>10, <1>14, CallsOf
    <3>2. AtExec(RegisterOf(c))' <=> AtExec(RegisterOf(c)) BY <2>1, <1>13, <1>14
    <3>3. entry'[c] = entry[c] BY <2>1, <1>5
    <3> QED BY <3>1, <3>2, <3>3 DEF TakenOff, AddedIn, MarksAt
  <2>2. CASE c = d /\ Registers(k)
    <3>1. entry[c].status = "absent" BY <2>2, <1>12, <1>18 DEF e, d
    <3>2. entry'[c].status = "issued" BY <2>2, <1>5, <1>15
    <3>3. AtExec(RegisterOf(c))' BY <2>2, <1>13, <1>15
    <3> QED BY <3>1, <3>2, <3>3 DEF TakenOff, AddedIn
  <2>3. CASE c = d /\ ~Registers(k)
    <3>1. entry[c].status = "issued" BY <2>3, <1>12, <1>18 DEF e, d
    <3>2. entry'[c].status = "terminal" BY <2>3, <1>5, <1>16
    <3>3. k \in MarksAt(c) /\ AtExec(k)' BY <2>3, <1>10, <1>16
    <3>4. ~TakenOff(c) /\ ~TakenOff(c)' BY <3>1, <3>3 DEF TakenOff, MarksAt
    <3>5. AtExec(RegisterOf(c))' <=> AtExec(RegisterOf(c)) BY <2>3, <1>13, <1>16
    <3> QED BY <3>1, <3>2, <3>4, <3>5 DEF AddedIn
  <2> QED BY <2>1, <2>2, <2>3
<1>19. AddsBefore'
  <2> SUFFICES ASSUME ~clash', NEW c \in SupCommands, AtExec(RegisterOf(c))',
                      sup'[RegisterOf(c)].ex.rev = exec'.rev
               PROVE  ~TakenOff(c)'
    BY DEF AddsBefore, RegisterOf
  <2>1. CASE RegisterOf(c) = k
    <3>1. Registers(k) /\ c = d BY <2>1, <1>14, CallsOf
    <3>2. entry[c].status = "absent" BY <3>1, <1>12 DEF e, d
    <3> QED BY <3>2, <1>18 DEF TakenOff
  <2>2. CASE RegisterOf(c) # k
    <3>1. AtExec(RegisterOf(c)) /\ sup[RegisterOf(c)].ex.rev = exec.rev
      BY <2>2, <1>1, <1>10, <1>13, CallsOf
    <3> QED BY <3>1, <1>12, <1>18 DEF AddsBefore, PendingInv
  <2> QED BY <2>1, <2>2
<1>20. CountExact'
  <2> SUFFICES ASSUME ~clash', UpToDate'
               PROVE  IsFiniteSet(InCount') /\ exec'.count = Cardinality(InCount')
    BY DEF CountExact
  <2>1. InCount' = InCount BY <1>18 DEF InCount
  <2>2. UpToDate BY <1>1, <1>10 DEF UpToDate
  <2> QED BY <1>1, <1>12, <2>1, <2>2 DEF CountExact, PendingInv
<1> QED BY <1>7, <1>8, <1>9, <1>17, <1>19, <1>20 DEF PendingInv

\* Writing the execution's key under its revision: from here on every other
\* call that has read it holds an outdated copy.
LEMMA PendingPutExec ==
    ASSUME PendingInv, NEW k \in Calls, SupPutExec(k)
    PROVE  PendingInv'
<1> DEFINE d == k[1]
<1>1. /\ sup[k].pc = "putExec" /\ entry' = entry
      /\ sup' = [sup EXCEPT ![k] = Return("true")]
      /\ exec' = [count |-> Counted(k), rev |-> exec.rev + 1]
      /\ (clash' <=> clash \/ sup[k].ex.rev # exec.rev)
  BY DEF SupPutExec
<1>2. sup[k] \in CallState /\ d \in SupCommands /\ exec \in ExecEntry /\ clash' \in BOOLEAN
  BY <1>1, CallShape DEF PendingInv, PendingTypes
<1>3. Return("true") = [pc |-> "true", cmd |-> [status |-> "absent", rev |-> 0],
                        ex |-> [count |-> 0, rev |-> 0], tries |-> 0]
  BY DEF Return, NewCall
<1>4. Return("true") \in CallState
  BY <1>3, PendingAssumption DEF CallState, CommandEntry, ExecEntry
<1>5. /\ sup'[k] = Return("true") /\ sup'[k].pc = "true"
      /\ \A j \in Calls \ {k} : sup'[j] = sup[j]
  BY <1>1, <1>3 DEF PendingInv, PendingTypes
<1>6. Counted(k) \in Nat BY <1>2 DEF Counted, CallState, ExecEntry
<1>7. exec' \in ExecEntry /\ exec'.rev = exec.rev + 1 /\ exec.rev \in Nat
      /\ exec'.count = Counted(k)
  BY <1>1, <1>2, <1>6 DEF ExecEntry
<1>8. PendingTypes'
  <2>1. sup' \in [Calls -> CallState] BY <1>1, <1>4 DEF PendingInv, PendingTypes
  <2>2. \A j \in Calls : sup'[j].pc = "new" => sup'[j].tries < MaxAttempts
    BY <1>5 DEF PendingInv, PendingTypes
  <2> QED BY <1>1, <1>2, <1>7, <2>1, <2>2 DEF PendingInv, PendingTypes
<1> HIDE DEF d
<1>9. Revisions' BY <1>1, <1>7 DEF PendingInv, Revisions
<1>10. Reads'
  <2> SUFFICES ASSUME NEW j \in Calls
               PROVE  /\ sup'[j].cmd.rev <= entry'[j[1]].rev
                      /\ sup'[j].cmd.rev = entry'[j[1]].rev => sup'[j].cmd = entry'[j[1]]
                      /\ sup'[j].ex.rev <= exec'.rev
                      /\ sup'[j].ex.rev # exec'.rev
    BY DEF Reads
  <2>1. CASE j = k
    <3>1. /\ sup'[j].cmd = [status |-> "absent", rev |-> 0] /\ sup'[j].ex.rev = 0
      BY <2>1, <1>3, <1>5
    <3>2. entry[d] \in CommandEntry BY <1>2 DEF PendingInv, PendingTypes
    <3>3. entry[d].rev = 0 => entry[d] = [status |-> "absent", rev |-> 0]
      BY <3>2, <1>2 DEF CommandEntry, PendingInv, Revisions
    <3>4. 0 <= entry[d].rev BY <3>2 DEF CommandEntry
    <3> QED BY <3>1, <3>3, <3>4, <2>1, <1>1, <1>7 DEF d
  <2>2. CASE j # k
    <3>1. sup'[j] = sup[j] BY <2>2, <1>5
    <3>2. sup[j].ex.rev <= exec.rev /\ sup[j].ex.rev \in Nat
      BY DEF PendingInv, PendingTypes, Reads, CallState, ExecEntry
    <3>3. sup[j].ex.rev <= exec'.rev /\ sup[j].ex.rev # exec'.rev BY <3>2, <1>7
    <3>4. /\ sup[j].cmd.rev <= entry[j[1]].rev
          /\ sup[j].cmd.rev = entry[j[1]].rev => sup[j].cmd = entry[j[1]]
      BY DEF PendingInv, Reads
    <3> QED BY <3>1, <3>3, <3>4, <1>1
  <2> QED BY <2>1, <2>2
<1>11. \A j \in Calls : /\ (AtExec(j)' <=> AtExec(j) /\ j # k)
                        /\ (Past(j)' <=> Past(j))
  BY <1>1, <1>5 DEF AtExec, Past
<1>12. AtExec(k) /\ Past(k) BY <1>1 DEF AtExec, Past
<1>13. \A c \in SupCommands :
          /\ (Past(RegisterOf(c))' <=> Past(RegisterOf(c)))
          /\ (AtExec(RegisterOf(c))' <=> AtExec(RegisterOf(c)) /\ RegisterOf(c) # k)
  BY <1>11, CallsOf DEF Past, AtExec, RegisterOf
<1>14. \A c \in SupCommands \ {d} : RegisterOf(c) # k /\ k \notin MarksAt(c)
  BY CallsOf DEF d
<1>15. Registers(k) => k = RegisterOf(d) /\ k \notin MarksAt(d)
  BY <1>2, CallShape, CallsOf DEF d
<1>16. ~Registers(k) => k # RegisterOf(d) /\ k \in MarksAt(d)
  BY <1>2, CallShape, CallsOf DEF d
<1>17. Orderly'
  <2> SUFFICES ASSUME ~clash' PROVE Orderly' BY DEF Orderly
  <2>0. ~clash BY <1>1
  <2>1. \A j \in Calls : sup'[j].pc # "false" BY <2>0, <1>5 DEF PendingInv, Orderly
  <2>2. \A c \in SupCommands : (entry'[c].status # "absent" <=> Past(RegisterOf(c))')
    BY <2>0, <1>1, <1>13 DEF PendingInv, Orderly
  <2>3. \A c \in SupCommands : \A j \in MarksAt(c) : Past(j)' => entry'[c].status = "terminal"
    BY <2>0, <1>1, <1>11, CallsOf DEF PendingInv, Orderly
  <2>4. \A c \in SupCommands :
          entry'[c].status = "terminal" => \E j \in MarksAt(c) : Past(j)'
    BY <2>0, <1>1, <1>11, CallsOf DEF PendingInv, Orderly
  <2>5. \A c \in SupCommands : \A i, j \in MarksAt(c) : AtExec(i)' /\ AtExec(j)' => i = j
    BY <2>0, <1>11, CallsOf DEF PendingInv, Orderly
  <2>6. ASSUME NEW c \in SupCommands, AtExec(RegisterOf(c))'
        PROVE  sup'[RegisterOf(c)].cmd.status = "absent"
    <3>1. AtExec(RegisterOf(c)) /\ RegisterOf(c) # k BY <2>6, <1>13
    <3>2. sup'[RegisterOf(c)] = sup[RegisterOf(c)] BY <3>1, <1>5, CallsOf
    <3> QED BY <3>1, <3>2, <2>0 DEF PendingInv, Orderly
  <2>7. ASSUME NEW j \in Calls, sup'[j].pc \in {"readExec", "putCommand"}
        PROVE  ~NothingToDo(j, sup'[j].cmd.status)
    <3>1. sup'[j] = sup[j] BY <2>7, <1>5
    <3> QED BY <3>1, <2>0, <2>7 DEF PendingInv, Orderly
  <2> QED BY <2>1, <2>2, <2>3, <2>4, <2>5, <2>6, <2>7 DEF Orderly, MarksAt, RegisterOf, NothingToDo, Registers
<1>18. AddsBefore'
  <2> SUFFICES ASSUME NEW c \in SupCommands, AtExec(RegisterOf(c))',
                      sup'[RegisterOf(c)].ex.rev = exec'.rev
               PROVE  FALSE
    BY DEF AddsBefore, RegisterOf
  <2>1. RegisterOf(c) \in Calls /\ sup'[RegisterOf(c)] = sup[RegisterOf(c)]
    BY <1>5, <1>13, CallsOf
  <2>2. sup[RegisterOf(c)].ex.rev <= exec.rev /\ sup[RegisterOf(c)].ex.rev \in Nat
    BY <2>1 DEF PendingInv, PendingTypes, Reads, CallState, ExecEntry
  <2> QED BY <2>1, <2>2, <1>7
<1>19. CountExact'
  <2> SUFFICES ASSUME ~clash', UpToDate'
               PROVE  IsFiniteSet(InCount') /\ exec'.count = Cardinality(InCount')
    BY DEF CountExact
  <2>1. ~clash /\ sup[k].ex.rev = exec.rev BY <1>1
  <2>2. sup[k].ex = exec BY <2>1 DEF PendingInv, Reads
  <2>3. ASSUME NEW j \in Calls, j # k PROVE ~AtExec(j)
    <3> SUFFICES ASSUME AtExec(j) PROVE FALSE OBVIOUS
    <3>1. AtExec(j)' /\ sup'[j] = sup[j] BY <2>3, <1>5, <1>11
    <3>2. sup[j].ex.rev = exec'.rev BY <3>1 DEF UpToDate
    <3>3. sup[j].ex.rev <= exec.rev /\ sup[j].ex.rev \in Nat
      BY DEF PendingInv, PendingTypes, Reads, CallState, ExecEntry
    <3> QED BY <3>2, <3>3, <1>7
  <2>4. UpToDate BY <2>1, <2>3 DEF UpToDate
  <2>5. IsFiniteSet(InCount) /\ exec.count = Cardinality(InCount)
    BY <2>1, <2>4 DEF PendingInv, CountExact
  <2>6. ASSUME NEW c \in SupCommands \ {d}
        PROVE  (TakenOff(c)' <=> TakenOff(c)) /\ (AddedIn(c)' <=> AddedIn(c))
    <3>1. \A j \in MarksAt(c) : (AtExec(j)' <=> AtExec(j)) BY <1>11, <1>14, CallsOf
    <3>2. AtExec(RegisterOf(c))' <=> AtExec(RegisterOf(c)) BY <1>13, <1>14
    <3> QED BY <3>1, <3>2, <1>1 DEF TakenOff, AddedIn, MarksAt
  <2>7. CASE Registers(k)
    <3>1. k = RegisterOf(d) /\ AtExec(RegisterOf(d)) BY <2>7, <1>12, <1>15
    <3>2. ~AddedIn(d) BY <3>1 DEF AddedIn
    <3>3. ~TakenOff(d) BY <3>1, <2>1, <1>2 DEF PendingInv, AddsBefore
    <3>4. AddedIn(d)'
      <4>1. entry'[d].status # "absent"
        BY <3>1, <2>1, <1>1, <1>2, <1>12 DEF PendingInv, Orderly
      <4> QED BY <4>1, <3>1, <1>2, <1>13 DEF AddedIn
    <3>5. ~TakenOff(d)'
      <4>1. \A j \in MarksAt(d) : (AtExec(j)' <=> AtExec(j))
        BY <2>7, <1>2, <1>11, <1>15, CallsOf
      <4> QED BY <4>1, <3>3, <1>1 DEF TakenOff, MarksAt
    <3>6. InCount' = InCount \cup {d} /\ d \notin InCount
      BY <3>2, <3>4, <3>5, <2>6, <1>2 DEF InCount
    <3>7. sup[k].cmd.status = "absent" BY <3>1, <2>1, <1>2 DEF PendingInv, Orderly
    <3>8. Counted(k) = exec.count + 1 BY <3>7, <2>2, <2>7 DEF Counted
    <3>9. IsFiniteSet(InCount \cup {d})
          /\ Cardinality(InCount \cup {d}) = Cardinality(InCount) + 1
      BY <3>6, <2>5, FS_AddElement
    <3> QED BY <3>6, <3>8, <3>9, <2>5, <1>7
  <2>8. CASE ~Registers(k)
    <3>1. k # RegisterOf(d) /\ k \in MarksAt(d) BY <2>8, <1>16
    <3>2. entry[d].status = "terminal"
      BY <3>1, <2>1, <1>2, <1>12 DEF PendingInv, Orderly
    <3>3. ~TakenOff(d) BY <3>1, <1>12 DEF TakenOff
    <3>4. AddedIn(d)
      <4>1. ~AtExec(RegisterOf(d)) BY <3>1, <2>3, <1>2, CallsOf
      <4> QED BY <4>1, <3>2 DEF AddedIn
    <3>5. TakenOff(d)'
      <4>1. \A j \in MarksAt(d) : ~AtExec(j)' BY <2>3, <1>2, <1>11, CallsOf
      <4> QED BY <4>1, <3>2, <1>1 DEF TakenOff, MarksAt
    <3>6. InCount' = InCount \ {d} /\ d \in InCount
      BY <3>3, <3>4, <3>5, <2>6, <1>2 DEF InCount
    <3>7. IsFiniteSet(InCount \ {d}) /\ Cardinality(InCount \ {d}) = Cardinality(InCount) - 1
      BY <3>6, <2>5, FS_RemoveElement
    <3>8. Cardinality(InCount) \in Nat /\ Cardinality(InCount) # 0
      BY <3>6, <2>5, FS_CardinalityType, FS_EmptySet
    <3>9. Counted(k) = exec.count - 1
      BY <3>8, <2>2, <2>5, <2>8 DEF Counted
    <3> QED BY <3>6, <3>7, <3>9, <2>5, <1>7
  <2> QED BY <2>7, <2>8
<1> QED BY <1>8, <1>9, <1>10, <1>17, <1>18, <1>19 DEF PendingInv

LEMMA PendingInvariant == PendingSpec => []PendingInv
<1>1. PendingInit => PendingInv BY PendingStarts
<1>2. PendingInv /\ [PendingNext]_pendingVars => PendingInv'
  <2> SUFFICES ASSUME PendingInv, [PendingNext]_pendingVars PROVE PendingInv' OBVIOUS
  <2>1. CASE UNCHANGED pendingVars BY <2>1, PendingStutters
  <2>2. CASE PendingNext
    <3>1. PICK k \in Calls : \/ SupReadCommand(k) \/ SupReadExec(k)
                             \/ SupPutCommand(k) \/ SupPutExec(k) \/ SupRetry(k)
      BY <2>2 DEF PendingNext
    <3>2. CASE SupReadCommand(k) BY <3>2, PendingReadCommand
    <3>3. CASE SupReadExec(k) BY <3>3, PendingReadExec
    <3>4. CASE SupPutCommand(k) BY <3>4, PendingPutCommand
    <3>5. CASE SupPutExec(k) BY <3>5, PendingPutExec
    <3>6. CASE SupRetry(k) BY <3>6, PendingRetry
    <3> QED BY <3>1, <3>2, <3>3, <3>4, <3>5, <3>6
  <2> QED BY <2>1, <2>2
<1> QED BY <1>1, <1>2, PTL DEF PendingSpec

\* The keys and the calls of the supervisor keep their types.
THEOREM PendingTypesHold == PendingSpec => []PendingTypeOK
<1>1. PendingInv => PendingTypeOK
  BY DEF PendingInv, PendingTypes, PendingTypeOK, CallState, CommandEntry, ExecEntry
<1> QED BY <1>1, PendingInvariant, PTL

\* Whatever the order of the calls, and however often the terminal events of a
\* command are delivered: as long as no call met a moved revision, the pending
\* count is the number of registered commands that are not marked, whenever no
\* call is under way (mark_command_terminal and register_command_issued).
THEOREM PendingCountExact == PendingSpec => []ExactWithoutClash
<1> QED BY PendingExact, PendingInvariant, PTL

-----------------------------------------------------------------------------
(* The ends of executions.                                                 *)
(*                                                                         *)
(* For any tree of executions with any number of callers: the status of a  *)
(* row stays once it is terminal, and the engine issues nothing for an     *)
(* execution whose state it has ended.                                     *)

OperatorCalls == [kind : {"none", "cancel", "finalize", "save", "answered"},
          targets : SUBSET Executions]

\* Whoever saves a state, it is that of an execution that was started.
SavedWasStarted ==
    /\ \A x \in Executions : ~Started(x) => status[x] = "absent" /\ issuedSoFar[x] = 0
                                            /\ current[x] = "none"
    /\ \A c \in Callers : \A x \in call[c].targets : Started(x)

EndInv == EndTypeOK /\ SavedWasStarted

\* What no step undoes.
StatusStays(x) == status[x] \in {"COMPLETED", "FAILED"} => status'[x] = status[x]
EngineStays(x) ==
    engine[x] \in {"completed", "failed"} =>
        /\ issuedSoFar'[x] = issuedSoFar[x]
        /\ engine'[x] \in {"completed", "failed"}
EndsStay == \A x \in Executions : StatusStays(x) /\ EngineStays(x)

-----------------------------------------------------------------------------
LEMMA EndInitInv == EndInit => EndInv
<1> SUFFICES ASSUME EndInit PROVE EndInv  OBVIOUS
<1>1. <<>> \in Seq(TerminalEvents)  BY EmptySeq
<1>2. 0 \in 0..StepsEach  BY EndAssumption
<1>3. EndTypeOK  BY <1>1, <1>2 DEF EndInit, EndTypeOK, EventKinds, NotCalled
<1>4. SavedWasStarted  BY DEF EndInit, SavedWasStarted, Started, NotCalled
<1> QED  BY <1>3, <1>4 DEF EndInv

\* An event is added to an execution.
LEMMA EmitTyped ==
    ASSUME EndTypeOK, NEW x \in Executions, NEW k \in TerminalEvents, Emit(x, k)
    PROVE  /\ endings' \in [Executions -> Seq(TerminalEvents)]
           /\ latest' \in [Executions -> EventKinds]
<1>1. Append(endings[x], k) \in Seq(TerminalEvents)
  BY AppendProperties DEF EndTypeOK
<1> QED  BY <1>1 DEF Emit, EndTypeOK, EventKinds

\* A state is saved for an execution that was started.
LEMMA SaveStateSafe ==
    ASSUME EndTypeOK, NEW x \in Executions, NEW s \in {"completed", "failed"}, SaveState(x, s)
    PROVE  /\ engine' \in [Executions -> {"absent", "running", "completed", "failed"}]
           /\ status' \in [Executions -> {"absent", "RUNNING", "COMPLETED", "FAILED"}]
           /\ engine'[x] = s
           /\ \A y \in Executions : StatusStays(y)
           /\ \A y \in Executions \ {x} : engine'[y] = engine[y] /\ status'[y] = status[y]
BY DEF EndTypeOK, SaveState, StatusStays

LEMMA StartKeeps ==
    ASSUME EndInv, NEW x \in Executions, Start(x)
    PROVE  EndInv' /\ EndsStay
<1> USE DEF EndInv
<1>1. 1 \in 0..StepsEach  BY EndAssumption
<1>2. EndTypeOK'  BY <1>1 DEF Start, EndTypeOK, EventKinds
<1>3. SavedWasStarted'  BY DEF Start, SavedWasStarted, Started, EndTypeOK
<1>4. EndsStay
  BY DEF Start, EndsStay, StatusStays, EngineStays, Started, SavedWasStarted, EndTypeOK
<1> QED  BY <1>2, <1>3, <1>4

\* A claim, a report, the end of a batch: no state is saved.
LEMMA CommandMoves ==
    ASSUME EndInv, NEW x \in Executions, ClaimCurrent(x) \/ Report(x) \/ CloseBatch(x)
    PROVE  EndInv' /\ EndsStay
<1> USE DEF EndInv
<1>1. UNCHANGED <<engine, status, issuedSoFar, call, endings>>
  BY DEF ClaimCurrent, Report, CloseBatch
<1>2. EndTypeOK'
  <2>1. latest' \in [Executions -> EventKinds]
    BY DEF ClaimCurrent, Report, CloseBatch, EndTypeOK, EventKinds
  <2>2. current' \in [Executions -> {"none", "issued", "claimed", "refused", "done", "broken"}]
    <3>1. PICK v \in {"claimed", "refused", "done", "broken", current[x]} :
             current' = [current EXCEPT ![x] = v]
      BY DEF ClaimCurrent, Report, CloseBatch, EndTypeOK
    <3> QED  BY <3>1 DEF EndTypeOK
  <2>3. closing' \in [Executions -> BOOLEAN]
    BY DEF ClaimCurrent, Report, CloseBatch, EndTypeOK
  <2> QED  BY <1>1, <2>1, <2>2, <2>3 DEF EndTypeOK
<1>3. \A y \in Executions : current[y] = "none" => current'[y] = "none"
  BY DEF ClaimCurrent, Report, CloseBatch, EndTypeOK
<1>4. SavedWasStarted'  BY <1>1, <1>3 DEF SavedWasStarted, Started
<1>5. EndsStay  BY <1>1 DEF EndsStay, StatusStays, EngineStays
<1> QED  BY <1>2, <1>4, <1>5

LEMMA EndPassKeeps ==
    ASSUME EndInv, NEW x \in Executions, PassOverReport(x)
    PROVE  EndInv' /\ EndsStay
<1> USE DEF EndInv
<1>1. /\ closing' = [closing EXCEPT ![x] = TRUE] /\ UNCHANGED call
      /\ current[x] \in {"done", "broken"}
  BY DEF PassOverReport
<1>2. Started(x)  BY <1>1 DEF SavedWasStarted
<1>3. CASE /\ current' = [current EXCEPT ![x] = "none"]
           /\ UNCHANGED <<endings, latest, engine, status, issuedSoFar>>
  <2>1. EndTypeOK'  BY <1>1, <1>3 DEF EndTypeOK
  <2>2. SavedWasStarted'  BY <1>1, <1>3 DEF SavedWasStarted, Started, EndTypeOK
  <2>3. EndsStay  BY <1>3 DEF EndsStay, StatusStays, EngineStays
  <2> QED  BY <2>1, <2>2, <2>3
<1>4. CASE /\ Passes(x) /\ issuedSoFar[x] < StepsEach
           /\ current' = [current EXCEPT ![x] = "issued"]
           /\ issuedSoFar' = [issuedSoFar EXCEPT ![x] = @ + 1]
           /\ latest' = [latest EXCEPT ![x] = "work"]
           /\ UNCHANGED <<endings, engine, status>>
  <2>1. issuedSoFar[x] + 1 \in 0..StepsEach  BY <1>4, EndAssumption DEF EndTypeOK
  <2>2. EndTypeOK'  BY <1>1, <1>4, <2>1 DEF EndTypeOK, EventKinds
  <2>3. SavedWasStarted'
    BY <1>1, <1>2, <1>4 DEF SavedWasStarted, Started, EndTypeOK
  <2>4. EndsStay
    BY <1>4 DEF EndsStay, StatusStays, EngineStays, Passes, EndTypeOK
  <2> QED  BY <2>2, <2>3, <2>4
<1>5. ASSUME NEW s \in {"completed", "failed"}, Passes(x), Emit(x, s), SaveState(x, s),
             current' = [current EXCEPT ![x] = "none"], UNCHANGED issuedSoFar
      PROVE  EndInv' /\ EndsStay
  <2>1. /\ endings' \in [Executions -> Seq(TerminalEvents)]
        /\ latest' \in [Executions -> EventKinds]
    BY <1>5, EmitTyped DEF TerminalEvents
  <2>2. /\ engine' \in [Executions -> {"absent", "running", "completed", "failed"}]
        /\ status' \in [Executions -> {"absent", "RUNNING", "COMPLETED", "FAILED"}]
        /\ engine'[x] = s
        /\ \A y \in Executions : StatusStays(y)
        /\ \A y \in Executions \ {x} : engine'[y] = engine[y] /\ status'[y] = status[y]
    BY <1>5, SaveStateSafe
  <2>3. EndTypeOK'  BY <1>1, <1>5, <2>1, <2>2 DEF EndTypeOK
  <2>4. SavedWasStarted'
    BY <1>1, <1>5, <2>2 DEF SavedWasStarted, Started, EndTypeOK
  <2>5. EndsStay
    BY <1>5, <2>2 DEF EndsStay, EngineStays, Passes
  <2> QED  BY <2>3, <2>4, <2>5
<1> QED  BY <1>3, <1>4, <1>5 DEF PassOverReport

LEMMA AskKeeps ==
    ASSUME EndInv, NEW c \in Callers, AskCancel(c) \/ AskCleanup(c) \/ AskFinalize(c)
    PROVE  EndInv' /\ EndsStay
<1> USE DEF EndInv
<1>1. PICK k \in {"cancel", "finalize"}, T \in SUBSET {y \in Executions : Started(y)} :
         Ask(c, k, T)
  <2>1. CASE AskCancel(c)
    BY <2>1 DEF AskCancel, Below
  <2>2. CASE AskCleanup(c)
    BY <2>2 DEF AskCleanup
  <2>3. CASE AskFinalize(c)
    BY <2>3 DEF AskFinalize
  <2> QED  BY <2>1, <2>2, <2>3
<1>2. /\ call' = [call EXCEPT ![c] = IF T = {} THEN AnsweredCall
                                     ELSE [kind |-> k, targets |-> T]]
      /\ UNCHANGED <<latest, endings, engine, status, issuedSoFar, current, closing>>
  BY <1>1 DEF Ask
<1>3. /\ call' \in [Callers -> OperatorCalls]
      /\ \A d \in Callers : \A x \in call'[d].targets : Started(x)
  <2>1. call \in [Callers -> OperatorCalls]  BY DEF EndTypeOK, OperatorCalls
  <2>2. T \in SUBSET Executions  OBVIOUS
  <2>3. call' \in [Callers -> OperatorCalls]  BY <1>2, <2>1, <2>2 DEF OperatorCalls, AnsweredCall
  <2>4. call'[c].targets = T  BY <1>2, <2>1 DEF AnsweredCall
  <2>5. \A d \in Callers \ {c} : call'[d] = call[d]  BY <1>2, <2>1
  <2> QED  BY <2>3, <2>4, <2>5 DEF SavedWasStarted
<1>4. EndTypeOK'  BY <1>2, <1>3 DEF EndTypeOK, OperatorCalls
<1>5. SavedWasStarted'  BY <1>2, <1>3 DEF SavedWasStarted, Started
<1>6. EndsStay  BY <1>2 DEF EndsStay, StatusStays, EngineStays
<1> QED  BY <1>4, <1>5, <1>6

LEMMA CallAnswered ==
    ASSUME EndInv, NEW c \in Callers, NEW k \in {"save", "answered"},
           call' = [call EXCEPT ![c].kind = k] \/ call' = [call EXCEPT ![c] = AnsweredCall]
    PROVE  /\ call' \in [Callers -> OperatorCalls]
           /\ \A d \in Callers : call'[d].targets \subseteq call[d].targets
<1>1. call \in [Callers -> OperatorCalls]  BY DEF EndInv, EndTypeOK, OperatorCalls
<1> QED  BY <1>1 DEF OperatorCalls, AnsweredCall

LEMMA WriteCancelledKeeps ==
    ASSUME EndInv, NEW c \in Callers, WriteCancelled(c)
    PROVE  EndInv' /\ EndsStay
<1> USE DEF EndInv
<1>1. /\ UNCHANGED <<engine, status, issuedSoFar, current, closing>>
      /\ call' = [call EXCEPT ![c] = AnsweredCall]
  BY DEF WriteCancelled
<1>2. /\ call' \in [Callers -> OperatorCalls]
      /\ \A d \in Callers : call'[d].targets \subseteq call[d].targets
  BY <1>1, CallAnswered
<1>3. endings' \in [Executions -> Seq(TerminalEvents)]
  <2>1. \A x \in Executions : Append(endings[x], "cancelled") \in Seq(TerminalEvents)
    BY AppendProperties DEF EndTypeOK, TerminalEvents
  <2> QED  BY <2>1 DEF WriteCancelled, EndTypeOK
<1>4. latest' \in [Executions -> EventKinds]
  BY DEF WriteCancelled, EndTypeOK, EventKinds, TerminalEvents
<1>5. EndTypeOK'  BY <1>1, <1>2, <1>3, <1>4 DEF EndTypeOK, OperatorCalls
<1>6. SavedWasStarted'  BY <1>1, <1>2 DEF SavedWasStarted, Started
<1>7. EndsStay  BY <1>1 DEF EndsStay, StatusStays, EngineStays
<1> QED  BY <1>5, <1>6, <1>7

LEMMA FinalizeKeeps ==
    ASSUME EndInv, NEW c \in Callers, WriteFinal(c) \/ SaveFinal(c)
    PROVE  EndInv' /\ EndsStay
<1> USE DEF EndInv
<1>1. CASE WriteFinal(c)
  <2>1. PICK x \in call[c].targets :
           /\ Emit(x, "failed")
           /\ call' = [call EXCEPT ![c].kind = "save"]
           /\ UNCHANGED <<engine, status, issuedSoFar, current, closing>>
    BY <1>1 DEF WriteFinal
  <2>2. x \in Executions  BY DEF EndTypeOK
  <2>3. /\ call' \in [Callers -> OperatorCalls]
        /\ \A d \in Callers : call'[d].targets \subseteq call[d].targets
    BY <2>1, CallAnswered
  <2>4. /\ endings' \in [Executions -> Seq(TerminalEvents)]
        /\ latest' \in [Executions -> EventKinds]
    BY <2>1, <2>2, EmitTyped DEF TerminalEvents
  <2>5. EndTypeOK'  BY <2>1, <2>3, <2>4 DEF EndTypeOK, OperatorCalls
  <2>6. SavedWasStarted'  BY <2>1, <2>3 DEF SavedWasStarted, Started
  <2>7. EndsStay  BY <2>1 DEF EndsStay, StatusStays, EngineStays
  <2> QED  BY <2>5, <2>6, <2>7
<1>2. CASE SaveFinal(c)
  <2>1. PICK x \in call[c].targets :
           /\ SaveState(x, "failed")
           /\ call' = [call EXCEPT ![c] = AnsweredCall]
           /\ UNCHANGED <<latest, endings, issuedSoFar, current, closing>>
    BY <1>2 DEF SaveFinal
  <2>2. x \in Executions /\ Started(x)  BY DEF EndTypeOK, SavedWasStarted
  <2>3. /\ call' \in [Callers -> OperatorCalls]
        /\ \A d \in Callers : call'[d].targets \subseteq call[d].targets
    BY <2>1, CallAnswered
  <2>4. /\ engine' \in [Executions -> {"absent", "running", "completed", "failed"}]
        /\ status' \in [Executions -> {"absent", "RUNNING", "COMPLETED", "FAILED"}]
        /\ engine'[x] = "failed"
        /\ \A y \in Executions : StatusStays(y)
        /\ \A y \in Executions \ {x} : engine'[y] = engine[y] /\ status'[y] = status[y]
    BY <2>1, <2>2, SaveStateSafe
  <2>5. EndTypeOK'  BY <2>1, <2>3, <2>4 DEF EndTypeOK, OperatorCalls
  <2>6. SavedWasStarted'
    <3>1. \A y \in Executions : Started(y) <=> Started(y)'
      BY <2>2, <2>4 DEF Started
    <3>2. \A y \in Executions : ~Started(y) => y # x  BY <2>2
    <3>3. \A y \in Executions : ~Started(y)' =>
             status'[y] = "absent" /\ issuedSoFar'[y] = 0 /\ current'[y] = "none"
      BY <2>1, <2>4, <3>1, <3>2 DEF SavedWasStarted
    <3>4. \A d \in Callers : \A y \in call'[d].targets : Started(y)'
      <4> SUFFICES ASSUME NEW d \in Callers, NEW y \in call'[d].targets PROVE Started(y)'
        OBVIOUS
      <4>1. y \in Executions /\ Started(y)
        BY <2>3 DEF EndTypeOK, SavedWasStarted
      <4> QED  BY <3>1, <4>1
    <3> QED  BY <3>3, <3>4 DEF SavedWasStarted
  <2>7. EndsStay  BY <2>1, <2>4 DEF EndsStay, EngineStays
  <2> QED  BY <2>5, <2>6, <2>7
<1> QED  BY <1>1, <1>2

LEMMA EndStutters == EndInv /\ UNCHANGED endVars => EndInv' /\ EndsStay
BY DEF endVars, EndInv, EndTypeOK, SavedWasStarted, Started, EndsStay, StatusStays,
       EngineStays

LEMMA EndStepKeeps ==
    ASSUME EndInv, [EndNext]_endVars
    PROVE  EndInv' /\ EndsStay
<1>1. CASE \E x \in Executions : \/ Start(x) \/ ClaimCurrent(x) \/ Report(x)
                                 \/ PassOverReport(x) \/ CloseBatch(x)
  BY <1>1, StartKeeps, CommandMoves, EndPassKeeps
<1>2. CASE \E c \in Callers : AskCancel(c) \/ AskCleanup(c) \/ AskFinalize(c)
  BY <1>2, AskKeeps
<1>3. CASE \E c \in Callers : WriteCancelled(c) \/ WriteFinal(c) \/ SaveFinal(c)
  BY <1>3, WriteCancelledKeeps, FinalizeKeeps
<1>4. CASE UNCHANGED endVars  BY <1>4, EndStutters
<1> QED  BY <1>1, <1>2, <1>3, <1>4 DEF EndNext

LEMMA EndInvariant == EndSpec => []EndInv
<1>1. EndInit => EndInv  BY EndInitInv
<1>2. EndInv /\ [EndNext]_endVars => EndInv'  BY EndStepKeeps
<1> QED  BY <1>1, <1>2, PTL DEF EndSpec

\* Events, states, rows and requests keep to their types.
THEOREM EndTypes == EndSpec => []EndTypeOK
<1>1. EndInv => EndTypeOK  BY DEF EndInv
<1> QED  BY <1>1, EndInvariant, PTL

\* For any tree of executions and any number of operators, the status of a row
\* that is terminal stays what it is (save_state).
THEOREM TerminalStatusStays == EndSpec => ProjectedStatusStays
<1>1. EndInv /\ [EndNext]_endVars =>
         [\A x \in Executions : status[x] \in {"COMPLETED", "FAILED"} =>
             status'[x] = status[x]]_endVars
  BY EndStepKeeps DEF EndsStay, StatusStays
<1> QED  BY <1>1, EndInvariant, PTL DEF EndSpec, ProjectedStatusStays

\* The engine issues nothing for an execution whose state is terminal, and no
\* finalize brings that state back (finalize_abandoned_execution).
THEOREM EndedEngineIssuesNothing == EndSpec => EngineEndIsFinal
<1>1. EndInv /\ [EndNext]_endVars =>
         [\A x \in Executions : engine[x] \in {"completed", "failed"} =>
           /\ issuedSoFar'[x] = issuedSoFar[x]
           /\ engine'[x] \in {"completed", "failed"}]_endVars
  BY EndStepKeeps DEF EndsStay, EngineStays
<1> QED  BY <1>1, EndInvariant, PTL DEF EndSpec, EngineEndIsFinal

-----------------------------------------------------------------------------
(* The parts side by side.                                                 *)

LEMMA EngineInits == Init => WorkflowInit /\ BatchInit /\ PendingInit /\ EndInit
BY DEF Init

\* Every step of the parts together is, for each of them, a step or a stutter.
LEMMA EngineSteps ==
    [Next]_engineVars => /\ [WorkflowNext]_workflowVars
                         /\ [BatchNext]_batchVars
                         /\ [PendingNext]_pendingVars
                         /\ [EndNext]_endVars
<1> SUFFICES ASSUME [Next]_engineVars
             PROVE  /\ [WorkflowNext]_workflowVars /\ [BatchNext]_batchVars
                    /\ [PendingNext]_pendingVars /\ [EndNext]_endVars
  OBVIOUS
<1>1. CASE UNCHANGED engineVars BY <1>1 DEF engineVars
<1>2. CASE Next BY <1>2 DEF Next
<1> QED BY <1>1, <1>2

\* A behaviour of the parts side by side is a behaviour of the transitions, of
\* the batch acceptor, of the supervisor's count and of the ends of executions:
\* the theorems about each part hold of them together.
THEOREM EachEnginePart == Spec => WorkflowSpec /\ BatchSpec /\ PendingSpec /\ EndSpec
<1>1. Spec => WorkflowSpec BY EngineInits, EngineSteps, PTL DEF Spec, WorkflowSpec
<1>2. Spec => BatchSpec BY EngineInits, EngineSteps, PTL DEF Spec, BatchSpec
<1>3. Spec => PendingSpec BY EngineInits, EngineSteps, PTL DEF Spec, PendingSpec
<1>4. Spec => EndSpec BY EngineInits, EngineSteps, PTL DEF Spec, EndSpec
<1> QED BY <1>1, <1>2, <1>3, <1>4

\* The variables of the parts keep their types, whatever the instance.
THEOREM EngineTypesHold == Spec => []EngineTypeOK
<1>1. WorkflowTypeOK /\ BatchTypeOK /\ PendingTypeOK /\ EndTypeOK => EngineTypeOK
  BY DEF EngineTypeOK
<1> QED BY <1>1, EachEnginePart, WorkflowTypes, BatchTypesHold, PendingTypesHold, EndTypes, PTL
=============================================================================

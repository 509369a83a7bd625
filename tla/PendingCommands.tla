---- MODULE PendingCommands ----
(***************************************************************************)
(* The count of pending commands that the supervisor keeps in NATS K/V for *)
(* one execution (core/cache/nats_kv.py, server/api/supervision.py).  It   *)
(* lives in two keys that are written one after the other: the entry of    *)
(* the command and the entry of the execution.  A key is written blindly   *)
(* when it was absent on read, otherwise under its revision; a revision    *)
(* that moved restarts the call.                                           *)
(*                                                                         *)
(* A call is a pair of a command and a kind, "register" or "mark": the     *)
(* server registers a command when it has inserted it, and marks it for    *)
(* each persisted call.done, command.completed and so on.                  *)
(***************************************************************************)
EXTENDS Naturals, FiniteSets

CONSTANTS SupCommands,  \* commands of the execution
          MarksOf,      \* terminal events of each command: names of calls
          MaxAttempts   \* attempts of a call (10 in the code)

ASSUME PendingAssumption ==
    /\ \A c \in SupCommands : "register" \notin MarksOf[c]
    /\ MaxAttempts \in Nat \ {0}

VARIABLES
    entry,    \* K/V command:<id>: "absent", "issued" or "terminal", and revision
    exec,     \* K/V execution: pending_command_count and revision; 0 = absent
    sup,      \* each call: where it is, what it has read, attempts made
    clash     \* history: a write hit a moved revision, overwrote an entry that
              \* appeared meanwhile, or a mark found no entry

pendingVars == <<entry, exec, sup, clash>>

Calls   == UNION {{c} \X ({"register"} \cup MarksOf[c]) : c \in SupCommands}
NewCall == [pc |-> "new", cmd |-> [status |-> "absent", rev |-> 0],
            ex |-> [count |-> 0, rev |-> 0], tries |-> 0]

PendingInit ==
    /\ entry = [c \in SupCommands |-> [status |-> "absent", rev |-> 0]]
    /\ exec = [count |-> 0, rev |-> 0]
    /\ sup = [k \in Calls |-> NewCall]
    /\ clash = FALSE

Registers(k) == k[2] = "register"
Active(k)    == sup[k].pc \in {"readExec", "putCommand", "putExec"}
Returned(k)  == sup[k].pc \in {"true", "false"}

\* Mutant: a terminal event is counted however often it comes.
NothingToDoForRegister(k, status) == Registers(k) /\ status = "issued"

\* A call ends without a write when the entry of the command says that it was
\* made before: any live entry for register, a terminal one for mark.
NothingToDo(k, status) ==
    IF Registers(k) THEN status = "issued" ELSE status = "terminal"

Return(result) == [NewCall EXCEPT !.pc = result]

\* The entry of the command is read.  A terminal event needs a command that was
\* inserted, but the supervisor may hear of it first.
SupReadCommand(k) ==
    /\ sup[k].pc = "new"
    /\ LET e == entry[k[1]]
       IN sup' = [sup EXCEPT ![k] =
                    IF NothingToDo(k, e.status) THEN Return("true")
                    ELSE [sup[k] EXCEPT !.cmd = e, !.tries = sup[k].tries + 1, !.pc = "readExec"]]
    /\ UNCHANGED <<entry, exec, clash>>

SupReadExec(k) ==
    /\ sup[k].pc = "readExec"
    /\ sup' = [sup EXCEPT ![k].ex = exec, ![k].pc = "putCommand"]
    /\ UNCHANGED <<entry, exec, clash>>

\* put when the key was absent on read, update under the revision otherwise.
Accepted(read, now) == read.rev = 0 \/ read.rev = now.rev
Written(k) == IF Registers(k) THEN "issued" ELSE "terminal"

SupPutCommand(k) ==
    /\ sup[k].pc = "putCommand"
    /\ Accepted(sup[k].cmd, entry[k[1]])
    /\ entry' = [entry EXCEPT ![k[1]] = [status |-> Written(k), rev |-> @.rev + 1]]
    /\ sup' = [sup EXCEPT ![k].pc = "putExec"]
    /\ clash' = (clash \/ sup[k].cmd.rev # entry[k[1]].rev
                       \/ (~Registers(k) /\ sup[k].cmd.rev = 0))
    /\ UNCHANGED exec

\* Registering adds one for a command without an entry, marking takes one off,
\* never below zero.
Counted(k) ==
    LET n == sup[k].ex.count
    IN IF Registers(k) THEN (IF sup[k].cmd.status = "absent" THEN n + 1 ELSE n)
       ELSE IF n > 0 THEN n - 1 ELSE 0

SupPutExec(k) ==
    /\ sup[k].pc = "putExec"
    /\ Accepted(sup[k].ex, exec)
    /\ exec' = [count |-> Counted(k), rev |-> exec.rev + 1]
    /\ sup' = [sup EXCEPT ![k] = Return("true")]
    /\ clash' = (clash \/ sup[k].ex.rev # exec.rev)
    /\ UNCHANGED entry

\* "wrong last sequence": the whole call starts again, ten times at most.
SupRetry(k) ==
    /\ \/ sup[k].pc = "putCommand" /\ ~Accepted(sup[k].cmd, entry[k[1]])
       \/ sup[k].pc = "putExec" /\ ~Accepted(sup[k].ex, exec)
    /\ sup' = [sup EXCEPT ![k] = IF @.tries < MaxAttempts
                                  THEN [NewCall EXCEPT !.tries = sup[k].tries]
                                  ELSE Return("false")]
    /\ clash' = TRUE
    /\ UNCHANGED <<entry, exec>>

PendingNext ==
    \E k \in Calls : \/ SupReadCommand(k) \/ SupReadExec(k)
                     \/ SupPutCommand(k) \/ SupPutExec(k) \/ SupRetry(k)

PendingSpec == PendingInit /\ [][PendingNext]_pendingVars

----
(* Properties. *)

PendingTypeOK ==
    /\ entry \in [SupCommands -> [status : {"absent", "issued", "terminal"}, rev : Nat]]
    /\ exec \in [count : Nat, rev : Nat]
    /\ \A k \in Calls :
          /\ sup[k].pc \in {"new", "readExec", "putCommand", "putExec", "true", "false"}
          /\ sup[k].tries \in 0..MaxAttempts
    /\ clash \in BOOLEAN

Registered == {c \in SupCommands : Returned(<<c, "register">>)}
Marked     == {c \in SupCommands : \E n \in MarksOf[c] : Returned(<<c, n>>)}

\* Only a clash can make the count wrong: calls that overlap without one, even
\* repeated terminal events of a command, leave the number of commands that are
\* registered and not marked (the two "pending once" docstrings).
ExactWithoutClash ==
    ~clash /\ (\A k \in Calls : ~Active(k)) => exec.count = Cardinality(Registered \ Marked)
====

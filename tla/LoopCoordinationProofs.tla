----------------------- MODULE LoopCoordinationProofs -----------------------
(***************************************************************************)
(* What holds of a loop for every size, every limit, every threshold and   *)
(* every set of failures: the counters in K/V stay within the limit and    *)
(* never go back, results are backed by finished commands, and a finalized *)
(* step was routed.  And what holds when K/V works and the tail repair is  *)
(* off: no index twice, no more commands than the limit allows, and a loop *)
(* with a limit of one or two implements LoopPromise.                      *)
(***************************************************************************)
EXTENDS LoopCoordination, FiniteSetTheorems, TLAPS

-----------------------------------------------------------------------------
\* The counters as data: what an update of the record preserves.

Good(k) == /\ k \in Counters
           /\ k.completed <= k.scheduled
           /\ InFlight(k) <= MaxInFlight
           /\ k.scheduled <= Larger(Size, k.completed)

Later(k, l) == /\ l.completed >= k.completed /\ l.scheduled >= k.scheduled
               /\ k.doneClaimed => l.doneClaimed

\* The next indexes fit below the limit and below the size of the collection.
LEMMA SlotsFit ==
    ASSUME NEW k \in Counters
    PROVE  /\ Slots(k) \in Nat
           /\ Slots(k) > 0 => /\ Slots(k) + InFlight(k) <= MaxInFlight
                              /\ Slots(k) + k.scheduled <= Size
BY LoopAssumption DEF Counters, Slots, InFlight, Larger, Smaller

\* A record that does not exist yet is a good one.
LEMMA FreshGood == Good(Fresh)
BY LoopAssumption DEF Good, Fresh, Counters, InFlight, Larger

\* A claim of at most the free slots keeps the record good.
LEMMA ClaimGood ==
    ASSUME NEW k, Good(k), NEW n \in Nat, n <= Slots(k)
    PROVE  Good(Claim(k, n)) /\ Later(k, Claim(k, n))
<1>1. k \in Counters  BY DEF Good
<1>2. /\ Slots(k) \in Nat
      /\ Slots(k) > 0 => /\ Slots(k) + InFlight(k) <= MaxInFlight
                         /\ Slots(k) + k.scheduled <= Size
  BY <1>1, SlotsFit
<1>3. Claim(k, n) = [k EXCEPT !.scheduled = k.scheduled + n]  BY DEF Claim
<1> QED
  BY <1>1, <1>2, <1>3, LoopAssumption DEF Good, Later, Counters, InFlight, Larger

\* What keeps a record good is a matter of its two counts.
LEMMA GoodByCounts ==
    ASSUME NEW k, Good(k), NEW l \in Counters,
           l.doneClaimed = k.doneClaimed \/ l.doneClaimed,
           l.completed >= k.completed, l.scheduled >= k.scheduled,
           l.completed <= l.scheduled,
           \/ l.scheduled = l.completed
           \/ l.scheduled = k.scheduled,
           l.scheduled <= Larger(Size, l.completed)
    PROVE  Good(l) /\ Later(k, l)
BY LoopAssumption DEF Good, Later, Counters, InFlight, Larger

\* A completion keeps the record good, even one beyond the collection.
LEMMA IncrementGood ==
    ASSUME NEW k, Good(k)
    PROVE  Good(Increment(k)) /\ Later(k, Increment(k))
<1> DEFINE l == Increment(k)
<1>1. k \in Counters  BY DEF Good
<1>2. /\ l \in Counters
      /\ l.completed = k.completed + 1
      /\ l.scheduled = Larger(k.scheduled, k.completed + 1)
      /\ l.doneClaimed = k.doneClaimed
  <2> DEFINE m == Larger(k.scheduled, k.completed + 1)
             n == k.completed + 1
  <2>1. m \in Nat /\ n \in Nat  BY <1>1 DEF Counters, Larger
  <2>2. l = [k EXCEPT !.completed = n, !.scheduled = m]  BY DEF Increment
  <2> HIDE DEF m, n, l
  <2>3. /\ l \in Counters /\ l.completed = n /\ l.scheduled = m
        /\ l.doneClaimed = k.doneClaimed
    BY <1>1, <2>1, <2>2 DEF Counters
  <2> QED  BY <2>3 DEF m, n
<1> HIDE DEF l
<1>3. /\ l.completed >= k.completed /\ l.scheduled >= k.scheduled
      /\ l.completed <= l.scheduled
      /\ l.scheduled = l.completed \/ l.scheduled = k.scheduled
      /\ l.scheduled <= Larger(Size, l.completed)
  <2>1. k.completed \in Nat /\ k.scheduled \in Nat  BY <1>1 DEF Counters
  <2>2. k.scheduled <= Larger(Size, k.completed)  BY DEF Good
  <2> QED  BY <2>1, <2>2, <1>2, LoopAssumption DEF Larger
<1>4. Good(l) /\ Later(k, l)
  BY <1>2, <1>3, GoodByCounts
<1> QED  BY <1>4 DEF l

\* So does the claim of loop.done.
LEMMA ClaimDoneGood ==
    ASSUME NEW k, Good(k)
    PROVE  Good(ClaimDone(k)) /\ Later(k, ClaimDone(k))
<1> DEFINE l == ClaimDone(k)
<1>1. k \in Counters  BY DEF Good
<1>2. l \in Counters /\ l.completed = k.completed /\ l.scheduled = k.scheduled
      /\ l.doneClaimed
  BY <1>1 DEF ClaimDone, Counters
<1> HIDE DEF l
<1>3. Good(l) /\ Later(k, l)
  BY <1>1, <1>2 DEF Good, Later, Counters, InFlight
<1> QED  BY <1>3 DEF l

\* A reconciliation raises the completed count of an incomplete loop only.
LEMMA AdvanceGood ==
    ASSUME NEW k, Good(k), NEW n \in Nat, pass.results \in Nat
    PROVE  Good(Advance(k, n)) /\ Later(k, Advance(k, n))
<1> DEFINE m == Smaller(n, Size)
<1>0. k \in Counters  BY DEF Good
<1>1. m \in Nat /\ m <= Size  BY LoopAssumption DEF Smaller
<1>2. CASE ~ (m > Known(k))
  <2>1. Advance(k, n) = k  BY <1>2 DEF Advance
  <2> QED  BY <2>1 DEF Later, Good, Counters
<1>3. CASE m > Known(k)
  <2> DEFINE l == Advance(k, n)
  <2>1. k.completed < m /\ k.completed \in Nat /\ k.scheduled \in Nat
    BY <1>0, <1>1, <1>3, LoopAssumption DEF Known, Counters
  <2>2. k.scheduled <= Size
    BY <1>1, <2>1, LoopAssumption DEF Good, Larger
  <2>3. l = [SetLoopState(k, m, k.scheduled) EXCEPT !.reconciled = TRUE]
    BY <1>3 DEF Advance
  <2> HIDE DEF m
  <2>4. /\ Smaller(Size, Larger(k.completed, m)) = m
        /\ Smaller(Size, Larger(k.scheduled, Larger(k.scheduled, m))) = Larger(k.scheduled, m)
        /\ Larger(Larger(k.scheduled, m), m) = Larger(k.scheduled, m)
    BY <1>1, <2>1, <2>2, LoopAssumption DEF Larger, Smaller
  <2>5. SetLoopState(k, m, k.scheduled)
          = [k EXCEPT !.completed = m, !.scheduled = Larger(k.scheduled, m)]
    BY <2>4 DEF SetLoopState
  <2>6. /\ l \in Counters /\ l.completed = m /\ l.scheduled = Larger(k.scheduled, m)
        /\ l.doneClaimed = k.doneClaimed
    BY <1>0, <1>1, <2>1, <2>3, <2>5 DEF Counters, Larger
  <2> HIDE DEF l
  <2>7. /\ l.completed >= k.completed /\ l.scheduled >= k.scheduled
        /\ l.completed <= l.scheduled
        /\ l.scheduled = l.completed \/ l.scheduled = k.scheduled
        /\ l.scheduled <= Larger(Size, l.completed)
    BY <1>1, <2>1, <2>2, <2>6, LoopAssumption DEF Larger
  <2>8. Good(l) /\ Later(k, l)
    BY <2>6, <2>7, GoodByCounts
  <2> QED  BY <2>8 DEF l
<1> QED  BY <1>2, <1>3

-----------------------------------------------------------------------------
\* The inductive invariant.

\* A pass that still looks for commands has attempts left.
Budgeted == pass.pc = "refill" => pass.budget > 0

\* Before the loop is entered there is nothing but an empty record.
NotBegun == ~state.entered => /\ kv = Fresh /\ pass.pc = "idle"
                              /\ unissued = Zero /\ live = Zero /\ calls = Zero

\* Whoever reports an iteration, or records it, does so for a finished command.
Reported == /\ \A i \in Idx : calls[i] > 0 => finished[i] > 0
            /\ pass.pc # "idle" => finished[pass.idx] > 0
            /\ Terminals \subseteq Executed

\* Results never outnumber the recorded iterations, in the committed state and
\* in the pass under way.
Counted == /\ pass.results <= Cardinality(Terminals)
           /\ state.results <= Cardinality(Terminals)

\* Whoever finalizes the step without routing has seen a loop.done in the log,
\* and what is in the log was routed.
Justified == /\ logged <= routed
             /\ pass.finalize /\ ~pass.route => logged > 0
             /\ state.finalized => routed > 0

IInv == /\ TypeOK
        /\ CountersBounded
        /\ Budgeted
        /\ NotBegun
        /\ Reported
        /\ Counted
        /\ Justified

-----------------------------------------------------------------------------
\* Types of the helpers.

LEMMA IdxFacts == 0 \in Idx /\ IsFiniteSet(Idx)
BY LoopAssumption, FS_Interval DEF Idx

LEMMA ZeroType == Zero \in [Idx -> Nat]
BY DEF Zero

LEMMA PlusOneType ==
    ASSUME NEW f \in [Idx -> Nat], NEW I
    PROVE  PlusOne(f, I) \in [Idx -> Nat]
BY DEF PlusOne

LEMMA NoPassType == NoPass \in Pass
BY IdxFacts, ZeroType, LoopAssumption DEF NoPass, Pass

\* The recorded iterations are a finite set.
LEMMA TerminalsFinite == IsFiniteSet(Terminals) /\ Cardinality(Terminals) \in Nat
<1>1. Terminals \subseteq Idx  BY DEF Terminals
<1> QED  BY <1>1, IdxFacts, FS_Subset, FS_CardinalityType

\* So are the terminal rows.
LEMMA TerminalRowsType ==
    ASSUME finished \in [Idx -> Nat]
    PROVE  TerminalRows \in Nat
<1> DEFINE F == {{i} \X (1 .. finished[i]) : i \in Idx}
<1>1. IsFiniteSet(F)
  <2> DEFINE g == [i \in Idx |-> {i} \X (1 .. finished[i])]
  <2>1. g \in Surjection(Idx, F)  BY DEF Surjection
  <2> QED  BY <2>1, IdxFacts, FS_Surjection
<1>2. \A R \in F : IsFiniteSet(R)
  <2>1. ASSUME NEW i \in Idx  PROVE IsFiniteSet({i} \X (1 .. finished[i]))
    <3>1. IsFiniteSet({i})  BY FS_Singleton
    <3>2. IsFiniteSet(1 .. finished[i])  BY FS_Interval
    <3> QED  BY <3>1, <3>2, FS_Product
  <2> QED  BY <2>1
<1>3. IsFiniteSet(UNION F)
  BY <1>1, <1>2, FS_UNION
<1> QED  BY <1>3, FS_CardinalityType DEF TerminalRows

LEMMA LaterRefl ==
    ASSUME NEW k \in Counters
    PROVE  Later(k, k)
BY DEF Later, Counters

LEMMA LaterTrans ==
    ASSUME NEW k \in Counters, NEW l \in Counters, NEW m \in Counters,
           Later(k, l), Later(l, m)
    PROVE  Later(k, m)
BY DEF Later, Counters

\* One claim out of free slots.
LEMMA ClaimOneGood ==
    ASSUME NEW k, Good(k), Slots(k) > 0
    PROVE  Good(Claim(k, 1)) /\ Later(k, Claim(k, 1))
<1>1. Slots(k) \in Nat  BY SlotsFit DEF Good
<1>2. 1 <= Slots(k)  BY <1>1
<1> QED  BY <1>2, ClaimGood

\* All free slots.
LEMMA ClaimAllGood ==
    ASSUME NEW k, Good(k)
    PROVE  Good(Claim(k, Slots(k))) /\ Later(k, Claim(k, Slots(k)))
<1>1. Slots(k) \in Nat /\ Slots(k) <= Slots(k)  BY SlotsFit DEF Good
<1> QED  BY <1>1, ClaimGood

\* Whatever the reconciliation reads, it leaves a good record.
LEMMA ReconciledGood ==
    ASSUME TypeOK, Good(kv), NEW fromRows \in BOOLEAN
    PROVE  Good(Reconciled(fromRows)) /\ Later(kv, Reconciled(fromRows))
<1> DEFINE a == Advance(kv, Cardinality(Terminals))
           b == Advance(a, TerminalRows)
<1>1. pass.results \in Nat  BY DEF TypeOK, Pass
<1>2. Cardinality(Terminals) \in Nat /\ TerminalRows \in Nat
  BY TerminalsFinite, TerminalRowsType DEF TypeOK
<1>3. Good(a) /\ Later(kv, a)
  BY <1>1, <1>2, AdvanceGood
<1> HIDE DEF a
<1>4. Good(b) /\ Later(a, b)
  BY <1>1, <1>2, <1>3, AdvanceGood
<1> HIDE DEF b
<1>5. Later(kv, b)
  BY <1>3, <1>4, LaterTrans DEF Good
<1>6. Reconciled(fromRows) \in {a, b}
  BY DEF Reconciled, a, b
<1> QED  BY <1>3, <1>4, <1>5, <1>6

-----------------------------------------------------------------------------
\* The counters in every step.

\* No step spoils the record or takes a count back.
LEMMA CountersStep ==
    ASSUME TypeOK, Good(kv), NotBegun, Next
    PROVE  Good(kv') /\ Later(kv, kv')
<1>1. kv \in Counters /\ Later(kv, kv)  BY LaterRefl DEF Good
<1>2. CASE UNCHANGED kv
  BY <1>1, <1>2
<1>3. CASE Enter
  <2>1. kv' = Claim(kv, Slots(kv))  BY <1>3 DEF Enter, NotBegun
  <2> QED  BY <2>1, ClaimAllGood
<1>4. CASE Count
  <2>1. kv' \in {kv, Increment(kv)}  BY <1>4 DEF Count
  <2> QED  BY <1>1, <2>1, IncrementGood
<1>5. CASE Route
  <2>1. kv' \in {kv, ClaimDone(kv)}  BY <1>5 DEF Route
  <2> QED  BY <1>1, <2>1, ClaimDoneGood
<1>6. CASE Continue
  <2>1. kv' \in {kv, Claim(kv, Slots(kv))}  BY <1>6 DEF Continue
  <2> QED  BY <1>1, <2>1, ClaimAllGood
<1>7. CASE Refill
  <2>1. Slots(kv) > 0 /\ kv' = Claim(kv, 1)  BY <1>7 DEF Refill, ClaimOne
  <2> QED  BY <2>1, ClaimOneGood
<1>8. CASE Reconcile
  <2>1. CASE ~Parked(kv) /\ NoneLeft(kv)
    BY <1>1, <2>1 DEF NoneLeft
  <2>2. ASSUME NEW fromRows \in MayReadRows,
               LET k == Reconciled(fromRows)
               IN  \/ Slots(k) > 0 /\ ClaimOne(k)
                   \/ Slots(k) = 0 /\ (Replay(k) \/ NoneLeft(k))
        PROVE  Good(kv') /\ Later(kv, kv')
    <3> DEFINE k == Reconciled(fromRows)
    <3>1. fromRows \in BOOLEAN  BY DEF MayReadRows
    <3>2. Good(k) /\ Later(kv, k)  BY <3>1, ReconciledGood
    <3> HIDE DEF k
    <3>3. \/ Slots(k) > 0 /\ kv' = Claim(k, 1)
          \/ kv' = k
      BY <2>2 DEF k, ClaimOne, Replay, NoneLeft
    <3>4. CASE kv' = k  BY <3>2, <3>4
    <3>5. CASE Slots(k) > 0 /\ kv' = Claim(k, 1)
      <4>1. Good(Claim(k, 1)) /\ Later(k, Claim(k, 1))
        BY <3>2, <3>5, ClaimOneGood
      <4>2. Later(kv, Claim(k, 1))
        BY <1>1, <3>2, <4>1, LaterTrans DEF Good
      <4> QED  BY <3>5, <4>1, <4>2
    <3> QED  BY <3>3, <3>4, <3>5
  <2> QED  BY <1>8, <2>1, <2>2 DEF Reconcile
<1>9. CASE LoseIssue  BY <1>2, <1>9 DEF LoseIssue
<1>10. CASE Crash  BY <1>2, <1>10 DEF Crash
<1>11. CASE Record  BY <1>2, <1>11 DEF Record
<1>12. CASE Repair  BY <1>2, <1>12 DEF Repair
<1>13. CASE Commit  BY <1>2, <1>13 DEF Commit
<1>14. ASSUME NEW i \in Idx, Issue(i) \/ Finish(i) \/ Begin(i)
       PROVE  Good(kv') /\ Later(kv, kv')
  BY <1>2, <1>14 DEF Issue, Finish, Begin
<1> QED
  BY <1>3, <1>4, <1>5, <1>6, <1>7, <1>8, <1>9, <1>10, <1>11, <1>12, <1>13, <1>14
  DEF Next, PassStep

-----------------------------------------------------------------------------
\* Types in every step.

\* The fields of a pass.
LEMMA PassFields ==
    ASSUME TypeOK
    PROVE  /\ pass.idx \in Idx /\ pass.count \in Nat \cup {-1}
           /\ pass.out \in [Idx -> Nat] /\ pass.budget \in 0 .. MaxInFlight
           /\ pass.results \in Nat /\ pass.repaired \in SUBSET Idx
           /\ pass.finalize \in BOOLEAN /\ pass.route \in BOOLEAN
BY DEF TypeOK, Pass

\* The fields of the committed state.
LEMMA StateFields ==
    ASSUME TypeOK
    PROVE  /\ state.entered \in BOOLEAN /\ state.finalized \in BOOLEAN
           /\ state.results \in Nat /\ state.repaired \in SUBSET Idx
BY DEF TypeOK

\* A pass with one more command is a pass, and has attempts left or is over.
LEMMA WithType ==
    ASSUME TypeOK, pass.budget > 0, NEW i
    PROVE  /\ With(i) \in Pass
           /\ With(i).pc = "refill" => With(i).budget > 0
<1>1. PlusOne(pass.out, {i}) \in [Idx -> Nat]  BY PassFields, PlusOneType
<1>2. pass \in Pass /\ pass.budget \in 0 .. MaxInFlight  BY PassFields DEF TypeOK
<1>3. pass.budget - 1 \in 0 .. MaxInFlight  BY <1>2, LoopAssumption
<1> DEFINE o == PlusOne(pass.out, {i})
           b == pass.budget - 1
           c == IF pass.budget = 1 THEN "commit" ELSE "refill"
           p == With(i)
<1>4. p = [pass EXCEPT !.pc = c, !.budget = b, !.out = o]  BY DEF With
<1>5. c \in {"commit", "refill"} /\ (c = "refill" => b > 0)
  BY <1>2, LoopAssumption
<1>6. o \in [Idx -> Nat] /\ b \in 0 .. MaxInFlight  BY <1>1, <1>3
<1> HIDE DEF o, b, c, p
<1>7. p \in Pass /\ p.pc = c /\ p.budget = b
  BY <1>2, <1>4, <1>5, <1>6 DEF Pass
<1>8. p \in Pass /\ (p.pc = "refill" => p.budget > 0)
  BY <1>5, <1>7
<1> QED  BY <1>8 DEF p

\* The tail repair picks indexes of the collection.
LEMMA TailMissingType ==
    ASSUME TypeOK
    PROVE  TailMissing \subseteq Idx
<1> DEFINE sent == Larger(kv.scheduled, pass.count)
<1>1. kv.scheduled \in Nat /\ pass.count \in Nat \cup {-1}
  BY PassFields DEF TypeOK, Counters
<1>2. sent \in Nat  BY <1>1 DEF Larger
<1> HIDE DEF sent
<1>3. (sent .. Size - 1) \ pass.repaired \subseteq Idx
  BY <1>2, LoopAssumption DEF Idx
<1> QED  BY <1>3 DEF TailMissing, sent

-----------------------------------------------------------------------------
LEMMA EnterType ==
    ASSUME TypeOK, Budgeted, Good(kv'), Enter
    PROVE  TypeOK' /\ Budgeted'
<1>1. kv' \in Counters  BY DEF Good
<1>2. unissued' \in [Idx -> Nat]  BY ZeroType, PlusOneType DEF Enter
<1>3. state' = [state EXCEPT !.entered = TRUE]  BY DEF Enter
<1>4. state' \in [entered : BOOLEAN, finalized : BOOLEAN,
                  results : Nat, repaired : SUBSET Idx]
  BY <1>3 DEF TypeOK
<1> QED  BY <1>1, <1>2, <1>4 DEF TypeOK, Budgeted, Enter

LEMMA IssueType ==
    ASSUME TypeOK, Budgeted, NEW i \in Idx, Issue(i)
    PROVE  TypeOK' /\ Budgeted'
<1>1. unissued' = [unissued EXCEPT ![i] = @ - 1] /\ unissued[i] > 0
      /\ live' = [live EXCEPT ![i] = @ + 1]
  BY DEF Issue
<1>2. unissued' \in [Idx -> Nat] /\ live' \in [Idx -> Nat]
  BY <1>1 DEF TypeOK
<1>3. item' \in [Idx -> {"none", "issued", "terminal"}]
  BY DEF Issue, TypeOK
<1> QED  BY <1>2, <1>3 DEF TypeOK, Budgeted, Issue

LEMMA LoseIssueType ==
    ASSUME TypeOK, Budgeted, LoseIssue
    PROVE  TypeOK' /\ Budgeted'
<1>1. PICK I \in SUBSET {i \in Idx : unissued[i] > 0} :
          unissued' = [i \in Idx |-> IF i \in I THEN 0 ELSE unissued[i]]
  BY DEF LoseIssue
<1>2. unissued' \in [Idx -> Nat]  BY <1>1 DEF TypeOK
<1>3. faults' \in 0 .. MaxFaults
  BY CoordinationAssumption DEF LoseIssue, Fault, TypeOK
<1> QED  BY <1>2, <1>3 DEF TypeOK, Budgeted, LoseIssue

LEMMA FinishType ==
    ASSUME TypeOK, Budgeted, NEW i \in Idx, Finish(i)
    PROVE  TypeOK' /\ Budgeted'
<1>1. live' = [live EXCEPT ![i] = @ - 1] /\ live[i] > 0
      /\ finished' = [finished EXCEPT ![i] = @ + 1]
      /\ calls' = [calls EXCEPT ![i] = @ + 1]
  BY DEF Finish
<1>2. {live', finished', calls'} \subseteq [Idx -> Nat]
  BY <1>1 DEF TypeOK
<1> QED  BY <1>2 DEF TypeOK, Budgeted, Finish

LEMMA BeginType ==
    ASSUME TypeOK, Budgeted, NEW i \in Idx, Begin(i)
    PROVE  TypeOK' /\ Budgeted'
<1>1. calls' \in [Idx -> Nat]
  <2>1. calls' = [calls EXCEPT ![i] = @ - 1] /\ calls[i] > 0  BY DEF Begin
  <2> QED  BY <2>1 DEF TypeOK
<1>2. pass' \in Pass /\ pass'.pc # "refill"
  <2> DEFINE p == [NoPass EXCEPT !.pc = "record", !.idx = i,
                                 !.results = state.results,
                                 !.repaired = state.repaired]
  <2>1. NoPass \in Pass /\ NoPass.pc = "idle"  BY NoPassType DEF NoPass
  <2>2. p \in Pass /\ p.pc = "record"  BY <2>1, StateFields DEF Pass
  <2>3. pass' \in {NoPass, p}  BY DEF Begin
  <2> HIDE DEF p
  <2> QED  BY <2>1, <2>2, <2>3
<1> QED  BY <1>1, <1>2 DEF TypeOK, Budgeted, Begin

LEMMA RecordType ==
    ASSUME TypeOK, Budgeted, Record
    PROVE  TypeOK' /\ Budgeted'
<1>1. item' \in [Idx -> {"none", "issued", "terminal"}]
  BY PassFields DEF Record, TypeOK
<1>2. faults' \in 0 .. MaxFaults
  BY CoordinationAssumption DEF Record, Fault, TypeOK
<1> DEFINE won     == [pass EXCEPT !.pc = "count", !.claim = "won", !.results = @ + 1]
           lost    == [pass EXCEPT !.pc = "count", !.claim = "lost"]
           unknown == [pass EXCEPT !.pc = "count", !.claim = "unknown"]
<1>3. pass' \in {won, lost, unknown}  BY DEF Record
<1>4. /\ won \in Pass /\ won.pc = "count"
      /\ lost \in Pass /\ lost.pc = "count"
      /\ unknown \in Pass /\ unknown.pc = "count"
  <2> DEFINE r == pass.results + 1
  <2>1. r \in Nat  BY PassFields
  <2> HIDE DEF r
  <2>2. LET p == [pass EXCEPT !.pc = "count", !.claim = "won", !.results = r]
        IN  p \in Pass /\ p.pc = "count"
    BY <2>1 DEF TypeOK, Pass
  <2>3. won \in Pass /\ won.pc = "count"  BY <2>2 DEF r
  <2> QED  BY <2>3 DEF TypeOK, Pass
<1> HIDE DEF won, lost, unknown
<1>5. pass' \in Pass /\ pass'.pc = "count"  BY <1>3, <1>4
<1> QED  BY <1>1, <1>2, <1>5 DEF TypeOK, Budgeted, Record, commands

LEMMA CountType ==
    ASSUME TypeOK, Budgeted, Good(kv'), Count
    PROVE  TypeOK' /\ Budgeted'
<1>1. kv' \in Counters  BY DEF Good
<1>2. faults' \in 0 .. MaxFaults
  BY CoordinationAssumption DEF Count, Fault, TypeOK
<1> DEFINE next(p) == p \in Pass /\ p.pc = "repair"
<1>3. next(pass')
  <2> USE DEF TypeOK, Pass
  <2>0. kv.completed \in Nat /\ kv.completed + 1 \in Nat  BY DEF Counters
  <2>1. next([pass EXCEPT !.pc = "repair", !.progressed = TRUE, !.count = kv.completed + 1])
    BY <2>0
  <2>2. next([pass EXCEPT !.pc = "repair", !.progressed = (kv' # kv)])
    <3> DEFINE b == kv' # kv
    <3>1. b \in BOOLEAN  OBVIOUS
    <3> HIDE DEF b
    <3>2. next([pass EXCEPT !.pc = "repair", !.progressed = b])  BY <3>1
    <3> QED  BY <3>2 DEF b
  <2>3. next([pass EXCEPT !.pc = "repair", !.count = kv.completed])
    BY <2>0
  <2>4. next([pass EXCEPT !.pc = "repair", !.count = 0])
    OBVIOUS
  <2>5. next([pass EXCEPT !.pc = "repair"])
    OBVIOUS
  <2> HIDE DEF next
  <2> QED  BY <2>1, <2>2, <2>3, <2>4, <2>5 DEF Count
<1>4. pass' \in Pass /\ pass'.pc # "refill"  BY <1>3
<1> QED  BY <1>1, <1>2, <1>4 DEF TypeOK, Budgeted, Count, commands

LEMMA RepairType ==
    ASSUME TypeOK, Budgeted, Repair
    PROVE  TypeOK' /\ Budgeted'
<1> DEFINE o == PlusOne(pass.out, TailMissing)
           r == pass.repaired \cup TailMissing
           c == IF pass.count >= Size THEN "route" ELSE "continue"
<1>1. o \in [Idx -> Nat] /\ r \in SUBSET Idx
  BY PassFields, PlusOneType, TailMissingType
<1>2. c \in {"route", "continue"}  OBVIOUS
<1>3. pass' = [pass EXCEPT !.pc = c, !.out = o, !.repaired = r]  BY DEF Repair
<1> HIDE DEF o, r, c
<1>4. pass' \in Pass /\ pass'.pc # "refill"  BY <1>1, <1>2, <1>3 DEF TypeOK, Pass
<1> QED  BY <1>4 DEF TypeOK, Budgeted, Repair, commands

LEMMA RouteType ==
    ASSUME TypeOK, Budgeted, Good(kv'), Route
    PROVE  TypeOK' /\ Budgeted'
<1>1. kv' \in Counters  BY DEF Good
<1>2. faults' \in 0 .. MaxFaults
  BY CoordinationAssumption DEF Route, Fault, TypeOK
<1>3. PICK r \in BOOLEAN :
          pass' = [pass EXCEPT !.pc = "commit", !.finalize = TRUE, !.route = r]
  BY DEF Route, RecoverRoute
<1>4. pass' \in Pass /\ pass'.pc # "refill"  BY <1>3 DEF TypeOK, Pass
<1> QED  BY <1>1, <1>2, <1>4 DEF TypeOK, Budgeted, Route, commands

LEMMA ContinueType ==
    ASSUME TypeOK, Budgeted, Good(kv'), Continue
    PROVE  TypeOK' /\ Budgeted'
<1>1. kv' \in Counters  BY DEF Good
<1>2. faults' \in 0 .. MaxFaults
  BY CoordinationAssumption DEF Continue, Fault, TypeOK
<1> DEFINE o == PlusOne(pass.out, kv.scheduled .. kv.scheduled + Slots(kv) - 1)
           more   == [pass EXCEPT !.pc = "commit", !.out = o]
           raised == [pass EXCEPT !.pc = "commit"]
           retry  == [pass EXCEPT !.pc = "refill", !.budget = MaxInFlight]
<1>3. pass' \in {more, raised, retry}  BY DEF Continue
<1>4. o \in [Idx -> Nat]  BY PassFields, PlusOneType
<1> HIDE DEF o
<1>5. more \in Pass /\ more.pc = "commit"  BY <1>4 DEF TypeOK, Pass
<1>6. raised \in Pass /\ raised.pc = "commit"  BY DEF TypeOK, Pass
<1>7. MaxInFlight \in 0 .. MaxInFlight /\ MaxInFlight > 0  BY LoopAssumption
<1>8. retry \in Pass /\ retry.budget > 0  BY <1>7 DEF TypeOK, Pass
<1> HIDE DEF more, raised, retry
<1>9. pass' \in Pass /\ (pass'.pc = "refill" => pass'.budget > 0)
  BY <1>3, <1>5, <1>6, <1>8
<1> QED  BY <1>1, <1>2, <1>9 DEF TypeOK, Budgeted, Continue, commands

LEMMA RefillType ==
    ASSUME TypeOK, Budgeted, Good(kv'), Refill
    PROVE  TypeOK' /\ Budgeted'
<1> DEFINE w == With(kv.scheduled)
<1>1. kv' \in Counters  BY DEF Good
<1>2. pass.budget > 0  BY DEF Refill, Budgeted
<1>3. w \in Pass /\ (w.pc = "refill" => w.budget > 0)  BY <1>2, WithType
<1>4. pass' = [w EXCEPT !.progressed = TRUE]  BY DEF Refill, ClaimOne
<1> HIDE DEF w
<1>5. pass' \in Pass /\ (pass'.pc = "refill" => pass'.budget > 0)
  BY <1>3, <1>4 DEF Pass
<1> QED  BY <1>1, <1>5 DEF TypeOK, Budgeted, Refill, commands

LEMMA ReconcileType ==
    ASSUME TypeOK, Budgeted, Good(kv'), Reconcile
    PROVE  TypeOK' /\ Budgeted'
<1>1. kv' \in Counters  BY DEF Good
<1>2. pass.budget > 0  BY DEF Reconcile, Budgeted
<1> DEFINE Ok(p) == p \in Pass /\ (p.pc = "refill" => p.budget > 0)
<1>3. ASSUME NEW k, NoneLeft(k)  PROVE Ok(pass')
  BY <1>3 DEF NoneLeft, TypeOK, Pass
<1>4. ASSUME NEW k, ClaimOne(k)  PROVE Ok(pass')
  <2> DEFINE w == With(k.scheduled)
  <2>1. Ok(w)  BY <1>2, WithType
  <2>2. pass' = [w EXCEPT !.progressed = TRUE]  BY <1>4 DEF ClaimOne
  <2> HIDE DEF w
  <2> QED  BY <2>1, <2>2 DEF Pass
<1>5. ASSUME NEW k, Replay(k)  PROVE Ok(pass')
  <2>1. PICK i \in Idx :
           pass' = [With(i) EXCEPT !.replayed = TRUE, !.repaired = @ \cup {i}]
    BY <1>5 DEF Replay, Orphans, Issued
  <2> DEFINE w == With(i)
             r == w.repaired \cup {i}
  <2>2. Ok(w)  BY <1>2, WithType
  <2>3. pass' = [w EXCEPT !.replayed = TRUE, !.repaired = r]  BY <2>1
  <2> HIDE DEF w
  <2>4. r \in SUBSET Idx  BY <2>2 DEF Pass
  <2> HIDE DEF r
  <2> QED  BY <2>2, <2>3, <2>4 DEF Pass
<1> HIDE DEF Ok
<1>6. Ok(pass')  BY <1>3, <1>4, <1>5 DEF Reconcile
<1>7. pass' \in Pass /\ (pass'.pc = "refill" => pass'.budget > 0)  BY <1>6 DEF Ok
<1> QED  BY <1>1, <1>7 DEF TypeOK, Budgeted, Reconcile, commands

LEMMA CommitType ==
    ASSUME TypeOK, Budgeted, Commit
    PROVE  TypeOK' /\ Budgeted'
<1> DEFINE routes == IF pass.route THEN 1 ELSE 0
<1>1. routes \in Nat  OBVIOUS
<1>2. routed' = routed + routes /\ logged' \in {logged, logged + routes}
      /\ state' \in {state, [state EXCEPT !.finalized = pass.finalize,
                                          !.results = pass.results,
                                          !.repaired = pass.repaired]}
  BY DEF Commit
<1> HIDE DEF routes
<1>3. routed' \in Nat /\ logged' \in Nat  BY <1>1, <1>2 DEF TypeOK
<1>4. state' \in [entered : BOOLEAN, finalized : BOOLEAN,
                  results : Nat, repaired : SUBSET Idx]
  BY <1>2, PassFields DEF TypeOK
<1>5. faults' \in 0 .. MaxFaults
  BY CoordinationAssumption DEF Commit, Fault, TypeOK
<1>6. unissued' \in [Idx -> Nat]
  BY PassFields DEF Commit, TypeOK
<1>7. pass' \in Pass /\ pass'.pc # "refill"
  BY NoPassType DEF Commit, NoPass
<1> QED  BY <1>3, <1>4, <1>5, <1>6, <1>7 DEF TypeOK, Budgeted, Commit

LEMMA CrashType ==
    ASSUME TypeOK, Budgeted, Crash
    PROVE  TypeOK' /\ Budgeted'
<1>1. faults' \in 0 .. MaxFaults
  BY CoordinationAssumption DEF Crash, Fault, TypeOK
<1>2. pass' \in Pass /\ pass'.pc # "refill"
  BY NoPassType DEF Crash, NoPass
<1> QED  BY <1>1, <1>2 DEF TypeOK, Budgeted, Crash, commands

\* Types and budgets in every step.
LEMMA TypeStep ==
    ASSUME TypeOK, Budgeted, Good(kv'), Next
    PROVE  TypeOK' /\ Budgeted'
BY EnterType, IssueType, LoseIssueType, FinishType, BeginType, RecordType,
   CountType, RepairType, RouteType, ContinueType, RefillType, ReconcileType,
   CommitType, CrashType DEF Next, PassStep

-----------------------------------------------------------------------------
\* What a pass keeps while it runs.

\* The fields that only the first step of a pass, its Record and its Route set.
SameReport == /\ pass'.idx = pass.idx /\ pass'.results = pass.results
              /\ pass'.finalize = pass.finalize /\ pass'.route = pass.route
              /\ pass.pc # "idle"

\* With adds a command and changes nothing else that the invariant reads.
LEMMA WithKeeps ==
    ASSUME TypeOK, NEW i
    PROVE  /\ With(i).idx = pass.idx /\ With(i).results = pass.results
           /\ With(i).finalize = pass.finalize /\ With(i).route = pass.route
BY DEF With, TypeOK, Pass

LEMMA InnerStep ==
    ASSUME TypeOK, Count \/ Repair \/ Continue \/ Refill \/ Reconcile
    PROVE  SameReport /\ UNCHANGED <<item, finished, calls, unissued, live,
                                     state, logged, routed>>
<1>1. UNCHANGED <<item, finished, calls, unissued, live, state, logged, routed>>
  BY DEF Count, Repair, Continue, Refill, Reconcile, commands
<1>2. pass.pc # "idle"
  BY DEF Count, Repair, Continue, Refill, Reconcile
<1> USE DEF SameReport, TypeOK, Pass
<1>3. CASE Count  BY <1>1, <1>2, <1>3 DEF Count
<1>4. CASE Repair  BY <1>1, <1>2, <1>4 DEF Repair
<1>5. CASE Continue  BY <1>1, <1>2, <1>5 DEF Continue
<1>6. ASSUME NEW k, ClaimOne(k)  PROVE SameReport
  BY <1>2, <1>6, WithKeeps DEF ClaimOne, With
<1>7. ASSUME NEW k, Replay(k)  PROVE SameReport
  <2>1. PICK i : pass' = [With(i) EXCEPT !.replayed = TRUE, !.repaired = @ \cup {i}]
    BY <1>7 DEF Replay
  <2> QED  BY <1>2, <2>1, WithKeeps DEF With
<1>8. ASSUME NEW k, NoneLeft(k)  PROVE SameReport
  BY <1>2, <1>8 DEF NoneLeft
<1>9. CASE Refill  BY <1>1, <1>6, <1>9 DEF Refill
<1> HIDE DEF SameReport, TypeOK, Pass
<1>10. CASE Reconcile  BY <1>1, <1>6, <1>7, <1>8, <1>10 DEF Reconcile
<1> QED  BY <1>3, <1>4, <1>5, <1>9, <1>10

-----------------------------------------------------------------------------
\* Nothing happens before the loop is entered.
LEMMA NotBegunStep ==
    ASSUME TypeOK, NotBegun, Next
    PROVE  NotBegun'
<1>1. CASE state.entered
  <2>1. state'.entered
    BY <1>1, InnerStep DEF Next, PassStep, Enter, Issue, LoseIssue, Finish, Begin,
                           Record, Route, Commit, Crash, TypeOK
  <2> QED  BY <2>1 DEF NotBegun
<1>2. CASE ~state.entered
  <2>1. /\ pass.pc = "idle"
        /\ \A i \in Idx : unissued[i] = 0 /\ live[i] = 0 /\ calls[i] = 0
    BY <1>2 DEF NotBegun, Zero
  <2>2. ~LoseIssue  BY <2>1 DEF LoseIssue
  <2>3. ~PassStep
    BY <2>1 DEF PassStep, Record, Count, Repair, Route, Continue, Refill,
                Reconcile, Commit
  <2>4. \A i \in Idx : ~(Issue(i) \/ Finish(i) \/ Begin(i))
    BY <2>1 DEF Issue, Finish, Begin
  <2>5. Enter
    BY <2>1, <2>2, <2>3, <2>4 DEF Next, Crash
  <2>6. state'.entered  BY <2>5 DEF Enter, TypeOK
  <2> QED  BY <2>6 DEF NotBegun
<1> QED  BY <1>1, <1>2

\* A record or a report of an iteration follows the end of its command.
LEMMA ReportedStep ==
    ASSUME TypeOK, NotBegun, Reported, Next
    PROVE  Reported'
<1> DEFINE Fields == /\ item \in [Idx -> {"none", "issued", "terminal"}]
                     /\ finished \in [Idx -> Nat] /\ calls \in [Idx -> Nat]
                     /\ pass.idx \in Idx
<1>0. Fields  BY PassFields DEF TypeOK
<1>1. CASE Enter \/ LoseIssue
  <2>1. UNCHANGED <<item, finished, calls, pass>>  BY <1>1 DEF Enter, LoseIssue
  <2> QED  BY <2>1 DEF Reported, Terminals, Executed
<1>2. CASE Crash \/ Commit
  <2>1. UNCHANGED <<item, finished, calls>> /\ pass'.pc = "idle"
    BY <1>2 DEF Crash, Commit, commands, NoPass
  <2> QED  BY <2>1 DEF Reported, Terminals, Executed
<1>3. CASE Count \/ Repair \/ Continue \/ Refill \/ Reconcile
  <2>1. UNCHANGED <<item, finished, calls>> /\ pass'.idx = pass.idx /\ pass.pc # "idle"
    BY <1>3, InnerStep DEF SameReport
  <2> QED  BY <2>1 DEF Reported, Terminals, Executed
<1>4. CASE Route
  <2>1. UNCHANGED <<item, finished, calls>> /\ pass'.idx = pass.idx /\ pass.pc # "idle"
    BY <1>4 DEF Route, commands, TypeOK, Pass
  <2> QED  BY <2>1 DEF Reported, Terminals, Executed
<1>5. CASE Record
  <2>1. /\ UNCHANGED <<finished, calls>> /\ pass'.idx = pass.idx /\ pass.pc # "idle"
        /\ item' \in {item, [item EXCEPT ![pass.idx] = "terminal"]}
    BY <1>5 DEF Record, commands, TypeOK, Pass
  <2>2. Terminals' \subseteq Terminals \cup {pass.idx}
    BY <2>1, <1>0 DEF Terminals
  <2>3. finished[pass.idx] > 0 /\ Terminals \subseteq Executed
    BY <2>1 DEF Reported
  <2>4. Terminals' \subseteq Executed'
    BY <1>0, <2>1, <2>2, <2>3 DEF Executed
  <2> QED  BY <2>1, <2>4 DEF Reported
<1>6. ASSUME NEW i \in Idx, Issue(i)  PROVE Reported'
  <2>1. UNCHANGED <<finished, calls, pass>>  BY <1>6 DEF Issue
  <2>2. Terminals' = Terminals  BY <1>0, <1>6 DEF Issue, Terminals
  <2> QED  BY <2>1, <2>2 DEF Reported, Executed
<1>7. ASSUME NEW i \in Idx, Finish(i)  PROVE Reported'
  <2>1. /\ UNCHANGED <<item, pass>>
        /\ finished' = [finished EXCEPT ![i] = @ + 1]
        /\ calls' = [calls EXCEPT ![i] = @ + 1]
    BY <1>7 DEF Finish
  <2>2. \A j \in Idx : /\ finished[j] > 0 => finished'[j] > 0
                       /\ j = i => finished'[j] > 0
                       /\ j # i => calls'[j] = calls[j]
    BY <1>0, <2>1
  <2>3. Executed \subseteq Executed' /\ Terminals' = Terminals
    BY <2>1, <2>2 DEF Executed, Terminals
  <2> QED  BY <1>0, <2>1, <2>2, <2>3 DEF Reported
<1>8. ASSUME NEW i \in Idx, Begin(i)  PROVE Reported'
  <2>1. /\ UNCHANGED <<item, finished>>
        /\ calls' = [calls EXCEPT ![i] = @ - 1] /\ calls[i] > 0
    BY <1>8 DEF Begin
  <2>2. \A j \in Idx : calls'[j] > 0 => calls[j] > 0
    BY <1>0, <2>1
  <2>3. pass'.pc # "idle" => pass'.idx = i
    BY <1>8 DEF Begin, NoPass
  <2>4. Terminals' = Terminals /\ Executed' = Executed
    BY <2>1 DEF Terminals, Executed
  <2> QED  BY <2>1, <2>2, <2>3, <2>4 DEF Reported
<1> QED
  BY <1>1, <1>2, <1>3, <1>4, <1>5, <1>6, <1>7, <1>8 DEF Next, PassStep

\* The recorded iterations never become fewer, and the winner of a claim adds one.
LEMMA TerminalsGrow ==
    ASSUME TypeOK, Next
    PROVE  /\ Cardinality(Terminals) <= Cardinality(Terminals')
           /\ Record /\ pass'.results # pass.results =>
                 Cardinality(Terminals') = Cardinality(Terminals) + 1
<1>1. item \in [Idx -> {"none", "issued", "terminal"}] /\ pass.idx \in Idx
  BY PassFields DEF TypeOK
<1>2. CASE ~Record
  <2>1. Terminals' = Terminals
    <3>1. CASE UNCHANGED item  BY <3>1 DEF Terminals
    <3>2. ASSUME NEW i \in Idx, Issue(i)  PROVE Terminals' = Terminals
      BY <1>1, <3>2 DEF Issue, Terminals
    <3>3. ASSUME NEW i \in Idx, Finish(i) \/ Begin(i)  PROVE UNCHANGED item
      BY <3>3 DEF Finish, Begin
    <3>4. CASE Enter \/ LoseIssue \/ Crash \/ Commit \/ Route
      BY <3>1, <3>4 DEF Enter, LoseIssue, Crash, Commit, Route
    <3>5. CASE Count \/ Repair \/ Continue \/ Refill \/ Reconcile
      BY <3>1, <3>5, InnerStep
    <3> QED  BY <1>2, <3>1, <3>2, <3>3, <3>4, <3>5 DEF Next, PassStep
  <2> QED  BY <1>2, <2>1, TerminalsFinite
<1>3. CASE Record
  <2>1. item' \in {item, [item EXCEPT ![pass.idx] = "terminal"]}
    BY <1>3 DEF Record
  <2>2. Terminals' \in {Terminals, Terminals \cup {pass.idx}}
    BY <1>1, <2>1 DEF Terminals
  <2>3. Cardinality(Terminals \cup {pass.idx})
          = IF pass.idx \in Terminals THEN Cardinality(Terminals)
            ELSE Cardinality(Terminals) + 1
    BY TerminalsFinite, FS_AddElement
  <2>4. ASSUME pass'.results # pass.results
        PROVE  pass.idx \notin Terminals /\ Terminals' = Terminals \cup {pass.idx}
    <3>1. item[pass.idx] # "terminal" /\ item' = [item EXCEPT ![pass.idx] = "terminal"]
      BY <1>3, <2>4 DEF Record, TypeOK, Pass
    <3>2. pass.idx \notin Terminals  BY <3>1 DEF Terminals
    <3>3. item'[pass.idx] = "terminal"  BY <1>1, <3>1
    <3>4. pass.idx \in Terminals'  BY <1>1, <3>3 DEF Terminals
    <3> QED  BY <2>2, <3>2, <3>4
  <2> QED  BY <2>2, <2>3, <2>4, TerminalsFinite
<1> QED  BY <1>2, <1>3

\* Results are counted by the winners of the record only.
LEMMA CountedStep ==
    ASSUME TypeOK, Counted, Next
    PROVE  Counted'
<1> DEFINE c == Cardinality(Terminals)
           d == Cardinality(Terminals')
<1>1. c \in Nat /\ c <= d  BY TerminalsFinite, TerminalsGrow
<1>2. pass.results \in Nat /\ state.results \in Nat
      /\ pass.results <= c /\ state.results <= c
  BY PassFields, StateFields DEF Counted
<1>3. d \in Nat
  <2>1. Terminals' \subseteq Idx  BY DEF Terminals
  <2> QED  BY <2>1, IdxFacts, FS_Subset, FS_CardinalityType
<1>4. Record /\ pass'.results # pass.results => d = c + 1
  BY TerminalsGrow
<1> HIDE DEF c, d
<1>5. NoPass.results = 0  BY DEF NoPass
<1>6. CASE Record
  <2>1. state' = state
        /\ pass'.results \in {pass.results, pass.results + 1}
    BY <1>6 DEF Record, TypeOK, Pass
  <2>2. state'.results <= d
    BY <1>1, <1>2, <1>3, <2>1
  <2>3. pass'.results <= d
    <3>1. CASE pass'.results = pass.results
      BY <1>1, <1>2, <1>3, <3>1
    <3>2. CASE pass'.results = pass.results + 1
      <4>1. d = c + 1  BY <1>2, <1>4, <1>6, <3>2
      <4> QED  BY <1>1, <1>2, <3>2, <4>1
    <3> QED  BY <2>1, <3>1, <3>2
  <2> QED  BY <2>2, <2>3 DEF Counted, d
<1>7. CASE ~Record
  <2>1. pass'.results \in {0, pass.results, state.results}
    <3>1. CASE UNCHANGED pass  BY <3>1
    <3>2. CASE Crash \/ Commit  BY <1>5, <3>2 DEF Crash, Commit
    <3>3. CASE Route  BY <3>3 DEF Route, TypeOK, Pass
    <3>4. CASE Count \/ Repair \/ Continue \/ Refill \/ Reconcile
      BY <3>4, InnerStep DEF SameReport
    <3>5. ASSUME NEW i \in Idx, Begin(i)  PROVE pass'.results \in {0, state.results}
      BY <1>5, <3>5 DEF Begin, NoPass
    <3>6. ASSUME NEW i \in Idx, Issue(i) \/ Finish(i)  PROVE UNCHANGED pass
      BY <3>6 DEF Issue, Finish
    <3>7. CASE Enter \/ LoseIssue  BY <3>1, <3>7 DEF Enter, LoseIssue
    <3> QED  BY <1>7, <3>1, <3>2, <3>3, <3>4, <3>5, <3>6, <3>7 DEF Next, PassStep
  <2>2. state'.results \in {state.results, pass.results}
    <3>1. CASE UNCHANGED state  BY <3>1
    <3>2. CASE Commit  BY <3>2 DEF Commit, TypeOK
    <3>3. CASE Enter  BY <3>3 DEF Enter, TypeOK
    <3>4. CASE Count \/ Repair \/ Continue \/ Refill \/ Reconcile
      BY <3>4, InnerStep
    <3>5. CASE Crash \/ Route \/ LoseIssue
      BY <3>5 DEF Crash, Route, LoseIssue
    <3>6. ASSUME NEW i \in Idx, Issue(i) \/ Finish(i) \/ Begin(i)  PROVE UNCHANGED state
      BY <3>6 DEF Issue, Finish, Begin
    <3> QED  BY <1>7, <3>1, <3>2, <3>3, <3>4, <3>5, <3>6 DEF Next, PassStep
  <2>3. pass'.results <= d /\ state'.results <= d
    BY <1>1, <1>2, <1>3, <2>1, <2>2
  <2> QED  BY <2>3 DEF Counted, d
<1> QED  BY <1>6, <1>7

\* A step is finalized by the pass that routes it, or by one that finds the
\* routing in the log.
LEMMA JustifiedStep ==
    ASSUME TypeOK, Justified, Next
    PROVE  Justified'
<1>0. /\ logged \in Nat /\ routed \in Nat /\ logged <= routed
      /\ pass.finalize /\ ~pass.route => logged > 0
      /\ state.finalized => routed > 0
  BY DEF TypeOK, Justified
<1>1. CASE UNCHANGED <<logged, routed>> /\ state'.finalized = state.finalized
           /\ (pass'.finalize => /\ pass.finalize
                                 /\ pass'.route = pass.route)
  BY <1>0, <1>1 DEF Justified
<1>2. CASE Commit
  <2> DEFINE routes == IF pass.route THEN 1 ELSE 0
  <2>1. /\ routed' = routed + routes
        /\ logged' \in {logged, logged + routes}
        /\ state'.finalized \in {state.finalized, pass.finalize}
        /\ ~pass'.finalize
    BY <1>2 DEF Commit, NoPass, TypeOK
  <2>2. pass.finalize => routed' > 0
    BY <1>0, <2>1, PassFields
  <2>3. state'.finalized => routed' > 0
    <3>1. state.finalized => routed' > 0  BY <1>0, <2>1
    <3> QED  BY <2>1, <2>2, <3>1
  <2> QED  BY <1>0, <2>1, <2>3 DEF Justified
<1>3. CASE Route
  <2>1. UNCHANGED <<state, logged, routed>>
        /\ (pass'.finalize /\ ~pass'.route => logged # 0)
    BY <1>3 DEF Route, RecoverRoute, TypeOK, Pass
  <2> QED  BY <1>0, <2>1 DEF Justified
<1>4. CASE Count \/ Repair \/ Continue \/ Refill \/ Reconcile
  <2>1. UNCHANGED <<state, logged, routed>>
        /\ pass'.finalize = pass.finalize /\ pass'.route = pass.route
    BY <1>4, InnerStep DEF SameReport
  <2> QED  BY <1>1, <2>1
<1>5. CASE Record
  BY <1>1, <1>5 DEF Record, TypeOK, Pass
<1>6. CASE Crash
  BY <1>1, <1>6 DEF Crash, NoPass
<1>7. CASE Enter
  <2>1. UNCHANGED <<logged, routed, pass>> /\ state'.finalized = state.finalized
    BY <1>7 DEF Enter, TypeOK
  <2> QED  BY <1>1, <2>1
<1>8. CASE LoseIssue
  BY <1>1, <1>8 DEF LoseIssue
<1>9. ASSUME NEW i \in Idx, Issue(i) \/ Finish(i)  PROVE Justified'
  BY <1>1, <1>9 DEF Issue, Finish
<1>10. ASSUME NEW i \in Idx, Begin(i)  PROVE Justified'
  <2>1. UNCHANGED <<logged, routed, state>> /\ ~pass'.finalize
    BY <1>10 DEF Begin, NoPass
  <2> QED  BY <1>1, <2>1
<1> QED
  BY <1>2, <1>3, <1>4, <1>5, <1>6, <1>7, <1>8, <1>9, <1>10 DEF Next, PassStep

-----------------------------------------------------------------------------
\* The invariant is inductive.

LEMMA InitIInv == Init => IInv
<1> SUFFICES ASSUME Init  PROVE IInv
  OBVIOUS
<1>1. kv = Fresh /\ Good(kv)  BY FreshGood DEF Init
<1>2. TypeOK
  <2>1. kv \in Counters  BY <1>1 DEF Good
  <2>2. {unissued, live, finished, calls} \subseteq [Idx -> Nat]
    BY ZeroType DEF Init
  <2>3. pass \in Pass  BY NoPassType DEF Init
  <2>4. faults \in 0 .. MaxFaults  BY CoordinationAssumption DEF Init
  <2> QED  BY <2>1, <2>2, <2>3, <2>4 DEF Init, TypeOK
<1>3. CountersBounded  BY <1>1 DEF Good, CountersBounded
<1>4. Budgeted  BY DEF Init, NoPass, Budgeted
<1>5. NotBegun  BY DEF Init, NoPass, NotBegun
<1>6. Terminals = {}  BY DEF Init, Terminals
<1>7. Reported  BY <1>6 DEF Init, Zero, NoPass, Reported
<1>8. Counted  BY TerminalsFinite DEF Init, NoPass, Counted
<1>9. Justified  BY DEF Init, NoPass, Justified
<1> QED  BY <1>2, <1>3, <1>4, <1>5, <1>7, <1>8, <1>9 DEF IInv

LEMMA NextIInv == IInv /\ [Next]_vars => IInv'
<1> SUFFICES ASSUME IInv, [Next]_vars  PROVE IInv'
  OBVIOUS
<1>1. CASE Next
  <2>1. TypeOK /\ Budgeted /\ NotBegun /\ Reported /\ Counted /\ Justified
    BY DEF IInv
  <2>2. Good(kv)  BY DEF IInv, TypeOK, CountersBounded, Good
  <2>3. Good(kv')  BY <1>1, <2>1, <2>2, CountersStep
  <2>4. CountersBounded'  BY <2>3 DEF Good, CountersBounded
  <2>5. TypeOK' /\ Budgeted'  BY <1>1, <2>1, <2>3, TypeStep
  <2>6. NotBegun'  BY <1>1, <2>1, NotBegunStep
  <2>7. Reported'  BY <1>1, <2>1, ReportedStep
  <2>8. Counted'  BY <1>1, <2>1, CountedStep
  <2>9. Justified'  BY <1>1, <2>1, JustifiedStep
  <2> QED  BY <2>4, <2>5, <2>6, <2>7, <2>8, <2>9 DEF IInv
<1>2. CASE UNCHANGED vars
  <2> USE <1>2 DEF vars
  <2>1. TypeOK'  BY DEF IInv, TypeOK
  <2>2. CountersBounded'  BY DEF IInv, CountersBounded, InFlight
  <2>3. Budgeted' /\ NotBegun' /\ Justified'
    BY DEF IInv, Budgeted, NotBegun, Justified
  <2>4. Terminals' = Terminals /\ Executed' = Executed
    BY DEF Terminals, Executed
  <2>5. Reported' /\ Counted'  BY <2>4 DEF IInv, Reported, Counted
  <2> QED  BY <2>1, <2>2, <2>3, <2>5 DEF IInv
<1> QED  BY <1>1, <1>2

\* The inductive invariant holds of every reachable state.
THEOREM Invariance == Spec => []IInv
BY InitIInv, NextIInv, PTL DEF Spec

-----------------------------------------------------------------------------
\* No index twice.  The tail repair offers indexes again that nobody has claimed
\* yet, and after a failing K/V request the watchdog replays what the supervisor
\* has seen of a loop that /execute entered: without both, commands come from
\* claims only, and a claim takes fresh indexes.

\* What there is of index i: commands not inserted, rows, and commands that the
\* pass under way will return.
Held(i) == unissued[i] + live[i] + finished[i] + pass.out[i]

\* At most one, and none of an index that was not claimed.
HeldOnce == \A i \in Idx : /\ Held(i) <= 1
                           /\ i >= kv.scheduled => Held(i) = 0

\* A finished command is reported once: its event waits, or a pass is about to
\* record it, or it is recorded.
ReportedOnce ==
    \A i \in Idx :
        /\ calls[i] <= 1 /\ (calls[i] > 0 => finished[i] > 0)
        /\ pass.pc = "record" /\ pass.idx = i =>
              calls[i] = 0 /\ finished[i] > 0 /\ item[i] # "terminal"
        /\ item[i] = "terminal" => calls[i] = 0 /\ finished[i] > 0

\* So every pass wins its claim and sees progress of its own.
PassProgresses ==
    /\ pass.pc = "count" => pass.claim = "won"
    /\ pass.pc \in {"repair", "continue", "refill"} => pass.progressed

\* The watchdog has no reason to replay, or nothing.
NothingReplayed == IF "kv" \in FaultKinds THEN Issued = {} ELSE PassProgresses

OnceInv == HeldOnce /\ ReportedOnce /\ NothingReplayed

\* No tail repair, and K/V works; or, in Calm, it may fail but the supervisor does
\* not watch the loop.
Careful == RepairThreshold = 0 /\ "kv" \notin FaultKinds
Calm    == RepairThreshold = 0 /\ ("kv" \in FaultKinds => ~FirstStep)

LEMMA CarefulIsCalm == Careful => Calm
BY DEF Careful, Calm

LEMMA CarefulProgress ==
    ASSUME Careful, OnceInv  PROVE PassProgresses
BY DEF Careful, OnceInv, NothingReplayed

LEMMA PlusOneAt ==
    ASSUME NEW f \in [Idx -> Nat], NEW I, NEW i \in Idx
    PROVE  PlusOne(f, I)[i] = IF i \in I THEN f[i] + 1 ELSE f[i]
BY DEF PlusOne

\* Without the tail repair nothing is missing; and K/V does not fail.
LEMMA CalmFacts ==
    ASSUME TypeOK, Calm  PROVE TailMissing = {}
<1>1. ~ (Size - pass.count \in 1 .. RepairThreshold)
  BY LoopAssumption DEF Calm
<1> QED  BY <1>1 DEF TailMissing

LEMMA CarefulFacts ==
    ASSUME TypeOK, Careful  PROVE TailMissing = {} /\ ~Fault("kv")
BY CalmFacts, CarefulIsCalm DEF Fault, Careful

\* A claim of one index makes a command for the first index not claimed yet.
LEMMA OneClaimed ==
    ASSUME TypeOK, NEW k, Good(k), k.scheduled >= kv.scheduled, ClaimOne(k)
    PROVE  /\ pass'.out = PlusOne(pass.out, {k.scheduled})
           /\ kv'.scheduled = k.scheduled + 1
           /\ pass'.pc \in {"commit", "refill"} /\ pass'.progressed
<1>1. pass \in Pass /\ k \in Counters  BY DEF TypeOK, Good
<1>2. pass' = [With(k.scheduled) EXCEPT !.progressed = TRUE] /\ kv' = Claim(k, 1)
  BY DEF ClaimOne
<1>3. kv'.scheduled = k.scheduled + 1
  BY <1>1, <1>2 DEF Claim, Counters
<1> QED  BY <1>1, <1>2, <1>3 DEF With, Pass

\* What reconciliation leaves: a later record, and a claim of one index or none.
LEMMA ReconcileEffect ==
    ASSUME IInv, NothingReplayed, Reconcile
    PROVE  \/ \E k : Good(k) /\ k.scheduled >= kv.scheduled /\ ClaimOne(k)
           \/ /\ kv'.scheduled >= kv.scheduled /\ kv' \in Counters
              /\ pass' = [pass EXCEPT !.pc = "commit"]
<1>1. TypeOK /\ Good(kv) /\ pass.pc = "refill"
  BY DEF IInv, TypeOK, CountersBounded, Good, Reconcile
<1>2. \A k : ~Replay(k)
  <2>1. CASE Issued = {}  BY <2>1 DEF Replay, Orphans
  <2>2. CASE PassProgresses  BY <1>1, <2>2 DEF PassProgresses, Replay
  <2> QED  BY <2>1, <2>2 DEF NothingReplayed
<1>3. CASE ~Parked(kv) /\ NoneLeft(kv)
  BY <1>1, <1>3 DEF NoneLeft, Good, Counters
<1>4. CASE \E fromRows \in MayReadRows :
               LET k == Reconciled(fromRows)
               IN  \/ Slots(k) > 0 /\ ClaimOne(k)
                   \/ Slots(k) = 0 /\ (Replay(k) \/ NoneLeft(k))
  <2> PICK fromRows \in MayReadRows :
          \/ Slots(Reconciled(fromRows)) > 0 /\ ClaimOne(Reconciled(fromRows))
          \/ NoneLeft(Reconciled(fromRows))
    BY <1>2, <1>4
  <2>1. fromRows \in BOOLEAN  BY DEF MayReadRows
  <2>2. Good(Reconciled(fromRows)) /\ Later(kv, Reconciled(fromRows))
    BY <1>1, <2>1, ReconciledGood
  <2> HIDE DEF Reconciled
  <2> QED  BY <2>2 DEF NoneLeft, Good, Later
<1> QED  BY <1>3, <1>4 DEF Reconcile

-----------------------------------------------------------------------------
\* A step makes a command at most of an index that it claims.
LEMMA HeldStep ==
    ASSUME Calm, IInv, OnceInv, Next
    PROVE  \A i \in Idx :
               Held(i)' <= Held(i) + (IF kv.scheduled <= i /\ i < kv'.scheduled
                                      THEN 1 ELSE 0)
<1> SUFFICES ASSUME NEW i \in Idx
             PROVE  Held(i)' <= Held(i) + (IF kv.scheduled <= i /\ i < kv'.scheduled
                                           THEN 1 ELSE 0)
  OBVIOUS
<1> DEFINE More == IF kv.scheduled <= i /\ i < kv'.scheduled THEN 1 ELSE 0
<1> SUFFICES Held(i)' <= Held(i) + More
  OBVIOUS
<1>a. TypeOK /\ Good(kv)
  BY DEF IInv, TypeOK, CountersBounded, Good
<1>b. i \in Int /\ More \in {0, 1}  BY LoopAssumption DEF Idx
<1>c. kv.scheduled \in Nat  BY <1>a DEF Good, Counters
<1>d. /\ {unissued, live, finished, calls} \subseteq [Idx -> Nat]
      /\ pass.out \in [Idx -> Nat]
  BY <1>a DEF TypeOK, Pass
<1>0. /\ TypeOK /\ Good(kv) /\ i \in Int /\ More \in {0, 1}
      /\ kv.scheduled \in Nat
      /\ {unissued, live, finished, calls} \subseteq [Idx -> Nat]
      /\ pass.out \in [Idx -> Nat]
  BY <1>a, <1>b, <1>c, <1>d
<1>1. /\ unissued[i] \in Nat /\ live[i] \in Nat /\ finished[i] \in Nat /\ pass.out[i] \in Nat
      /\ Zero[i] = 0
  BY <1>0 DEF Zero
<1>2. TailMissing = {}  BY <1>0, CalmFacts
<1> HIDE DEF More
<1>3. CASE Enter
  <2>1. /\ kv = Fresh /\ unissued[i] = 0 /\ UNCHANGED <<live, finished, pass>>
    BY <1>1, <1>3 DEF Enter, IInv, NotBegun
  <2> DEFINE S == 0 .. Slots(Fresh) - 1
  <2>a. unissued' = PlusOne(Zero, S)  BY <1>3 DEF Enter
  <2> HIDE DEF S
  <2>b. unissued'[i] = IF i \in S THEN Zero[i] + 1 ELSE Zero[i]
    BY <2>a, PlusOneAt, ZeroType
  <2>c. unissued'[i] = IF i \in S THEN 1 ELSE 0  BY <1>1, <2>b
  <2>2. unissued'[i] = IF i \in 0 .. Slots(Fresh) - 1 THEN 1 ELSE 0
    BY <2>c DEF S
  <2>3. Slots(Fresh) \in Nat  BY FreshGood, SlotsFit DEF Good
  <2>4. kv.scheduled = 0 /\ kv'.scheduled = Slots(Fresh)
    BY <1>3, <2>1, <2>3 DEF Enter, Claim, Fresh
  <2>5. i >= 0  BY LoopAssumption DEF Idx
  <2>6. unissued'[i] <= More  BY <1>0, <2>2, <2>3, <2>4, <2>5 DEF More
  <2> QED  BY <1>0, <1>1, <2>1, <2>2, <2>6 DEF Held, More
<1>4. ASSUME NEW j \in Idx, Issue(j) \/ Finish(j) \/ Begin(j)
      PROVE  Held(i)' <= Held(i) + More
  <2>1. CASE Issue(j)
    <3>1. /\ unissued[j] > 0 /\ unissued[j] \in Nat /\ live[j] \in Nat
          /\ unissued' = [unissued EXCEPT ![j] = @ - 1]
          /\ live' = [live EXCEPT ![j] = @ + 1] /\ UNCHANGED <<finished, pass>>
      BY <1>0, <2>1 DEF Issue
    <3>2. unissued'[i] + live'[i] = unissued[i] + live[i]
      BY <1>0, <1>1, <3>1
    <3>3. unissued'[i] \in Nat /\ live'[i] \in Nat  BY <1>0, <1>1, <3>1
    <3> QED  BY <1>0, <1>1, <3>1, <3>2, <3>3 DEF Held
  <2>2. CASE Finish(j)
    <3>1. /\ live[j] > 0 /\ finished[j] \in Nat /\ live[j] \in Nat
          /\ live' = [live EXCEPT ![j] = @ - 1]
          /\ finished' = [finished EXCEPT ![j] = @ + 1] /\ UNCHANGED <<unissued, pass>>
      BY <1>0, <2>2 DEF Finish
    <3>2. finished'[i] + live'[i] = finished[i] + live[i]
      BY <1>0, <1>1, <3>1
    <3>3. finished'[i] \in Nat /\ live'[i] \in Nat  BY <1>0, <1>1, <3>1
    <3> QED  BY <1>0, <1>1, <3>1, <3>2, <3>3 DEF Held
  <2>3. CASE Begin(j)
    <3>1. UNCHANGED <<unissued, live, finished>> /\ pass'.out = Zero
      BY <2>3 DEF Begin, NoPass
    <3> QED  BY <1>0, <1>1, <3>1 DEF Held
  <2> QED  BY <1>4, <2>1, <2>2, <2>3
<1>5. CASE LoseIssue
  <2>1. unissued'[i] \in {0, unissued[i]} /\ UNCHANGED <<live, finished, pass>>
    BY <1>5 DEF LoseIssue
  <2> QED  BY <1>0, <1>1, <2>1 DEF Held
<1>6. CASE Record \/ Count \/ Route
  <2>1. UNCHANGED <<unissued, live, finished>>
    BY <1>6 DEF Record, Count, Route, commands
  <2>2. pass'.out = pass.out
    BY <1>0, <1>6 DEF Record, Count, Route, TypeOK, Pass
  <2> QED  BY <1>0, <1>1, <2>1, <2>2 DEF Held
<1>7. CASE Repair
  <2>1. UNCHANGED <<unissued, live, finished>> /\ pass'.out = PlusOne(pass.out, {})
    BY <1>0, <1>2, <1>7 DEF Repair, commands, TypeOK, Pass
  <2>2. pass'.out[i] = pass.out[i]  BY <1>0, <2>1, PlusOneAt
  <2> QED  BY <1>0, <1>1, <2>1, <2>2 DEF Held
<1>8. CASE Continue
  <2>1. UNCHANGED <<unissued, live, finished>>  BY <1>8 DEF Continue, commands
  <2>2. Slots(kv) \in Nat  BY <1>0, SlotsFit DEF Good
  <2>3. CASE pass'.out = pass.out
    BY <1>0, <1>1, <2>1, <2>3 DEF Held
  <2>4. CASE /\ kv' = Claim(kv, Slots(kv))
             /\ pass'.out = PlusOne(pass.out, kv.scheduled .. kv.scheduled + Slots(kv) - 1)
    <3>1. kv'.scheduled = kv.scheduled + Slots(kv)
      BY <1>0, <2>2, <2>4 DEF Claim, Good, Counters
    <3> DEFINE S == kv.scheduled .. kv.scheduled + Slots(kv) - 1
    <3>2. i \in S <=> kv.scheduled <= i /\ i < kv'.scheduled
      BY <1>0, <2>2, <3>1
    <3>3. pass'.out = PlusOne(pass.out, S)  BY <2>4
    <3> HIDE DEF S
    <3>4. pass'.out[i] = IF i \in S THEN pass.out[i] + 1 ELSE pass.out[i]
      BY <1>0, <3>3, PlusOneAt
    <3>5. More = IF i \in S THEN 1 ELSE 0  BY <3>2 DEF More
    <3>6. pass'.out[i] = pass.out[i] + More  BY <1>1, <3>4, <3>5
    <3> QED  BY <1>0, <1>1, <2>1, <3>6 DEF Held
  <2> QED  BY <1>0, <1>2, <1>8, <2>3, <2>4 DEF Continue, TypeOK, Pass
<1>9. ASSUME NEW k, Good(k), k.scheduled >= kv.scheduled, ClaimOne(k),
             UNCHANGED <<unissued, live, finished>>
      PROVE  Held(i)' <= Held(i) + More
  <2>1. /\ pass'.out = PlusOne(pass.out, {k.scheduled}) /\ kv'.scheduled = k.scheduled + 1
    BY <1>0, <1>9, OneClaimed
  <2>2. k.scheduled \in Nat  BY <1>9 DEF Good, Counters
  <2>3. pass'.out[i] <= pass.out[i] + More /\ pass'.out[i] \in Nat
    BY <1>0, <1>1, <1>9, <2>1, <2>2, PlusOneAt DEF More
  <2> QED  BY <1>0, <1>1, <1>9, <2>3 DEF Held
<1>10. CASE Refill
  <2>1. UNCHANGED <<unissued, live, finished>> /\ ClaimOne(kv)
    BY <1>10 DEF Refill, commands
  <2>2. kv.scheduled >= kv.scheduled  BY <1>0
  <2> QED  BY <1>0, <1>9, <2>1, <2>2
<1>11. CASE Reconcile
  <2>1. UNCHANGED <<unissued, live, finished>>  BY <1>11 DEF Reconcile, commands
  <2>2. CASE pass' = [pass EXCEPT !.pc = "commit"]
    <3>1. pass'.out = pass.out  BY <1>0, <2>2 DEF TypeOK, Pass
    <3> QED  BY <1>0, <1>1, <2>1, <3>1 DEF Held
  <2>3. ASSUME NEW k, Good(k), k.scheduled >= kv.scheduled, ClaimOne(k)
        PROVE  Held(i)' <= Held(i) + More
    BY <1>9, <2>1, <2>3
  <2>4. NothingReplayed  BY DEF OnceInv
  <2> QED  BY <1>11, <2>2, <2>3, <2>4, ReconcileEffect
<1>12. CASE Commit
  <2>1. /\ UNCHANGED <<live, finished>> /\ pass'.out = Zero
        /\ unissued'[i] = unissued[i] + pass.out[i]
    BY <1>12 DEF Commit, NoPass
  <2> QED  BY <1>0, <1>1, <2>1 DEF Held
<1>13. CASE Crash
  <2>1. UNCHANGED <<unissued, live, finished>> /\ pass'.out = Zero
    BY <1>13 DEF Crash, NoPass, commands
  <2> QED  BY <1>0, <1>1, <2>1 DEF Held
<1>14. Held(i)' <= Held(i) + More
  BY <1>3, <1>4, <1>5, <1>6, <1>7, <1>8, <1>10, <1>11, <1>12, <1>13 DEF Next, PassStep
<1> QED  BY <1>14 DEF More

\* So no index comes twice.
LEMMA HeldOnceStep ==
    ASSUME Calm, IInv, OnceInv, Next
    PROVE  HeldOnce'
<1>1. TypeOK /\ NotBegun /\ Good(kv)
  BY DEF IInv, TypeOK, CountersBounded, Good
<1>2. Good(kv') /\ Later(kv, kv')  BY <1>1, CountersStep
<1>3. IInv'  BY NextIInv
<1> SUFFICES ASSUME NEW i \in Idx
             PROVE  Held(i)' <= 1 /\ (i >= kv'.scheduled => Held(i)' = 0)
  BY DEF HeldOnce
<1>4. /\ kv.scheduled \in Nat /\ kv'.scheduled \in Nat /\ i \in Int
      /\ kv'.scheduled >= kv.scheduled
  BY <1>1, <1>2, LoopAssumption DEF Good, Counters, Later, Idx
<1>5. Held(i) \in Nat
  <2>1. {unissued, live, finished} \subseteq [Idx -> Nat] /\ pass.out \in [Idx -> Nat]
    BY <1>1 DEF TypeOK, Pass
  <2>2. unissued[i] \in Nat /\ live[i] \in Nat /\ finished[i] \in Nat /\ pass.out[i] \in Nat
    BY <2>1
  <2> QED  BY <2>2 DEF Held
<1>6. Held(i)' \in Nat
  <2>1. {unissued', live', finished'} \subseteq [Idx -> Nat] /\ pass'.out \in [Idx -> Nat]
    BY <1>3 DEF IInv, TypeOK, Pass
  <2>2. /\ unissued'[i] \in Nat /\ live'[i] \in Nat /\ finished'[i] \in Nat
        /\ pass'.out[i] \in Nat
    BY <2>1
  <2> QED  BY <2>2 DEF Held
<1>7. Held(i) <= 1 /\ (i >= kv.scheduled => Held(i) = 0)
  BY DEF OnceInv, HeldOnce
<1>8. Held(i)' <= Held(i) + (IF kv.scheduled <= i /\ i < kv'.scheduled THEN 1 ELSE 0)
  BY HeldStep
<1>9. CASE i >= kv.scheduled
  BY <1>4, <1>5, <1>6, <1>7, <1>8, <1>9
<1>10. CASE i < kv.scheduled
  BY <1>4, <1>5, <1>6, <1>7, <1>8, <1>10
<1> QED  BY <1>4, <1>9, <1>10

\* A finished command is reported once.
LEMMA ReportedOnceStep ==
    ASSUME Calm, IInv, OnceInv, Next
    PROVE  ReportedOnce'
<1> DEFINE Once(i, c, f, t, p, x) ==
               /\ c[i] <= 1 /\ (c[i] > 0 => f[i] > 0)
               /\ p = "record" /\ x = i => c[i] = 0 /\ f[i] > 0 /\ t[i] # "terminal"
               /\ t[i] = "terminal" => c[i] = 0 /\ f[i] > 0
<1>1. \A i \in Idx : Once(i, calls, finished, item, pass.pc, pass.idx)
  BY DEF OnceInv, ReportedOnce
<1>2. TypeOK  BY DEF IInv
<1>3. /\ {unissued, live, finished, calls} \subseteq [Idx -> Nat] /\ pass.idx \in Idx
      /\ item \in [Idx -> {"none", "issued", "terminal"}]
      /\ pass.out \in [Idx -> Nat]
  BY <1>2 DEF TypeOK, Pass
<1> SUFFICES ASSUME NEW i \in Idx
             PROVE  Once(i, calls', finished', item', pass'.pc, pass'.idx)
  BY DEF ReportedOnce
<1>4. Once(i, calls, finished, item, pass.pc, pass.idx)  BY <1>1
<1>5. CASE UNCHANGED <<calls, finished, item>> /\ pass'.pc # "record"
  BY <1>4, <1>5
<1>6. CASE UNCHANGED <<calls, finished, item, pass>>
  BY <1>4, <1>6
<1>7. CASE Enter \/ LoseIssue
  BY <1>6, <1>7 DEF Enter, LoseIssue
<1>8. CASE Crash \/ Commit
  BY <1>5, <1>8 DEF Crash, Commit, NoPass, commands
<1>9. CASE Count \/ Repair \/ Route \/ Continue
  <2>1. UNCHANGED <<calls, finished, item>>
    BY <1>9 DEF Count, Repair, Route, Continue, commands
  <2>2. pass'.pc # "record"
    BY <1>2, <1>9 DEF Count, Repair, Route, Continue, TypeOK, Pass
  <2> QED  BY <1>5, <2>1, <2>2
<1>10. CASE Refill \/ Reconcile
  <2>1. UNCHANGED <<calls, finished, item>>
    BY <1>10 DEF Refill, Reconcile, commands
  <2>2. Good(kv) /\ kv.scheduled >= kv.scheduled /\ NothingReplayed
    BY DEF IInv, TypeOK, CountersBounded, Good, Counters, OnceInv
  <2>3. ASSUME NEW k, Good(k), k.scheduled >= kv.scheduled, ClaimOne(k)
        PROVE  pass'.pc # "record"
    BY <1>2, <2>3, OneClaimed
  <2>4. CASE Refill
    <3>1. ClaimOne(kv)  BY <2>4 DEF Refill
    <3> QED  BY <1>5, <2>1, <2>2, <2>3, <3>1
  <2>5. CASE Reconcile
    <3>1. pass' = [pass EXCEPT !.pc = "commit"] => pass'.pc # "record"
      BY <1>2 DEF TypeOK, Pass
    <3>2. pass'.pc # "record"  BY <2>2, <2>3, <2>5, <3>1, ReconcileEffect
    <3> QED  BY <1>5, <2>1, <3>2
  <2> QED  BY <1>10, <2>4, <2>5
<1>11. CASE Record
  <2>1. UNCHANGED <<calls, finished>> /\ pass.pc = "record"
    BY <1>11 DEF Record, commands
  <2>2. pass'.pc = "count"
    BY <1>2, <1>11 DEF Record, TypeOK, Pass
  <2>3. item[pass.idx] # "terminal" /\ calls[pass.idx] = 0 /\ finished[pass.idx] > 0
    BY <1>1, <1>3, <2>1
  <2>4. item' \in {item, [item EXCEPT ![pass.idx] = "terminal"]}
    BY <1>11, <2>3 DEF Record
  <2>5. item'[i] = item[i] \/ (i = pass.idx /\ item'[i] = "terminal")
    BY <1>3, <2>4
  <2> QED  BY <1>4, <2>1, <2>2, <2>3, <2>5
<1>12. ASSUME NEW j \in Idx, Issue(j)
       PROVE  Once(i, calls', finished', item', pass'.pc, pass'.idx)
  <2>1. UNCHANGED <<calls, finished, pass>>  BY <1>12 DEF Issue
  <2>2. item'[i] = "terminal" => item[i] = "terminal"
    BY <1>3, <1>12 DEF Issue
  <2>3. item[i] = "terminal" => item'[i] = "terminal"
    BY <1>3, <1>12 DEF Issue
  <2> QED  BY <1>4, <2>1, <2>2, <2>3
<1>13. ASSUME NEW j \in Idx, Finish(j)
       PROVE  Once(i, calls', finished', item', pass'.pc, pass'.idx)
  <2>1. /\ live[j] > 0 /\ UNCHANGED <<item, pass>>
        /\ finished' = [finished EXCEPT ![j] = @ + 1]
        /\ calls' = [calls EXCEPT ![j] = @ + 1]
    BY <1>13 DEF Finish
  <2>2. finished[j] = 0
    <3>1. Held(j) <= 1  BY DEF OnceInv, HeldOnce
    <3>2. /\ unissued[j] \in Nat /\ live[j] \in Nat /\ finished[j] \in Nat
          /\ pass.out[j] \in Nat
      BY <1>3
    <3> QED  BY <2>1, <3>1, <3>2 DEF Held
  <2>3. /\ calls[j] = 0 /\ item[j] # "terminal"
        /\ ~(pass.pc = "record" /\ pass.idx = j)
    <3>1. Once(j, calls, finished, item, pass.pc, pass.idx)  BY <1>1
    <3>2. calls[j] \in Nat  BY <1>3
    <3> QED  BY <2>2, <3>1, <3>2
  <2>4. CASE i = j
    <3>1. calls'[i] = 1 /\ finished'[i] = 1  BY <1>3, <2>1, <2>2, <2>3, <2>4
    <3> QED  BY <2>1, <2>3, <2>4, <3>1
  <2>5. CASE i # j
    <3>1. calls'[i] = calls[i] /\ finished'[i] = finished[i]
      BY <1>3, <2>1, <2>5
    <3> QED  BY <1>4, <2>1, <3>1
  <2> QED  BY <2>4, <2>5
<1>14. ASSUME NEW j \in Idx, Begin(j)
       PROVE  Once(i, calls', finished', item', pass'.pc, pass'.idx)
  <2>1. /\ calls[j] > 0 /\ UNCHANGED <<item, finished>>
        /\ calls' = [calls EXCEPT ![j] = @ - 1]
    BY <1>14 DEF Begin
  <2>2. pass'.pc = "record" => pass'.idx = j
    BY <1>14 DEF Begin, NoPass
  <2>3. calls[j] = 1 /\ finished[j] > 0 /\ item[j] # "terminal"
    <3>1. Once(j, calls, finished, item, pass.pc, pass.idx)  BY <1>1
    <3>2. calls[j] \in Nat  BY <1>3
    <3> QED  BY <2>1, <3>1, <3>2
  <2>4. CASE i = j
    <3>1. calls'[i] = 0  BY <1>3, <2>1, <2>3, <2>4
    <3> QED  BY <2>1, <2>3, <2>4, <3>1
  <2>5. CASE i # j
    <3>1. calls'[i] = calls[i]  BY <1>3, <2>1, <2>5
    <3> QED  BY <1>4, <2>1, <2>2, <2>5, <3>1
  <2> QED  BY <2>4, <2>5
<1> HIDE DEF Once
<1> QED
  BY <1>7, <1>8, <1>9, <1>10, <1>11, <1>12, <1>13, <1>14 DEF Next, PassStep

\* Every pass wins its claim and counts its iteration.
LEMMA PassProgressesStep ==
    ASSUME Careful, IInv, OnceInv, Next
    PROVE  PassProgresses'
<1>1. TypeOK /\ PassProgresses /\ NothingReplayed /\ ~Fault("kv")
  BY CarefulFacts, CarefulProgress DEF IInv, OnceInv
<1>2. CASE UNCHANGED pass  BY <1>1, <1>2 DEF PassProgresses
<1>3. CASE pass' = NoPass  BY <1>3 DEF PassProgresses, NoPass
<1>4. CASE Record
  <2>1. item[pass.idx] # "terminal"
    BY <1>1, <1>4 DEF Record, OnceInv, ReportedOnce, TypeOK, Pass
  <2>2. pass' = [pass EXCEPT !.pc = "count", !.claim = "won", !.results = @ + 1]
    BY <1>1, <1>4, <2>1 DEF Record
  <2> QED  BY <1>1, <2>2 DEF PassProgresses, TypeOK, Pass
<1>5. CASE Count
  <2>1. pass.claim = "won"  BY <1>1, <1>5 DEF Count, PassProgresses
  <2>2. pass' = [pass EXCEPT !.pc = "repair", !.progressed = TRUE,
                             !.count = kv.completed + 1]
    BY <1>1, <1>5, <2>1 DEF Count
  <2> QED  BY <1>1, <2>2 DEF PassProgresses, TypeOK, Pass
<1>6. CASE Repair \/ Continue
  <2>1. pass.progressed  BY <1>1, <1>6 DEF Repair, Continue, PassProgresses
  <2>2. pass'.progressed /\ pass'.pc # "count"
    BY <1>1, <1>6, <2>1 DEF Repair, Continue, TypeOK, Pass
  <2> QED  BY <2>2 DEF PassProgresses
<1>7. CASE Route
  <2>1. pass'.pc = "commit"  BY <1>1, <1>7 DEF Route, TypeOK, Pass
  <2> QED  BY <2>1 DEF PassProgresses
<1>8. ASSUME NEW k, Good(k), k.scheduled >= kv.scheduled, ClaimOne(k)
      PROVE  PassProgresses'
  BY <1>1, <1>8, OneClaimed DEF PassProgresses
<1>9. CASE Refill
  <2>1. ClaimOne(kv) /\ Good(kv) /\ kv.scheduled >= kv.scheduled
    BY <1>9 DEF Refill, IInv, TypeOK, CountersBounded, Good, Counters
  <2> QED  BY <1>8, <2>1
<1>10. CASE Reconcile
  <2>1. pass' = [pass EXCEPT !.pc = "commit"] => PassProgresses'
    BY <1>1 DEF PassProgresses, TypeOK, Pass
  <2> QED  BY <1>1, <1>8, <1>10, <2>1, ReconcileEffect
<1>11. CASE Enter \/ LoseIssue  BY <1>2, <1>11 DEF Enter, LoseIssue
<1>12. CASE Commit \/ Crash  BY <1>3, <1>12 DEF Commit, Crash
<1>13. ASSUME NEW i \in Idx, Issue(i) \/ Finish(i)  PROVE PassProgresses'
  BY <1>2, <1>13 DEF Issue, Finish
<1>14. ASSUME NEW i \in Idx, Begin(i)  PROVE PassProgresses'
  <2>1. pass'.pc \in {"idle", "record"}  BY <1>14 DEF Begin, NoPass
  <2> QED  BY <2>1 DEF PassProgresses
<1> QED
  BY <1>4, <1>5, <1>6, <1>7, <1>9, <1>10, <1>11, <1>12, <1>13, <1>14 DEF Next, PassStep

LEMMA OnceInitInv == Init => OnceInv
<1> SUFFICES ASSUME Init  PROVE OnceInv
  OBVIOUS
<1>1. kv.scheduled = 0 /\ \A i \in Idx : i >= 0
  BY LoopAssumption DEF Init, Fresh, Idx
<1>2. \A i \in Idx : Held(i) = 0
  BY DEF Init, Held, Zero, NoPass
<1>3. HeldOnce  BY <1>2 DEF HeldOnce
<1>4. ReportedOnce  BY DEF Init, ReportedOnce, Zero, NoPass
<1>5. PassProgresses  BY DEF Init, PassProgresses, NoPass
<1>6. Issued = {}  BY DEF Init, Issued
<1> QED  BY <1>3, <1>4, <1>5, <1>6 DEF OnceInv, NothingReplayed

\* The supervisor of a loop that /execute has not entered sees nothing of it.
LEMMA NothingReplayedStep ==
    ASSUME Calm, IInv, OnceInv, Next
    PROVE  NothingReplayed'
<1>1. CASE "kv" \notin FaultKinds
  <2>1. Careful  BY <1>1 DEF Calm, Careful
  <2>2. PassProgresses'  BY <2>1, PassProgressesStep
  <2> QED  BY <1>1, <2>2 DEF NothingReplayed
<1>2. CASE "kv" \in FaultKinds
  <2> SUFFICES Issued' = {}  BY <1>2 DEF NothingReplayed
  <2>1. ~FirstStep /\ Issued = {} /\ item \in [Idx -> {"none", "issued", "terminal"}]
    BY <1>2 DEF Calm, OnceInv, NothingReplayed, IInv, TypeOK
  <2>2. CASE UNCHANGED item  BY <2>1, <2>2 DEF Issued
  <2>3. CASE Record  BY <2>1, <2>3 DEF Record, Issued
  <2>4. ASSUME NEW j \in Idx, Issue(j) \/ Finish(j) \/ Begin(j)  PROVE UNCHANGED item
    BY <2>1, <2>4 DEF Issue, Finish, Begin
  <2> QED
    BY <2>2, <2>3, <2>4 DEF Next, PassStep, Enter, LoseIssue, Crash, Count, Repair,
       Route, Continue, Refill, Reconcile, Commit
<1> QED  BY <1>1, <1>2

LEMMA OnceNextInv == ASSUME Calm PROVE IInv /\ OnceInv /\ [Next]_vars => OnceInv'
<1> SUFFICES ASSUME IInv, OnceInv, [Next]_vars  PROVE OnceInv'
  OBVIOUS
<1>1. CASE Next
  BY <1>1, HeldOnceStep, ReportedOnceStep, NothingReplayedStep DEF OnceInv
<1>2. CASE UNCHANGED vars
  <2>1. \A i \in Idx : Held(i)' = Held(i)  BY <1>2 DEF vars, Held
  <2>2. HeldOnce'  BY <1>2, <2>1 DEF vars, OnceInv, HeldOnce
  <2>3. ReportedOnce' /\ NothingReplayed'
    BY <1>2 DEF vars, OnceInv, ReportedOnce, NothingReplayed, Issued, PassProgresses
  <2> QED  BY <2>2, <2>3 DEF OnceInv
<1> QED  BY <1>1, <1>2

-----------------------------------------------------------------------------
\* With the tail repair and the watchdog at work, and with any failures: whoever
\* gives an index that was claimed a command of its own notes the index, and does
\* not do it again unless the note is lost.

\* The indexes that were repaired or replayed, as the next pass will find them.
Noted == IF pass.pc = "idle" THEN state.repaired ELSE pass.repaired

\* One command for the claim, one for the note, one for each failure.
Share(i) == (IF i < kv.scheduled THEN 1 ELSE 0) + (IF i \in Noted THEN 1 ELSE 0) + faults

HeldTwice == \A i \in Idx : Held(i) <= Share(i)

LEMMA HeldTwiceStep ==
    ASSUME IInv, HeldTwice, Next
    PROVE  HeldTwice'
<1> SUFFICES ASSUME NEW i \in Idx  PROVE Held(i)' <= Share(i)'
  BY DEF HeldTwice
<1> DEFINE m == i \in Noted
           l == i \in Noted'
<1>1. /\ TypeOK /\ Good(kv) /\ pass \in Pass
      /\ {unissued, live, finished, calls} \subseteq [Idx -> Nat]
      /\ pass.out \in [Idx -> Nat]
      /\ i \in Nat /\ kv.scheduled \in Nat /\ faults \in Nat
  <2>1. TypeOK /\ CountersBounded  BY DEF IInv
  <2>2. Good(kv)  BY <2>1 DEF TypeOK, CountersBounded, Good
  <2>3. /\ pass \in Pass
        /\ {unissued, live, finished, calls} \subseteq [Idx -> Nat]
    BY <2>1 DEF TypeOK
  <2>4. pass.out \in [Idx -> Nat]  BY <2>3 DEF Pass
  <2>5. i \in Nat  BY LoopAssumption DEF Idx
  <2>6. kv.scheduled \in Nat  BY <2>2 DEF Good, Counters
  <2>7. faults \in Nat  BY <2>1, CoordinationAssumption DEF TypeOK
  <2> QED  BY <2>1, <2>2, <2>3, <2>4, <2>5, <2>6, <2>7
<1>2. /\ unissued[i] \in Nat /\ live[i] \in Nat /\ finished[i] \in Nat
      /\ pass.out[i] \in Nat /\ Zero[i] = 0 /\ Held(i) \in Nat
  BY <1>1 DEF Zero, Held
<1>3. /\ kv'.scheduled \in Nat /\ kv'.scheduled >= kv.scheduled
      /\ faults' \in Nat /\ Held(i)' \in Nat
  <2>1. IInv'  BY NextIInv
  <2>2. Good(kv') /\ Later(kv, kv')  BY <1>1, CountersStep DEF IInv
  <2>3. {unissued', live', finished'} \subseteq [Idx -> Nat] /\ pass'.out \in [Idx -> Nat]
    BY <2>1 DEF IInv, TypeOK, Pass
  <2>4. /\ unissued'[i] \in Nat /\ live'[i] \in Nat /\ finished'[i] \in Nat
        /\ pass'.out[i] \in Nat
    BY <2>3
  <2>5. Held(i)' \in Nat  BY <2>4 DEF Held
  <2>6. faults' \in Nat  BY <2>1, CoordinationAssumption DEF IInv, TypeOK
  <2> QED  BY <2>2, <2>5, <2>6 DEF Good, Counters, Later
<1>4. Held(i) <= (IF i < kv.scheduled THEN 1 ELSE 0) + (IF m THEN 1 ELSE 0) + faults
  BY DEF HeldTwice, Share
<1> HIDE DEF m, l
<1>5. faults' >= faults
  <2>1. faults' = faults \/ faults' = faults + 1
    BY DEF Next, PassStep, Enter, LoseIssue, Crash, Record, Count, Repair, Route,
       Continue, Refill, Reconcile, Commit, Issue, Finish, Begin, Fault
  <2> QED  BY <1>1, <2>1
\* What a step may add to an index, and what it keeps.
<1>6. ASSUME \/ Held(i)' <= Held(i) /\ (m => l)
             \/ Held(i)' <= Held(i) /\ faults' = faults + 1
             \/ Held(i)' <= Held(i) + 1 /\ (m => l)
                /\ i >= kv.scheduled /\ i < kv'.scheduled
             \/ Held(i)' <= Held(i) + 1 /\ l /\ ~m
      PROVE  Held(i)' <= Share(i)'
  <2>1. Share(i)' = (IF i < kv'.scheduled THEN 1 ELSE 0) + (IF l THEN 1 ELSE 0) + faults'
    BY DEF Share, l
  <2>2. Held(i)' <= (IF i < kv'.scheduled THEN 1 ELSE 0) + (IF l THEN 1 ELSE 0) + faults'
    BY <1>1, <1>2, <1>3, <1>4, <1>5, <1>6
  <2> QED  BY <2>1, <2>2
<1>7. CASE Enter
  <2>1. /\ kv = Fresh /\ unissued[i] = 0 /\ UNCHANGED <<live, finished, pass>>
    BY <1>2, <1>7 DEF Enter, IInv, NotBegun
  <2> DEFINE S == 0 .. Slots(Fresh) - 1
  <2>2. unissued' = PlusOne(Zero, S)  BY <1>7 DEF Enter
  <2> HIDE DEF S
  <2>3. unissued'[i] = IF i \in S THEN 1 ELSE 0  BY <1>2, <2>2, PlusOneAt, ZeroType
  <2>4. Slots(Fresh) \in Nat  BY FreshGood, SlotsFit DEF Good
  <2>5. kv.scheduled = 0 /\ kv'.scheduled = Slots(Fresh)
    BY <1>7, <2>1, <2>4 DEF Enter, Claim, Fresh
  <2>6. i \in S => i < kv'.scheduled  BY <1>1, <2>4, <2>5 DEF S
  <2>7. Held(i)' = Held(i) + unissued'[i]
    BY <1>2, <2>1, <2>3 DEF Held
  <2>8. m => l  BY <1>7, <2>1 DEF Enter, Noted, m, l
  <2> QED  BY <1>1, <1>2, <1>3, <1>6, <2>3, <2>5, <2>6, <2>7, <2>8
<1>8. UNCHANGED <<pass, state>> => (m => l)  BY DEF Noted, m, l
<1>9. ASSUME NEW j \in Idx, Issue(j) \/ Finish(j) \/ Begin(j)
      PROVE  Held(i)' <= Share(i)'
  <2>1. CASE Issue(j)
    <3>1. /\ unissued[j] > 0 /\ unissued[j] \in Nat /\ live[j] \in Nat
          /\ unissued' = [unissued EXCEPT ![j] = @ - 1]
          /\ live' = [live EXCEPT ![j] = @ + 1] /\ UNCHANGED <<finished, pass, state>>
      BY <1>1, <2>1 DEF Issue
    <3>2. /\ unissued'[i] + live'[i] = unissued[i] + live[i]
          /\ unissued'[i] \in Nat /\ live'[i] \in Nat
      BY <1>1, <1>2, <3>1
    <3>3. Held(i)' = Held(i)  BY <1>2, <3>1, <3>2 DEF Held
    <3> QED  BY <1>2, <1>6, <1>8, <3>1, <3>3
  <2>2. CASE Finish(j)
    <3>1. /\ live[j] > 0 /\ finished[j] \in Nat /\ live[j] \in Nat
          /\ live' = [live EXCEPT ![j] = @ - 1]
          /\ finished' = [finished EXCEPT ![j] = @ + 1]
          /\ UNCHANGED <<unissued, pass, state>>
      BY <1>1, <2>2 DEF Finish
    <3>2. /\ finished'[i] + live'[i] = finished[i] + live[i]
          /\ finished'[i] \in Nat /\ live'[i] \in Nat
      BY <1>1, <1>2, <3>1
    <3>3. Held(i)' = Held(i)  BY <1>2, <3>1, <3>2 DEF Held
    <3> QED  BY <1>2, <1>6, <1>8, <3>1, <3>3
  <2>3. CASE Begin(j)
    <3>1. /\ UNCHANGED <<unissued, live, finished, state>> /\ pass'.out = Zero
          /\ pass.pc = "idle"
          /\ \/ pass'.pc = "idle"
             \/ pass'.pc # "idle" /\ pass'.repaired = state.repaired
      BY <2>3 DEF Begin, NoPass
    <3>2. Held(i)' <= Held(i)  BY <1>2, <3>1 DEF Held
    <3>3. m => l  BY <3>1 DEF Noted, m, l
    <3> QED  BY <1>6, <3>2, <3>3
  <2> QED  BY <1>9, <2>1, <2>2, <2>3
<1>10. CASE LoseIssue
  <2>1. /\ unissued'[i] \in {0, unissued[i]} /\ UNCHANGED <<live, finished, pass>>
        /\ faults' = faults + 1
    BY <1>10 DEF LoseIssue, Fault
  <2>2. Held(i)' <= Held(i)  BY <1>2, <2>1 DEF Held
  <2> QED  BY <1>6, <2>1, <2>2
<1>11. CASE Crash
  <2>1. /\ UNCHANGED <<unissued, live, finished>> /\ pass'.out = Zero
        /\ faults' = faults + 1
    BY <1>11 DEF Crash, NoPass, commands, Fault
  <2>2. Held(i)' <= Held(i)  BY <1>2, <2>1 DEF Held
  <2> QED  BY <1>6, <2>1, <2>2
<1>12. CASE Commit
  <2>1. /\ UNCHANGED <<live, finished>> /\ pass'.out = Zero
        /\ unissued'[i] = unissued[i] + pass.out[i]
        /\ pass.pc # "idle" /\ pass'.pc = "idle"
    BY <1>12 DEF Commit, NoPass
  <2>2. Held(i)' <= Held(i)  BY <1>2, <2>1 DEF Held
  <2>3. state'.repaired = pass.repaired \/ faults' = faults + 1
    BY <1>1, <1>12 DEF Commit, Fault, TypeOK
  <2>4. state'.repaired = pass.repaired => (m => l)  BY <2>1 DEF Noted, m, l
  <2> QED  BY <1>6, <2>2, <2>3, <2>4
\* The other steps of a pass.
<1>13. ASSUME pass.pc # "idle", pass'.pc # "idle", UNCHANGED <<unissued, live, finished>>,
              pass'.repaired = pass.repaired, pass'.out = pass.out
       PROVE  Held(i)' <= Share(i)'
  <2>1. Held(i)' <= Held(i)  BY <1>2, <1>13 DEF Held
  <2>2. m => l  BY <1>13 DEF Noted, m, l
  <2> QED  BY <1>6, <2>1, <2>2
<1>14. CASE Record \/ Count \/ Route
  <2>1. UNCHANGED <<unissued, live, finished>> /\ pass.pc # "idle"
    BY <1>14 DEF Record, Count, Route, commands
  <2>2. pass'.out = pass.out /\ pass'.repaired = pass.repaired /\ pass'.pc # "idle"
    BY <1>1, <1>14 DEF Record, Count, Route, Pass
  <2> QED  BY <1>13, <2>1, <2>2
<1>15. CASE Repair
  <2>1. /\ UNCHANGED <<unissued, live, finished>> /\ pass.pc # "idle" /\ pass'.pc # "idle"
        /\ pass'.out = PlusOne(pass.out, TailMissing)
        /\ pass'.repaired = pass.repaired \cup TailMissing
    BY <1>1, <1>15 DEF Repair, commands, Pass
  <2>2. pass'.out[i] = IF i \in TailMissing THEN pass.out[i] + 1 ELSE pass.out[i]
    BY <1>1, <2>1, PlusOneAt
  <2>3. i \in TailMissing => i \notin pass.repaired  BY DEF TailMissing
  <2>4. /\ (m <=> i \in pass.repaired)
        /\ (l <=> i \in pass.repaired \/ i \in TailMissing)
    BY <2>1 DEF Noted, m, l
  <2>5. CASE i \in TailMissing
    <3>1. Held(i)' <= Held(i) + 1  BY <1>2, <2>1, <2>2, <2>5 DEF Held
    <3> QED  BY <1>6, <2>3, <2>4, <2>5, <3>1
  <2>6. CASE i \notin TailMissing
    <3>1. Held(i)' <= Held(i)  BY <1>2, <2>1, <2>2, <2>6 DEF Held
    <3> QED  BY <1>6, <2>4, <3>1
  <2> QED  BY <2>5, <2>6
<1>16. CASE Continue
  <2>1. UNCHANGED <<unissued, live, finished>> /\ pass.pc # "idle"
    BY <1>16 DEF Continue, commands
  <2>2. Slots(kv) \in Nat  BY <1>1, SlotsFit DEF Good
  <2>3. pass'.pc # "idle" /\ pass'.repaired = pass.repaired
    BY <1>1, <1>16 DEF Continue, Pass
  <2>4. CASE pass'.out = pass.out  BY <1>13, <2>1, <2>3, <2>4
  <2>5. CASE /\ kv' = Claim(kv, Slots(kv))
             /\ pass'.out = PlusOne(pass.out, kv.scheduled .. kv.scheduled + Slots(kv) - 1)
    <3>1. kv'.scheduled = kv.scheduled + Slots(kv)
      BY <1>1, <2>2, <2>5 DEF Claim, Good, Counters
    <3> DEFINE S == kv.scheduled .. kv.scheduled + Slots(kv) - 1
    <3>2. i \in S => kv.scheduled <= i /\ i < kv'.scheduled
      BY <1>1, <2>2, <3>1
    <3>3. pass'.out = PlusOne(pass.out, S)  BY <2>5
    <3> HIDE DEF S
    <3>4. pass'.out[i] = IF i \in S THEN pass.out[i] + 1 ELSE pass.out[i]
      BY <1>1, <3>3, PlusOneAt
    <3>5. m => l  BY <2>1, <2>3 DEF Noted, m, l
    <3>6. CASE i \in S
      <4>1. Held(i)' <= Held(i) + 1  BY <1>2, <2>1, <3>4, <3>6 DEF Held
      <4> QED  BY <1>1, <1>6, <3>2, <3>5, <3>6, <4>1
    <3>7. CASE i \notin S
      <4>1. Held(i)' <= Held(i)  BY <1>2, <2>1, <3>4, <3>7 DEF Held
      <4> QED  BY <1>6, <3>5, <4>1
    <3> QED  BY <3>6, <3>7
  <2> QED  BY <1>1, <1>16, <2>4, <2>5 DEF Continue, Pass
<1>17. ASSUME NEW k, Good(k), k.scheduled >= kv.scheduled, ClaimOne(k), pass.pc # "idle",
              UNCHANGED <<unissued, live, finished>>
       PROVE  Held(i)' <= Share(i)'
  <2>1. /\ pass'.out = PlusOne(pass.out, {k.scheduled}) /\ kv'.scheduled = k.scheduled + 1
        /\ pass'.pc # "idle"
    BY <1>1, <1>17, OneClaimed
  <2>2. pass'.repaired = pass.repaired  BY <1>1, <1>17 DEF ClaimOne, With, Pass
  <2>3. k.scheduled \in Nat  BY <1>17 DEF Good, Counters
  <2>4. pass'.out[i] = IF i \in {k.scheduled} THEN pass.out[i] + 1 ELSE pass.out[i]
    BY <1>1, <2>1, PlusOneAt
  <2>5. m => l  BY <1>17, <2>1, <2>2 DEF Noted, m, l
  <2>6. CASE i = k.scheduled
    <3>1. Held(i)' <= Held(i) + 1  BY <1>2, <1>17, <2>4, <2>6 DEF Held
    <3> QED  BY <1>1, <1>6, <1>17, <2>1, <2>3, <2>5, <2>6, <3>1
  <2>7. CASE i # k.scheduled
    <3>1. Held(i)' <= Held(i)  BY <1>2, <1>17, <2>4, <2>7 DEF Held
    <3> QED  BY <1>6, <2>5, <3>1
  <2> QED  BY <2>6, <2>7
<1>18. CASE Refill
  <2>1. UNCHANGED <<unissued, live, finished>> /\ ClaimOne(kv) /\ pass.pc # "idle"
    BY <1>18 DEF Refill, commands
  <2>2. kv.scheduled >= kv.scheduled  BY <1>1
  <2> QED  BY <1>1, <1>17, <2>1, <2>2
<1>19. ASSUME NEW k, Replay(k), pass.pc = "refill", UNCHANGED <<unissued, live, finished>>
       PROVE  Held(i)' <= Share(i)'
  <2>1. PICK j \in Orphans(k) :
            pass' = [With(j) EXCEPT !.replayed = TRUE, !.repaired = @ \cup {j}]
    BY <1>19 DEF Replay
  <2>2. j \notin pass.repaired  BY DEF Orphans
  <2>3. /\ pass'.out = PlusOne(pass.out, {j}) /\ pass'.pc # "idle"
        /\ pass'.repaired = pass.repaired \cup {j}
    BY <1>1, <2>1 DEF With, Pass
  <2>4. pass'.out[i] = IF i \in {j} THEN pass.out[i] + 1 ELSE pass.out[i]
    BY <1>1, <2>3, PlusOneAt
  <2>5. (m <=> i \in pass.repaired) /\ (l <=> i \in pass.repaired \/ i = j)
    BY <1>19, <2>3 DEF Noted, m, l
  <2>6. CASE i = j
    <3>1. Held(i)' <= Held(i) + 1  BY <1>2, <1>19, <2>4, <2>6 DEF Held
    <3> QED  BY <1>6, <2>2, <2>5, <2>6, <3>1
  <2>7. CASE i # j
    <3>1. Held(i)' <= Held(i)  BY <1>2, <1>19, <2>4, <2>7 DEF Held
    <3> QED  BY <1>6, <2>5, <3>1
  <2> QED  BY <2>6, <2>7
<1>20. CASE Reconcile
  <2>1. UNCHANGED <<unissued, live, finished>> /\ pass.pc = "refill"
    BY <1>20 DEF Reconcile, commands
  <2>2. ASSUME NEW k, NoneLeft(k)  PROVE Held(i)' <= Share(i)'
    <3>1. pass'.pc # "idle" /\ pass'.repaired = pass.repaired /\ pass'.out = pass.out
      BY <1>1, <2>2 DEF NoneLeft, Pass
    <3> QED  BY <1>13, <2>1, <3>1
  <2>3. ASSUME NEW b \in MayReadRows, ClaimOne(Reconciled(b))
        PROVE  Held(i)' <= Share(i)'
    <3>1. b \in BOOLEAN  BY DEF MayReadRows
    <3>2. Good(Reconciled(b)) /\ Later(kv, Reconciled(b))
      BY <1>1, <2>1, <3>1, ReconciledGood
    <3> HIDE DEF Reconciled
    <3>3. Reconciled(b).scheduled >= kv.scheduled  BY <3>2 DEF Later
    <3> QED  BY <1>17, <2>1, <2>3, <3>2, <3>3
  <2> QED  BY <1>19, <1>20, <2>1, <2>2, <2>3 DEF Reconcile
<1> QED
  BY <1>7, <1>9, <1>10, <1>11, <1>12, <1>14, <1>15, <1>16, <1>18, <1>20 DEF Next, PassStep

LEMMA HeldTwiceInv ==
    /\ Init => HeldTwice
    /\ IInv /\ HeldTwice /\ [Next]_vars => HeldTwice'
<1>1. ASSUME Init  PROVE HeldTwice
  <2>1. faults = 0 /\ \A i \in Idx : Held(i) = 0
    BY <1>1 DEF Init, Held, Zero, NoPass
  <2> QED  BY <2>1 DEF HeldTwice, Share
<1>2. ASSUME IInv, HeldTwice, UNCHANGED vars  PROVE HeldTwice'
  <2>1. \A i \in Idx : Held(i)' = Held(i) /\ Share(i)' = Share(i)
    BY <1>2 DEF vars, Held, Share, Noted
  <2> QED  BY <1>2, <2>1 DEF HeldTwice
<1> QED  BY <1>1, <1>2, HeldTwiceStep

\* With the tail repair, the watchdog and every failure of K/V and of
\* transactions: an index of the collection has at most one command for its
\* claim and one for its repair or replay, and one more for each failure.
RepeatsBounded == \A i \in Idx : unissued[i] + live[i] + finished[i] <= 2 + faults

-----------------------------------------------------------------------------
\* The limit on commands, and the promise.  The record is right about the loop as
\* long as it counts no completion that was not recorded; only the rows of
\* finished commands, which a pass reads when it finds nothing to claim, can
\* raise it further, and by then every index has been claimed.

\* A recorded iteration is counted in the pass that recorded it.
Won == IF pass.pc = "count" THEN 1 ELSE 0

\* Whatever is counted was recorded, for an index of its own.
Backed == kv.completed + Won <= Cardinality(Terminals)

\* A pass that has counted leaves room for a claim, and finds none only when all
\* indexes are claimed.
PassKnows ==
    /\ pass.pc \in {"repair", "continue", "refill"} => InFlight(kv) < MaxInFlight
    /\ pass.pc = "refill" => kv.scheduled >= Size
    /\ pass.pc \in {"repair", "route", "continue"} => pass.count = kv.completed

\* Indexes with a command that is not finished, in or outside a pass.
Owed == {i \in Idx : unissued[i] + live[i] + pass.out[i] > 0}

LimitInv == /\ PassKnows
            /\ kv.scheduled < Size => Backed
            /\ Cardinality(Owed) <= MaxInFlight

Claimed == {i \in Idx : i < kv.scheduled}

LEMMA LoopFacts ==
    ASSUME IInv
    PROVE  /\ TypeOK /\ kv \in Counters /\ pass \in Pass /\ routed \in Nat
           /\ kv.completed \in Nat /\ kv.scheduled \in Nat
           /\ {unissued, live, finished, calls} \subseteq [Idx -> Nat]
           /\ pass.out \in [Idx -> Nat]
           /\ Size \in Nat \ {0} /\ Idx \subseteq Nat /\ \A i \in Idx : i < Size
           /\ \A i \in Idx : Zero[i] = 0
           /\ Good(kv)
<1>1. TypeOK /\ kv \in Counters /\ pass \in Pass /\ routed \in Nat  BY DEF IInv, TypeOK
<1>2. kv.completed \in Nat /\ kv.scheduled \in Nat /\ pass.out \in [Idx -> Nat]
  BY <1>1 DEF Counters, Pass
<1>3. {unissued, live, finished, calls} \subseteq [Idx -> Nat]  BY <1>1 DEF TypeOK
<1>4. Size \in Nat \ {0} /\ Idx \subseteq Nat /\ \A i \in Idx : i < Size
  BY LoopAssumption DEF Idx
<1>5. \A i \in Idx : Zero[i] = 0  BY DEF Zero
<1>6. Good(kv)  BY <1>1 DEF IInv, CountersBounded, Good
<1> QED  BY <1>1, <1>2, <1>3, <1>4, <1>5, <1>6

\* As many recorded iterations as the collection has items are all of them.
LEMMA IdxSize == Cardinality(Idx) = Size
<1>1. ~ (0 > Size - 1) /\ Size - 1 - 0 + 1 = Size  BY LoopAssumption
<1> QED  BY <1>1, LoopAssumption, FS_Interval DEF Idx

LEMMA AllOf ==
    ASSUME NEW S \in SUBSET Idx, Cardinality(S) >= Size
    PROVE  S = Idx
<1>1. /\ IsFiniteSet(S) /\ Cardinality(S) <= Cardinality(Idx)
      /\ Cardinality(Idx) = Cardinality(S) => Idx = S
  BY IdxFacts, FS_Subset
<1>2. Cardinality(S) \in Nat  BY <1>1, FS_CardinalityType
<1> QED  BY <1>1, <1>2, IdxSize, LoopAssumption

\* A recorded iteration stays recorded.
LEMMA TerminalsStay ==
    ASSUME IInv, Next
    PROVE  /\ Terminals \subseteq Terminals'
           /\ IsFiniteSet(Terminals')
           /\ Cardinality(Terminals') \in Nat
           /\ Cardinality(Terminals) \in Nat
           /\ Cardinality(Terminals) <= Cardinality(Terminals')
<1>0. item \in [Idx -> {"none", "issued", "terminal"}]  BY LoopFacts DEF TypeOK
<1>5. Terminals \subseteq Terminals'
  <2>1. CASE UNCHANGED item  BY <2>1 DEF Terminals
  <2>2. CASE Record  BY <1>0, <2>2 DEF Record, Terminals
  <2>3. ASSUME NEW j \in Idx, Issue(j)  PROVE Terminals \subseteq Terminals'
    BY <1>0, <2>3 DEF Issue, Terminals
  <2>4. ASSUME NEW j \in Idx, Finish(j) \/ Begin(j)  PROVE Terminals \subseteq Terminals'
    BY <2>1, <2>4 DEF Finish, Begin
  <2> QED
    BY <2>1, <2>2, <2>3, <2>4 DEF Next, PassStep, Enter, LoseIssue, Crash, Count, Repair,
       Route, Continue, Refill, Reconcile, Commit
<1>6. Terminals' \subseteq Idx  BY DEF Terminals
<1>7. IsFiniteSet(Terminals')  BY <1>6, IdxFacts, FS_Subset
<1> QED  BY <1>5, <1>7, FS_Subset, FS_CardinalityType, TerminalsFinite

\* Refills find nothing to claim.
LEMMA NoLateRefill ==
    ASSUME IInv, PassKnows, Refill  PROVE FALSE
<1>1. kv.scheduled >= Size /\ Slots(kv) > 0  BY DEF PassKnows, Refill
<1>2. Slots(kv) \in Nat /\ Slots(kv) + kv.scheduled <= Size
  BY <1>1, LoopFacts, SlotsFit DEF Good
<1> QED  BY <1>1, <1>2, LoopFacts

\* A reconciliation only changes the record, and the pass commits.
LEMMA LateReconcile ==
    ASSUME Careful, IInv, OnceInv, PassKnows, Reconcile
    PROVE  /\ kv' = kv \/ \E b \in BOOLEAN : kv' = Reconciled(b) /\ Parked(kv)
           /\ pass' = [pass EXCEPT !.pc = "commit"]
           /\ kv'.scheduled >= Size /\ kv'.completed \in Nat
<1>1. /\ pass.pc = "refill" /\ pass.progressed /\ kv.scheduled >= Size
      /\ Good(kv) /\ TypeOK /\ kv.completed \in Nat
  BY LoopFacts, CarefulProgress DEF Reconcile, PassProgresses, PassKnows
<1>2. \A k : ~Replay(k)  BY <1>1 DEF Replay
<1>3. CASE ~Parked(kv) /\ NoneLeft(kv)
  BY <1>1, <1>3 DEF NoneLeft
<1>4. ASSUME NEW b \in MayReadRows, Parked(kv),
             \/ Slots(Reconciled(b)) > 0 /\ ClaimOne(Reconciled(b))
             \/ NoneLeft(Reconciled(b))
      PROVE  /\ \E c \in BOOLEAN : kv' = Reconciled(c) /\ Parked(kv)
             /\ pass' = [pass EXCEPT !.pc = "commit"]
             /\ kv'.scheduled >= Size /\ kv'.completed \in Nat
  <2>1. b \in BOOLEAN  BY DEF MayReadRows
  <2>2. Good(Reconciled(b)) /\ Later(kv, Reconciled(b))
    BY <1>1, <2>1, ReconciledGood
  <2> HIDE DEF Reconciled
  <2>3. Reconciled(b).scheduled >= Size /\ Reconciled(b).scheduled \in Nat
        /\ Reconciled(b).completed \in Nat
    BY <1>1, <2>2, LoopFacts DEF Later, Good, Counters
  <2>4. ~ (Slots(Reconciled(b)) > 0)
    <3>1. Slots(Reconciled(b)) \in Nat
          /\ (Slots(Reconciled(b)) > 0 =>
                Slots(Reconciled(b)) + Reconciled(b).scheduled <= Size)
      BY <2>2, SlotsFit DEF Good
    <3> QED  BY <2>3, <3>1, LoopFacts
  <2>5. NoneLeft(Reconciled(b))  BY <1>4, <2>4
  <2> QED  BY <1>4, <2>1, <2>3, <2>5 DEF NoneLeft
<1> QED  BY <1>2, <1>3, <1>4 DEF Reconcile

\* Only a reconciliation takes the record past what was recorded.
LEMMA BackedStep ==
    ASSUME Careful, IInv, OnceInv, Next, ~Reconcile, Backed
    PROVE  Backed'
<1>0. /\ TypeOK /\ pass \in Pass /\ kv \in Counters /\ kv.completed \in Nat
      /\ ~Fault("kv") /\ Won \in {0, 1}
  BY LoopFacts, CarefulFacts DEF Won
<1>1. /\ Cardinality(Terminals) \in Nat /\ Cardinality(Terminals') \in Nat
      /\ Cardinality(Terminals) <= Cardinality(Terminals')
  BY TerminalsStay
<1>2. CASE kv'.completed = kv.completed /\ Won' <= Won /\ Won' \in {0, 1}
  BY <1>0, <1>1, <1>2 DEF Backed
<1>3. CASE Enter
  <2>1. kv = Fresh /\ pass.pc = "idle" /\ kv' = Claim(Fresh, Slots(Fresh)) /\ pass' = pass
    BY <1>3 DEF Enter, IInv, NotBegun
  <2>2. kv'.completed = 0 /\ Won' = 0  BY <2>1 DEF Claim, Fresh, Won
  <2> QED  BY <1>1, <2>2 DEF Backed
<1>4. CASE Record
  <2>1. item[pass.idx] # "terminal" /\ pass.pc = "record" /\ pass.idx \in Idx
    BY <1>0, <1>4 DEF Record, OnceInv, ReportedOnce, Pass
  <2>2. /\ kv' = kv /\ item' = [item EXCEPT ![pass.idx] = "terminal"]
        /\ pass' = [pass EXCEPT !.pc = "count", !.claim = "won", !.results = @ + 1]
    BY <1>0, <1>4, <2>1 DEF Record
  <2>3. Won = 0 /\ Won' = 1  BY <1>0, <2>1, <2>2 DEF Won, Pass
  <2>4. Terminals' = Terminals \cup {pass.idx} /\ pass.idx \notin Terminals
    BY <1>0, <2>1, <2>2 DEF Terminals, TypeOK
  <2>5. Cardinality(Terminals') = Cardinality(Terminals) + 1
    BY <2>4, TerminalsFinite, FS_AddElement
  <2> QED  BY <1>0, <1>1, <2>2, <2>3, <2>5 DEF Backed
<1>5. CASE Count
  <2>1. pass.claim = "won" /\ pass.pc = "count"  BY <1>5, CarefulProgress DEF Count, PassProgresses
  <2>2. /\ kv' = Increment(kv)
        /\ pass' = [pass EXCEPT !.pc = "repair", !.progressed = TRUE,
                                !.count = kv.completed + 1]
    BY <1>0, <1>5, <2>1 DEF Count
  <2>3. kv'.completed = kv.completed + 1  BY <1>0, <2>2 DEF Increment, Counters
  <2>4. Won = 1 /\ Won' = 0  BY <1>0, <2>1, <2>2 DEF Won, Pass
  <2> QED  BY <1>0, <1>1, <2>3, <2>4 DEF Backed
<1>6. CASE Repair
  <2>1. kv' = kv /\ pass'.pc # "count"  BY <1>0, <1>6 DEF Repair, Pass
  <2> QED  BY <1>0, <1>2, <2>1 DEF Won
<1>7. CASE Route
  <2>1. kv' \in {kv, ClaimDone(kv)} /\ pass'.pc # "count"  BY <1>0, <1>7 DEF Route, Pass
  <2>2. kv'.completed = kv.completed  BY <1>0, <2>1 DEF ClaimDone, Counters
  <2> QED  BY <1>0, <1>2, <2>1, <2>2 DEF Won
<1>8. CASE Continue
  <2>1. kv' \in {kv, Claim(kv, Slots(kv))} /\ pass'.pc # "count"
    BY <1>0, <1>8 DEF Continue, Pass
  <2>2. kv'.completed = kv.completed  BY <1>0, <2>1 DEF Claim, Counters
  <2> QED  BY <1>0, <1>2, <2>1, <2>2 DEF Won
<1>9. CASE Refill
  <2>1. ClaimOne(kv) /\ Good(kv) /\ kv.scheduled >= kv.scheduled
    BY <1>9, LoopFacts DEF Refill
  <2>2. kv'.completed = kv.completed  BY <1>0, <2>1 DEF ClaimOne, Claim, Counters
  <2>3. pass'.pc # "count"  BY <1>0, <2>1, OneClaimed
  <2> QED  BY <1>0, <1>2, <2>2, <2>3 DEF Won
<1>10. CASE Commit \/ Crash
  <2>1. kv' = kv /\ pass'.pc # "count"  BY <1>10 DEF Commit, Crash, NoPass
  <2> QED  BY <1>0, <1>2, <2>1 DEF Won
<1>11. CASE LoseIssue
  <2>1. UNCHANGED <<kv, pass>>  BY <1>11 DEF LoseIssue
  <2> QED  BY <1>0, <1>2, <2>1 DEF Won
<1>12. ASSUME NEW j \in Idx, Issue(j) \/ Finish(j)  PROVE Backed'
  <2>1. UNCHANGED <<kv, pass>>  BY <1>12 DEF Issue, Finish
  <2> QED  BY <1>0, <1>2, <2>1 DEF Won
<1>13. ASSUME NEW j \in Idx, Begin(j)  PROVE Backed'
  <2>1. kv' = kv /\ pass'.pc # "count"  BY <1>13 DEF Begin, NoPass
  <2> QED  BY <1>0, <1>2, <2>1 DEF Won
<1> QED
  BY <1>3, <1>4, <1>5, <1>6, <1>7, <1>8, <1>9, <1>10, <1>11, <1>12, <1>13 DEF Next, PassStep

LEMMA PassKnowsStep ==
    ASSUME Careful, IInv, OnceInv, PassKnows, Next
    PROVE  PassKnows'
<1>0. /\ TypeOK /\ pass \in Pass /\ kv \in Counters /\ kv.completed \in Nat
      /\ kv.scheduled \in Nat /\ ~Fault("kv") /\ Good(kv) /\ MaxInFlight \in Nat \ {0}
  BY LoopFacts, CarefulFacts, LoopAssumption
<1>1. CASE pass'.pc \in {"idle", "record", "count", "commit"}
  BY <1>1 DEF PassKnows
<1>2. CASE UNCHANGED <<kv, pass>>  BY <1>2 DEF PassKnows
<1>3. CASE Record
  <2>1. pass'.pc = "count"  BY <1>0, <1>3 DEF Record, Pass
  <2> QED  BY <1>1, <2>1
<1>4. CASE Count
  <2>1. pass.claim = "won" /\ pass.pc = "count"  BY <1>4, CarefulProgress DEF Count, PassProgresses
  <2>2. /\ kv' = Increment(kv)
        /\ pass' = [pass EXCEPT !.pc = "repair", !.progressed = TRUE,
                                !.count = kv.completed + 1]
    BY <1>0, <1>4, <2>1 DEF Count
  <2>3. /\ kv'.completed = kv.completed + 1
        /\ kv'.scheduled = Larger(kv.scheduled, kv.completed + 1)
    BY <1>0, <2>2 DEF Increment, Counters
  <2>4. pass'.pc = "repair" /\ pass'.count = kv'.completed
    BY <1>0, <2>2, <2>3 DEF Pass
  <2>5. InFlight(kv) <= MaxInFlight  BY <1>0 DEF Good
  <2>6. InFlight(kv') < MaxInFlight
    BY <1>0, <2>3, <2>5 DEF InFlight, Larger
  <2> QED  BY <2>4, <2>6 DEF PassKnows
<1>5. CASE Repair
  <2>1. /\ pass.pc = "repair" /\ kv' = kv /\ pass'.count = pass.count
        /\ pass'.pc \in {"route", "continue"}
    BY <1>0, <1>5 DEF Repair, Pass
  <2> QED  BY <2>1 DEF PassKnows
<1>6. CASE Route
  <2>1. pass'.pc = "commit"  BY <1>0, <1>6 DEF Route, Pass
  <2> QED  BY <1>1, <2>1
<1>7. CASE Continue
  <2>1. \/ pass'.pc = "commit"
        \/ Slots(kv) = 0 /\ kv' = kv /\ pass'.pc = "refill"
    BY <1>0, <1>7 DEF Continue, Pass
  <2>2. InFlight(kv) < MaxInFlight  BY <1>7 DEF PassKnows, Continue
  <2>3. Slots(kv) = 0 => kv.scheduled >= Size
    BY <1>0, <2>2, LoopAssumption DEF Slots, Larger, Smaller, InFlight
  <2> QED  BY <2>1, <2>2, <2>3 DEF PassKnows
<1>8. CASE Refill  BY <1>8, NoLateRefill
<1>9. CASE Reconcile
  <2>1. pass'.pc = "commit"  BY <1>0, <1>9, LateReconcile DEF Pass
  <2> QED  BY <1>1, <2>1
<1>10. CASE Commit \/ Crash  BY <1>1, <1>10 DEF Commit, Crash, NoPass
<1>11. CASE LoseIssue  BY <1>2, <1>11 DEF LoseIssue
<1>12. CASE Enter
  <2>1. pass'.pc = "idle"  BY <1>12 DEF Enter, IInv, NotBegun
  <2> QED  BY <1>1, <2>1
<1>13. ASSUME NEW j \in Idx, Issue(j) \/ Finish(j)  PROVE PassKnows'
  BY <1>2, <1>13 DEF Issue, Finish
<1>14. ASSUME NEW j \in Idx, Begin(j)  PROVE PassKnows'
  <2>1. pass'.pc \in {"idle", "record"}  BY <1>14 DEF Begin, NoPass
  <2> QED  BY <1>1, <2>1
<1> QED
  BY <1>3, <1>4, <1>5, <1>6, <1>7, <1>8, <1>9, <1>10, <1>11, <1>12, <1>13, <1>14
  DEF Next, PassStep

\* What is owed or recorded was claimed, and nothing is both.
LEMMA OwedClaimed ==
    ASSUME IInv, OnceInv
    PROVE  Terminals \subseteq Claimed /\ Owed \subseteq Claimed \ Terminals
<1>1. ASSUME NEW i \in Idx
      PROVE  /\ unissued[i] \in Nat /\ live[i] \in Nat /\ finished[i] \in Nat
             /\ pass.out[i] \in Nat
             /\ i \in Int
  BY LoopFacts
<1>2. ASSUME NEW i \in Idx  PROVE Held(i) > 0 => i \in Claimed
  <2>1. i >= kv.scheduled => Held(i) = 0  BY DEF OnceInv, HeldOnce
  <2> QED  BY <1>1, <2>1, LoopFacts DEF Claimed
<1>3. ASSUME NEW i \in Terminals  PROVE i \in Idx /\ finished[i] > 0
  BY DEF Terminals, OnceInv, ReportedOnce
<1>4. Terminals \subseteq Claimed
  <2> SUFFICES ASSUME NEW i \in Terminals  PROVE i \in Claimed  OBVIOUS
  <2>1. i \in Idx /\ Held(i) > 0  BY <1>1, <1>3 DEF Held
  <2> QED  BY <1>2, <2>1
<1>5. ASSUME NEW i \in Owed  PROVE i \in Claimed \ Terminals
  <2>1. i \in Idx /\ unissued[i] + live[i] + pass.out[i] > 0  BY DEF Owed
  <2>2. Held(i) > 0 /\ Held(i) <= 1  BY <1>1, <2>1 DEF Held, OnceInv, HeldOnce
  <2>3. finished[i] = 0  BY <1>1, <2>1, <2>2 DEF Held
  <2> QED  BY <1>2, <1>3, <2>1, <2>2, <2>3
<1> QED  BY <1>4, <1>5

\* While the record is backed it has room for whatever is owed.
LEMMA OwedFits ==
    ASSUME NEW S, NEW T, NEW s \in Nat, NEW c \in Nat,
           T \subseteq {i \in Idx : i < s}, S \subseteq {i \in Idx : i < s} \ T,
           c <= Cardinality(T)
    PROVE  IsFiniteSet(S) /\ Cardinality(S) \in Nat /\ Cardinality(S) <= s - c
<1> DEFINE C == {i \in Idx : i < s}
<1>1. C \subseteq 0 .. s - 1  BY LoopAssumption DEF Idx
<1>2. IsFiniteSet(0 .. s - 1) /\ Cardinality(0 .. s - 1) = s
  BY FS_Interval
<1> HIDE DEF C
<1>3. IsFiniteSet(C) /\ Cardinality(C) <= s  BY <1>1, <1>2, FS_Subset
<1>4. T \subseteq C /\ S \subseteq C \ T  BY DEF C
<1>5. C \cap T = T  BY <1>4
<1>6. IsFiniteSet(C \ T) /\ Cardinality(C \ T) = Cardinality(C) - Cardinality(T)
  BY <1>3, <1>5, FS_Difference
<1>7. IsFiniteSet(S) /\ Cardinality(S) <= Cardinality(C \ T)
  BY <1>4, <1>6, FS_Subset
<1>8. IsFiniteSet(T)  BY <1>3, <1>4, FS_Subset
<1>9. Cardinality(S) \in Nat /\ Cardinality(T) \in Nat /\ Cardinality(C) \in Nat
  BY <1>3, <1>7, <1>8, FS_CardinalityType
<1> QED  BY <1>3, <1>6, <1>7, <1>9

LEMMA BackedFits ==
    ASSUME IInv, OnceInv, kv.completed <= Cardinality(Terminals)
    PROVE  Cardinality(Owed) <= MaxInFlight
<1> DEFINE T == Terminals
           O == Owed
<1>1. T \subseteq {i \in Idx : i < kv.scheduled}
      /\ O \subseteq {i \in Idx : i < kv.scheduled} \ T
  BY OwedClaimed DEF Claimed
<1> HIDE DEF T, O
<1>2. kv.completed <= Cardinality(T)  BY DEF T
<1>3. Cardinality(O) \in Nat /\ Cardinality(O) <= kv.scheduled - kv.completed
  BY <1>1, <1>2, LoopFacts, OwedFits
<1>4. kv.scheduled - kv.completed <= MaxInFlight
  BY LoopFacts, LoopAssumption DEF Good, InFlight, Larger
<1>5. Cardinality(O) <= MaxInFlight  BY <1>3, <1>4, LoopFacts, LoopAssumption
<1> QED  BY <1>5 DEF O

\* Once every index is claimed, nothing new is owed.
LEMMA NothingNewOwed ==
    ASSUME Careful, IInv, OnceInv, Next, kv.scheduled >= Size
    PROVE  Owed' \subseteq Owed
<1> SUFFICES ASSUME NEW i \in Idx, i \in Owed'  PROVE i \in Owed
  BY DEF Owed
<1>1. IInv'  BY NextIInv
<1>2. /\ unissued[i] \in Nat /\ live[i] \in Nat /\ finished[i] \in Nat
      /\ pass.out[i] \in Nat /\ ~ (kv.scheduled <= i)
  BY LoopFacts
<1>3. Held(i)' <= Held(i)
  <2>1. Held(i)' <= Held(i) + (IF kv.scheduled <= i /\ i < kv'.scheduled THEN 1 ELSE 0)
    BY HeldStep, CarefulIsCalm
  <2>2. Held(i) \in Nat /\ Held(i)' \in Int  BY <1>1, <1>2 DEF IInv, TypeOK, Pass, Held
  <2>3. Held(i)' <= Held(i) + 0  BY <1>2, <2>1
  <2> QED  BY <2>2, <2>3
<1>4. /\ unissued'[i] \in Nat /\ live'[i] \in Nat /\ finished'[i] \in Nat
      /\ pass'.out[i] \in Nat
  BY <1>1 DEF IInv, TypeOK, Pass
<1>5. finished'[i] >= finished[i]
  <2>1. ASSUME NEW j \in Idx, Finish(j)  PROVE finished'[i] >= finished[i]
    BY <1>2, <2>1, LoopFacts DEF Finish
  <2>2. CASE UNCHANGED finished  BY <1>2, <2>2
  <2> QED
    BY <2>1, <2>2 DEF Next, PassStep, Enter, LoseIssue, Crash, Record, Count, Repair,
       Route, Continue, Refill, Reconcile, Commit, Issue, Begin, commands
<1>6. unissued'[i] + live'[i] + pass'.out[i] > 0  BY DEF Owed
<1>7. unissued[i] + live[i] + pass.out[i] > 0
  BY <1>2, <1>3, <1>4, <1>5, <1>6 DEF Held
<1> QED  BY <1>7 DEF Owed

LEMMA LimitInit == Init => LimitInv
<1> SUFFICES ASSUME Init  PROVE LimitInv  OBVIOUS
<1>1. pass.pc = "idle"  BY DEF Init, NoPass
<1>2. PassKnows  BY <1>1 DEF PassKnows
<1>3. Backed
  <2>1. kv.completed = 0 /\ Won = 0  BY <1>1 DEF Init, Fresh, Won
  <2> QED  BY <2>1, TerminalsFinite DEF Backed
<1>4. Owed = {}  BY DEF Init, Owed, Zero, NoPass
<1> QED  BY <1>2, <1>3, <1>4, FS_EmptySet, LoopAssumption DEF LimitInv

LEMMA LimitStep ==
    ASSUME Careful, IInv, OnceInv, LimitInv, Next
    PROVE  LimitInv'
<1>1. IInv' /\ OnceInv'  BY NextIInv, OnceNextInv, CarefulIsCalm
<1>2. PassKnows'  BY PassKnowsStep DEF LimitInv
<1>3. kv'.scheduled \in Nat /\ kv'.scheduled >= kv.scheduled /\ kv'.completed \in Nat
  <2>1. Good(kv') /\ Later(kv, kv')
    BY CountersStep, LoopFacts DEF IInv
  <2> QED  BY <2>1 DEF Good, Counters, Later
<1>4. CASE kv.scheduled >= Size
  <2>1. Owed' \subseteq Owed  BY <1>4, NothingNewOwed
  <2>2. Owed \subseteq Idx  BY DEF Owed
  <2>3. /\ IsFiniteSet(Owed) /\ IsFiniteSet(Owed')
        /\ Cardinality(Owed') <= Cardinality(Owed)
    BY <2>1, <2>2, IdxFacts, FS_Subset
  <2>4. Cardinality(Owed) \in Nat /\ Cardinality(Owed') \in Nat
    BY <2>3, FS_CardinalityType
  <2>5. Cardinality(Owed') <= MaxInFlight
    BY <2>3, <2>4, LoopAssumption DEF LimitInv
  <2>6. ~ (kv'.scheduled < Size)  BY <1>3, <1>4, LoopFacts
  <2> QED  BY <1>2, <2>5, <2>6 DEF LimitInv
<1>5. CASE kv.scheduled < Size
  <2>1. Backed /\ ~Reconcile
    BY <1>5, LoopFacts DEF LimitInv, PassKnows, Reconcile
  <2>2. Backed'  BY <2>1, BackedStep
  <2>3. (IInv /\ OnceInv /\ kv.completed <= Cardinality(Terminals)
          => Cardinality(Owed) <= MaxInFlight)'
    BY BackedFits, PTL
  <2>4. kv'.completed <= Cardinality(Terminals')
    BY <1>3, <2>2, TerminalsStay DEF Backed, Won
  <2>5. Cardinality(Owed') <= MaxInFlight  BY <1>1, <2>3, <2>4
  <2> QED  BY <1>2, <2>2, <2>5 DEF LimitInv
<1> QED  BY <1>4, <1>5, LoopFacts

LEMMA LimitNextInv ==
    ASSUME Careful  PROVE IInv /\ OnceInv /\ LimitInv /\ [Next]_vars => LimitInv'
<1> SUFFICES ASSUME IInv, OnceInv, LimitInv, [Next]_vars  PROVE LimitInv'
  OBVIOUS
<1>1. CASE Next  BY <1>1, LimitStep
<1>2. CASE UNCHANGED vars
  BY <1>2 DEF vars, LimitInv, PassKnows, Backed, Won, Terminals, Owed
<1> QED  BY <1>1, <1>2

\* One command of an index at most: as many commands as indexes.
LEMMA LimitMeans ==
    ASSUME IInv, OnceInv, LimitInv  PROVE Backpressure
<1> DEFINE O == Owed
<1>1. O \subseteq Idx  BY DEF Owed
<1>2. CommandsInFlight \subseteq O \X {1}
  <2>1. ASSUME NEW i \in Idx, NEW c \in {i} \X (1 .. unissued[i] + live[i])
        PROVE  c \in O \X {1}
    <3>1. /\ unissued[i] \in Nat /\ live[i] \in Nat /\ finished[i] \in Nat
          /\ pass.out[i] \in Nat
      BY LoopFacts
    <3>2. Held(i) <= 1  BY DEF OnceInv, HeldOnce
    <3>3. c = <<i, c[2]>> /\ c[2] \in 1 .. unissued[i] + live[i]  OBVIOUS
    <3>4. c[2] = 1 /\ unissued[i] + live[i] > 0  BY <3>1, <3>2, <3>3 DEF Held
    <3>5. i \in O  BY <3>1, <3>4 DEF Owed
    <3> QED  BY <3>3, <3>4, <3>5
  <2> QED  BY <2>1 DEF CommandsInFlight
<1> HIDE DEF O
<1>3. IsFiniteSet(O)  BY <1>1, IdxFacts, FS_Subset
<1>4. IsFiniteSet({1}) /\ Cardinality({1}) = 1  BY FS_Singleton
<1>5. /\ IsFiniteSet(O \X {1})
      /\ Cardinality(O \X {1}) = Cardinality(O) * Cardinality({1})
  BY <1>3, <1>4, FS_Product
<1>6. IsFiniteSet(CommandsInFlight) /\ Cardinality(CommandsInFlight) <= Cardinality(O \X {1})
  BY <1>2, <1>5, FS_Subset
<1>7. Cardinality(O) \in Nat /\ Cardinality(CommandsInFlight) \in Nat
  BY <1>3, <1>6, FS_CardinalityType
<1>8. Cardinality(O) <= MaxInFlight  BY DEF O, LimitInv
<1>9. Cardinality(O \X {1}) = Cardinality(O)  BY <1>4, <1>5, <1>7
<1>10. Cardinality(CommandsInFlight) <= MaxInFlight
  BY <1>6, <1>7, <1>8, <1>9, LoopAssumption
<1> QED  BY <1>10 DEF Backpressure

-----------------------------------------------------------------------------
\* The promise of a loop with a limit of two at most.  When a pass finds nothing
\* to claim, all indexes are claimed and fewer than max_in_flight of them are not
\* counted: if the rows of finished commands are ahead of the record then, they
\* are so by the last command of all.

\* The record is backed, or it was raised when every item had been executed and
\* one completion at most was still to be recorded.
Recorded ==
    \/ Backed
    \/ /\ Executed = Idx /\ Cardinality(Terminals) >= Size - 1
       /\ pass.pc \in {"count", "repair", "route", "continue"} => Terminals = Idx

\* Whoever takes the transitions of loop.done, or has taken them, is the last.
RouteLast ==
    /\ pass.pc = "route" \/ pass.route => Terminals = Idx
    /\ pass.route => pass.pc = "commit"
    /\ routed > 0 => pass.pc = "idle" /\ Terminals = Idx

PromiseInv == LimitInv /\ Recorded /\ RouteLast

LEMMA TerminalsExecuted ==
    ASSUME OnceInv  PROVE Terminals \subseteq Executed /\ Executed \subseteq Idx
BY DEF OnceInv, ReportedOnce, Terminals, Executed

\* An executed item stays executed.
LEMMA ExecutedStay ==
    ASSUME IInv, Next  PROVE Executed \subseteq Executed'
<1>1. CASE UNCHANGED finished  BY <1>1 DEF Executed
<1>2. ASSUME NEW j \in Idx, Finish(j)  PROVE Executed \subseteq Executed'
  <2>1. finished \in [Idx -> Nat]  BY LoopFacts
  <2>2. \A i \in Idx : finished'[i] >= finished[i] /\ finished'[i] \in Nat /\ finished[i] \in Nat
    BY <1>2, <2>1 DEF Finish
  <2> QED  BY <2>2 DEF Executed
<1> QED
  BY <1>1, <1>2 DEF Next, PassStep, Enter, LoseIssue, Crash, Record, Count, Repair,
     Route, Continue, Refill, Reconcile, Commit, Issue, Begin, commands

\* There is no more than one terminal row of an index.
LEMMA RowsExecuted ==
    ASSUME IInv, OnceInv
    PROVE  TerminalRows \in Nat /\ TerminalRows <= Cardinality(Executed)
<1> DEFINE R == UNION {{i} \X (1 .. finished[i]) : i \in Idx}
           X == Executed
<1>1. X \subseteq Idx  BY DEF Executed
<1>2. R \subseteq X \X {1}
  <2>1. ASSUME NEW i \in Idx, NEW c \in {i} \X (1 .. finished[i])
        PROVE  c \in X \X {1}
    <3>1. /\ unissued[i] \in Nat /\ live[i] \in Nat /\ finished[i] \in Nat
          /\ pass.out[i] \in Nat
      BY LoopFacts
    <3>2. Held(i) <= 1  BY DEF OnceInv, HeldOnce
    <3>3. c = <<i, c[2]>> /\ c[2] \in 1 .. finished[i]  OBVIOUS
    <3>4. c[2] = 1 /\ finished[i] > 0  BY <3>1, <3>2, <3>3 DEF Held
    <3>5. i \in X  BY <3>4 DEF Executed
    <3> QED  BY <3>3, <3>4, <3>5
  <2> QED  BY <2>1
<1>3. TerminalRows = Cardinality(R)  BY DEF TerminalRows
<1> HIDE DEF R, X
<1>4. IsFiniteSet(X)  BY <1>1, IdxFacts, FS_Subset
<1>5. IsFiniteSet({1}) /\ Cardinality({1}) = 1  BY FS_Singleton
<1>6. /\ IsFiniteSet(X \X {1})
      /\ Cardinality(X \X {1}) = Cardinality(X) * Cardinality({1})
  BY <1>4, <1>5, FS_Product
<1>7. IsFiniteSet(R) /\ Cardinality(R) <= Cardinality(X \X {1})
  BY <1>2, <1>6, FS_Subset
<1>8. Cardinality(X) \in Nat /\ Cardinality(R) \in Nat
  BY <1>4, <1>7, FS_CardinalityType
<1>9. Cardinality(X \X {1}) = Cardinality(X)  BY <1>5, <1>6, <1>8
<1>10. TerminalRows \in Nat /\ TerminalRows <= Cardinality(X)
  BY <1>3, <1>7, <1>8, <1>9
<1> QED  BY <1>10 DEF X

\* What a reconciliation adds to a record that lacks one completion at most.
LEMMA AdvanceBy ==
    ASSUME NEW k \in Counters, NEW n \in Nat, NEW t \in Nat, pass.results \in Nat,
           k.completed <= t
    PROVE  LET a == Advance(k, n)
           IN  /\ a \in Counters /\ a.completed \in Nat
               /\ k.completed >= Size - 1 => a.completed >= Size - 1
               /\ n <= t => a.completed <= t
               /\ k.completed >= Size - 1 => a.completed <= t \/ n >= Size
<1> DEFINE m == Smaller(n, Size)
           d == Smaller(Size, Larger(k.completed, m))
           a == Advance(k, n)
<1>1. k.completed \in Nat /\ Size \in Nat /\ m \in Nat /\ m <= n /\ m <= Size
  BY LoopAssumption DEF Counters, Smaller
<1>2. CASE ~ (m > Known(k))
  <2>1. a = k  BY <1>2 DEF Advance
  <2> QED  BY <1>1, <2>1
<1>3. CASE m > Known(k)
  <2>1. a = [SetLoopState(k, m, k.scheduled) EXCEPT !.reconciled = TRUE]
    BY <1>3 DEF Advance
  <2>2. a.completed = d  BY <2>1 DEF SetLoopState, Counters
  <2>2a. a \in Counters  BY <1>1, <2>1 DEF SetLoopState, Counters, Smaller, Larger
  <2>3. m > 0 /\ (k.completed # 0 => m > k.completed)
    BY <1>1, <1>3 DEF Known
  <2>4. d \in Nat /\ (k.completed >= Size - 1 => d >= Size - 1) /\ (m <= t => d <= t)
    BY <1>1 DEF Smaller, Larger
  <2>5. k.completed >= Size - 1 => m >= Size
    BY <1>1, <2>3
  <2>6. n <= t => m <= t  BY <1>1
  <2>7. m >= Size => n >= Size  BY <1>1
  <2> HIDE DEF a, d, m
  <2>8. a.completed \in Nat /\ (k.completed >= Size - 1 => a.completed >= Size - 1)
    BY <2>2, <2>4
  <2>9. n <= t => a.completed <= t  BY <2>2, <2>4, <2>6
  <2>10. k.completed >= Size - 1 => n >= Size  BY <2>5, <2>7
  <2> QED  BY <2>2a, <2>8, <2>9, <2>10 DEF a
<1> QED  BY <1>2, <1>3

\* A reconciliation leaves the record backed, unless every item is executed.
LEMMA ReconcileRecorded ==
    ASSUME Careful, MaxInFlight <= 2, IInv, OnceInv, PassKnows, Backed, Reconcile
    PROVE  \/ kv'.completed <= Cardinality(Terminals)
           \/ Executed = Idx /\ Cardinality(Terminals) >= Size - 1
<1> DEFINE t == Cardinality(Terminals)
           n == TerminalRows
           a == Advance(kv, t)
<1>1. /\ pass.pc = "refill" /\ kv.scheduled >= Size /\ InFlight(kv) < MaxInFlight
      /\ kv.completed \in Nat /\ kv.scheduled \in Nat /\ kv \in Counters
      /\ pass.results \in Nat /\ Size \in Nat
  BY LoopFacts DEF Reconcile, PassKnows, Pass
<1>2. kv.completed >= Size - 1
  BY <1>1, LoopAssumption DEF InFlight, Larger
<1>3. t \in Nat /\ n \in Nat /\ n <= Cardinality(Executed)
  BY TerminalsFinite, RowsExecuted
<1>4. kv.completed <= t
  <2>1. Won = 0  BY <1>1 DEF Won
  <2> HIDE DEF t
  <2>2. kv.completed + 0 <= t  BY <2>1 DEF Backed, t
  <2> QED  BY <1>1, <1>3, <2>2
<1>5. n >= Size => Executed = Idx
  <2>1. Executed \subseteq Idx  BY DEF Executed
  <2>2. IsFiniteSet(Executed) /\ Cardinality(Executed) \in Nat
    BY <2>1, IdxFacts, FS_Subset, FS_CardinalityType
  <2> HIDE DEF n
  <2>3. n >= Size => Cardinality(Executed) >= Size  BY <1>1, <1>3, <2>2
  <2> QED  BY <2>1, <2>3, AllOf
<1>6. kv' = kv \/ \E b \in BOOLEAN : kv' = Reconciled(b)
  BY LateReconcile
<1>7. \A b \in BOOLEAN : Reconciled(b) \in {a, Advance(a, n)}
  BY DEF Reconciled
<1> HIDE DEF t, n
<1>8. /\ a \in Counters /\ a.completed \in Nat /\ a.completed <= t
      /\ a.completed >= Size - 1
  BY <1>1, <1>2, <1>3, <1>4, AdvanceBy
<1> HIDE DEF a
<1>9. Advance(a, n).completed <= t \/ n >= Size
  BY <1>1, <1>3, <1>8, AdvanceBy
<1>10. kv' \in {kv, a, Advance(a, n)}  BY <1>6, <1>7
<1>11. t >= Size - 1  BY <1>1, <1>2, <1>3, <1>4
<1>12. kv'.completed <= t \/ (Executed = Idx /\ t >= Size - 1)
  BY <1>4, <1>5, <1>8, <1>9, <1>10, <1>11
<1> QED  BY <1>12 DEF t

LEMMA RecordedStep ==
    ASSUME Careful, MaxInFlight <= 2, IInv, OnceInv, PassKnows, Recorded, Next
    PROVE  Recorded'
<1>0. pass \in Pass /\ Size \in Nat \ {0} /\ ~Fault("kv") /\ TypeOK
  BY LoopFacts, CarefulFacts
<1>1. /\ Terminals \subseteq Terminals' /\ Terminals' \subseteq Idx
      /\ Cardinality(Terminals) \in Nat /\ Cardinality(Terminals') \in Nat
      /\ Cardinality(Terminals) <= Cardinality(Terminals')
  BY TerminalsStay DEF Terminals
<1>2. Executed \subseteq Executed' /\ Executed' \subseteq Idx
  BY ExecutedStay DEF Executed
<1>3. CASE Backed /\ ~Reconcile
  <2>1. Backed'  BY <1>3, BackedStep
  <2> QED  BY <2>1 DEF Recorded
<1>4. CASE Backed /\ Reconcile
  <2>1. pass' = [pass EXCEPT !.pc = "commit"] /\ kv'.completed \in Nat
    BY <1>4, LateReconcile
  <2>2. pass'.pc = "commit"  BY <1>0, <2>1 DEF Pass
  <2>3. Won' = 0  BY <2>2 DEF Won
  <2>4. CASE kv'.completed <= Cardinality(Terminals)
    <3>1. kv'.completed + 0 <= Cardinality(Terminals')  BY <1>1, <2>1, <2>4
    <3>2. Backed'  BY <2>3, <3>1 DEF Backed
    <3> QED  BY <3>2 DEF Recorded
  <2>5. CASE Executed = Idx /\ Cardinality(Terminals) >= Size - 1
    <3>1. Executed' = Idx /\ Cardinality(Terminals') >= Size - 1
      BY <1>0, <1>1, <1>2, <2>5
    <3> QED  BY <2>2, <3>1 DEF Recorded
  <2> QED  BY <1>4, <2>4, <2>5, ReconcileRecorded
<1>5. CASE ~Backed
  <2>1. /\ Executed = Idx /\ Cardinality(Terminals) >= Size - 1
        /\ pass.pc \in {"count", "repair", "route", "continue"} => Terminals = Idx
    BY <1>5 DEF Recorded
  <2>2. Executed' = Idx /\ Cardinality(Terminals') >= Size - 1
    <3>1. Executed' = Idx  BY <1>2, <2>1
    <3> DEFINE t == Cardinality(Terminals)
               u == Cardinality(Terminals')
    <3>2. t \in Nat /\ u \in Nat /\ t <= u /\ t >= Size - 1 /\ Size \in Nat
      BY <1>0, <1>1, <2>1
    <3> HIDE DEF t, u
    <3>3. u >= Size - 1  BY <3>2
    <3> QED  BY <3>1, <3>3 DEF u
  <2>3. Terminals = Idx => Terminals' = Idx  BY <1>1
  <2>4. CASE Record
    <3>1. item[pass.idx] # "terminal" /\ pass.pc = "record" /\ pass.idx \in Idx
      BY <1>0, <2>4 DEF Record, OnceInv, ReportedOnce, Pass
    <3>2. item' = [item EXCEPT ![pass.idx] = "terminal"]
      BY <1>0, <2>4, <3>1 DEF Record
    <3>3. Terminals' = Terminals \cup {pass.idx} /\ pass.idx \notin Terminals
      BY <1>0, <3>1, <3>2 DEF Terminals, TypeOK
    <3>4. Cardinality(Terminals') = Cardinality(Terminals) + 1
      BY <3>3, TerminalsFinite, FS_AddElement
    <3>5. Cardinality(Terminals') >= Size  BY <1>0, <1>1, <2>1, <3>4
    <3>6. Terminals' = Idx  BY <1>1, <3>5, AllOf
    <3> QED  BY <2>2, <3>6 DEF Recorded
  <2>5. CASE pass'.pc \in {"idle", "record", "refill", "commit"} \/ pass'.pc = pass.pc
    BY <2>1, <2>2, <2>3, <2>5 DEF Recorded
  <2>6. CASE pass.pc \in {"count", "repair", "route", "continue"}
    BY <2>1, <2>2, <2>3, <2>6 DEF Recorded
  <2>7. CASE Refill \/ Reconcile
    <3>1. pass'.pc = "commit"  BY <1>0, <2>7, NoLateRefill, LateReconcile DEF Pass
    <3> QED  BY <2>5, <3>1
  <2>8. CASE Commit \/ Crash  BY <2>5, <2>8 DEF Commit, Crash, NoPass
  <2>9. CASE Enter \/ LoseIssue  BY <2>5, <2>9 DEF Enter, LoseIssue
  <2>10. ASSUME NEW j \in Idx, Issue(j) \/ Finish(j)  PROVE Recorded'
    BY <2>5, <2>10 DEF Issue, Finish
  <2>10a. ASSUME NEW j \in Idx, Begin(j)  PROVE Recorded'
    <3>1. pass'.pc \in {"idle", "record"}  BY <2>10a DEF Begin, NoPass
    <3> QED  BY <2>5, <3>1
  <2>11. CASE Count \/ Repair \/ Route \/ Continue
    BY <2>6, <2>11 DEF Count, Repair, Route, Continue
  <2> QED
    BY <2>4, <2>7, <2>8, <2>9, <2>10, <2>10a, <2>11 DEF Next, PassStep
<1> QED  BY <1>3, <1>4, <1>5

LEMMA RouteLastStep ==
    ASSUME Careful, IInv, OnceInv, PassKnows, Recorded, RouteLast, Next
    PROVE  RouteLast'
<1>0. /\ pass \in Pass /\ kv.completed \in Nat /\ Size \in Nat \ {0} /\ routed \in Nat
      /\ ~Fault("kv")
  BY LoopFacts, CarefulFacts
<1>1. Terminals \subseteq Terminals' /\ Terminals' \subseteq Idx
  BY TerminalsStay DEF Terminals
<1>2. Terminals = Idx => Terminals' = Idx  BY <1>1
<1>3. CASE UNCHANGED <<pass, routed>>
  BY <1>2, <1>3 DEF RouteLast
<1>4. CASE pass.pc # "idle" /\ ~pass'.route /\ pass'.pc # "route" /\ routed' = routed
  BY <1>0, <1>4 DEF RouteLast
<1>5. CASE Record \/ Count \/ Continue
  <2>1. pass.pc \in {"record", "count", "continue"} /\ ~pass.route /\ routed' = routed
    BY <1>5 DEF RouteLast, Record, Count, Continue
  <2>2. pass'.route = pass.route /\ pass'.pc # "route"
    BY <1>0, <1>5 DEF Record, Count, Continue, Pass
  <2> QED  BY <1>4, <2>1, <2>2
<1>6. CASE Repair
  <2>1. /\ pass.pc = "repair" /\ ~pass.route /\ routed' = routed /\ routed = 0
        /\ pass'.route = pass.route
        /\ pass'.pc = IF pass.count >= Size THEN "route" ELSE "continue"
    BY <1>0, <1>6 DEF Repair, RouteLast, Pass
  <2>2. pass.count >= Size => Terminals = Idx
    <3>1. CASE Backed
      <4>1. pass.count = kv.completed /\ Won = 0  BY <2>1 DEF PassKnows, Won
      <4>2. kv.completed + 0 <= Cardinality(Terminals)  BY <3>1, <4>1 DEF Backed
      <4>3. pass.count >= Size => Cardinality(Terminals) >= Size
        BY <1>0, <4>1, <4>2, TerminalsFinite
      <4>4. Terminals \subseteq Idx  BY DEF Terminals
      <4> QED  BY <4>3, <4>4, AllOf
    <3>2. CASE ~Backed  BY <2>1, <3>2 DEF Recorded
    <3> QED  BY <3>1, <3>2
  <2> QED  BY <1>2, <2>1, <2>2 DEF RouteLast
<1>7. CASE Route
  <2>1. pass.pc = "route" /\ Terminals = Idx /\ routed' = routed /\ routed = 0
    BY <1>0, <1>7 DEF Route, RouteLast
  <2>2. pass'.pc = "commit"  BY <1>0, <1>7 DEF Route, Pass
  <2> QED  BY <1>2, <2>1, <2>2 DEF RouteLast
<1>8. CASE Refill  BY <1>8, NoLateRefill
<1>9. CASE Reconcile
  <2>1. pass.pc = "refill" /\ routed' = routed /\ ~pass.route
    BY <1>9 DEF Reconcile, RouteLast
  <2>2. pass'.pc = "commit" /\ pass'.route = pass.route
    BY <1>0, <1>9, LateReconcile DEF Pass
  <2> QED  BY <1>4, <2>1, <2>2
<1>10. CASE Commit
  <2>1. routed = 0 /\ pass' = NoPass  BY <1>0, <1>10 DEF Commit, RouteLast
  <2>2. routed' > 0 => pass.route
    BY <1>10, <2>1 DEF Commit
  <2>3. pass'.pc = "idle" /\ ~pass'.route  BY <2>1 DEF NoPass
  <2>4. routed' > 0 => Terminals' = Idx  BY <1>2, <2>2 DEF RouteLast
  <2> QED  BY <2>3, <2>4 DEF RouteLast
<1>11. CASE Crash
  <2>1. pass.pc # "idle" /\ pass' = NoPass /\ routed' = routed  BY <1>11 DEF Crash
  <2> QED  BY <1>4, <2>1 DEF NoPass
<1>12. ASSUME NEW i \in Idx, Begin(i)  PROVE RouteLast'
  <2>1. calls[i] > 0 /\ routed' = routed  BY <1>12 DEF Begin
  <2>2. i \notin Terminals
    BY <1>0, <2>1, LoopFacts DEF OnceInv, ReportedOnce, Terminals
  <2>3. routed' = 0  BY <1>0, <2>1, <2>2 DEF RouteLast
  <2>4. pass'.pc \in {"idle", "record"} /\ ~pass'.route
    BY <1>12 DEF Begin, NoPass
  <2> QED  BY <2>3, <2>4 DEF RouteLast
<1>13. ASSUME NEW i \in Idx, Issue(i) \/ Finish(i)  PROVE RouteLast'
  BY <1>3, <1>13 DEF Issue, Finish
<1>14. CASE Enter \/ LoseIssue  BY <1>3, <1>14 DEF Enter, LoseIssue
<1> QED
  BY <1>5, <1>6, <1>7, <1>8, <1>9, <1>10, <1>11, <1>12, <1>13, <1>14 DEF Next, PassStep

LEMMA PromiseInitInv == Init => PromiseInv
<1> SUFFICES ASSUME Init  PROVE PromiseInv  OBVIOUS
<1>1. LimitInv  BY LimitInit
<1>2. Backed  BY <1>1, LoopAssumption DEF LimitInv, Init, Fresh
<1>3. pass.pc = "idle" /\ ~pass.route /\ routed = 0  BY DEF Init, NoPass
<1> QED  BY <1>1, <1>2, <1>3 DEF PromiseInv, Recorded, RouteLast

LEMMA PromiseNextInv ==
    ASSUME Careful, MaxInFlight <= 2
    PROVE  IInv /\ OnceInv /\ PromiseInv /\ [Next]_vars => PromiseInv'
<1> SUFFICES ASSUME IInv, OnceInv, PromiseInv, [Next]_vars  PROVE PromiseInv'
  OBVIOUS
<1>1. LimitInv /\ Recorded /\ RouteLast /\ PassKnows  BY DEF PromiseInv, LimitInv
<1>2. LimitInv'  BY <1>1, LimitNextInv
<1>3. CASE Next
  <2>1. Recorded'  BY <1>1, <1>3, RecordedStep
  <2>2. RouteLast'  BY <1>1, <1>3, RouteLastStep
  <2> QED  BY <1>2, <2>1, <2>2 DEF PromiseInv
<1>4. CASE UNCHANGED vars
  <2>1. Recorded' /\ RouteLast'
    BY <1>1, <1>4 DEF vars, Recorded, Backed, Won, Terminals, Executed, RouteLast
  <2> QED  BY <1>2, <2>1 DEF PromiseInv
<1> QED  BY <1>3, <1>4
-----------------------------------------------------------------------------
\* Results.

\* Types hold for every collection size, limit, threshold and fault set: no
\* command or event is taken that is not there, no refill exceeds its budget.
THEOREM TypeCorrect == Spec => []TypeOK
<1>1. IInv => TypeOK  BY DEF IInv
<1> QED  BY <1>1, Invariance, PTL

\* Under every interleaving and every fault, the record in K/V admits at most
\* max_in_flight iterations at a time and no index beyond the collection.
THEOREM LimitHolds == Spec => []CountersBounded
<1>1. IInv => CountersBounded  BY DEF IInv
<1> QED  BY <1>1, Invariance, PTL

\* Every result of the execution state was recorded for an index of its own,
\* and a recorded index has a finished command.
THEOREM ResultsAreBacked == Spec => []ResultsBacked
<1>1. IInv => ResultsBacked
  BY DEF IInv, Counted, Reported, ResultsBacked
<1> QED  BY <1>1, Invariance, PTL

\* A step that will ignore every further report has been routed: recovery from a
\* lost or failed claim of loop.done never ends a playbook silently.
THEOREM NoSilentEnd == Spec => []FinalizedIsRouted
<1>1. IInv => FinalizedIsRouted
  BY DEF IInv, Justified, FinalizedIsRouted
<1> QED  BY <1>1, Invariance, PTL

\* No claim, increment or reconciliation takes a counter of the epoch back, nor
\* the claim of loop.done.
THEOREM CountersNeverGoBack == Spec => CountersGrow
<1>1. IInv /\ [Next]_vars =>
        [/\ kv'.completed >= kv.completed /\ kv'.scheduled >= kv.scheduled
         /\ kv.doneClaimed => kv'.doneClaimed]_kv
  <2> SUFFICES ASSUME IInv, [Next]_vars, kv' # kv
               PROVE  /\ kv'.completed >= kv.completed /\ kv'.scheduled >= kv.scheduled
                      /\ kv.doneClaimed => kv'.doneClaimed
    OBVIOUS
  <2>1. Next  BY DEF vars
  <2>2. TypeOK /\ NotBegun /\ Good(kv)
    BY DEF IInv, TypeOK, CountersBounded, Good
  <2>3. Later(kv, kv')  BY <2>1, <2>2, CountersStep
  <2> QED  BY <2>3 DEF Later
<1> QED  BY <1>1, Invariance, PTL DEF Spec, CountersGrow

\* Without tail repair no index of the collection gets a second command, in a
\* loop of any size and limit, whatever happens to the transactions of the passes
\* and to the commands they return; and, unless /execute entered the loop,
\* whatever happens to requests to K/V.
THEOREM IndexesOnce == ASSUME Calm PROVE Spec => []IndexOnce
<1>1. IInv /\ OnceInv => IndexOnce
  <2> SUFFICES ASSUME IInv, OnceInv, NEW i \in Idx
               PROVE  unissued[i] + live[i] + finished[i] <= 1
    BY DEF IndexOnce
  <2>1. Held(i) <= 1  BY DEF OnceInv, HeldOnce
  <2>2. {unissued, live, finished} \subseteq [Idx -> Nat] /\ pass.out \in [Idx -> Nat]
    BY DEF IInv, TypeOK, Pass
  <2>3. /\ unissued[i] \in Nat /\ live[i] \in Nat /\ finished[i] \in Nat
        /\ pass.out[i] \in Nat
    BY <2>2
  <2> QED  BY <2>1, <2>3 DEF Held
<1>2. IInv /\ OnceInv /\ [Next]_vars => OnceInv'
  BY OnceNextInv
<1> QED  BY <1>1, <1>2, OnceInitInv, Invariance, PTL DEF Spec

\* In a loop of any size and limit, with the tail repair, the watchdog and every
\* failure the engine may meet, an index of the collection never has more than
\* two commands and one for each failure.
THEOREM RepeatsLimited == Spec => []RepeatsBounded
<1>1. IInv /\ HeldTwice => RepeatsBounded
  <2> SUFFICES ASSUME IInv, HeldTwice, NEW i \in Idx
               PROVE  unissued[i] + live[i] + finished[i] <= 2 + faults
    BY DEF RepeatsBounded
  <2>1. Held(i) <= Share(i)  BY DEF HeldTwice
  <2>2. {unissued, live, finished} \subseteq [Idx -> Nat] /\ pass.out \in [Idx -> Nat]
    BY DEF IInv, TypeOK, Pass
  <2>3. /\ unissued[i] \in Nat /\ live[i] \in Nat /\ finished[i] \in Nat
        /\ pass.out[i] \in Nat
    BY <2>2
  <2>4. faults \in Nat  BY CoordinationAssumption DEF IInv, TypeOK
  <2>5. /\ (IF i < kv.scheduled THEN 1 ELSE 0) \in 0 .. 1
        /\ (IF i \in Noted THEN 1 ELSE 0) \in 0 .. 1
    OBVIOUS
  <2>6. Share(i) \in Nat /\ Share(i) <= 2 + faults  BY <2>4, <2>5 DEF Share
  <2> QED  BY <2>1, <2>3, <2>4, <2>6 DEF Held
<1>2. IInv /\ HeldTwice /\ [Next]_vars => HeldTwice'
  BY HeldTwiceInv
<1> QED  BY <1>1, <1>2, HeldTwiceInv, Invariance, PTL DEF Spec


\* Without tail repair no more than max_in_flight commands of a loop are issued
\* or about to be, whatever its size and its limit and whatever happens to the
\* passes: a claim is made on a record that counts no completion in excess.
THEOREM CommandsWithinLimit == ASSUME Careful PROVE Spec => []Backpressure
<1>1. IInv /\ OnceInv /\ [Next]_vars => OnceInv'  BY OnceNextInv, CarefulIsCalm
<1>2. IInv /\ OnceInv /\ LimitInv /\ [Next]_vars => LimitInv'  BY LimitNextInv
<1>3. IInv /\ OnceInv /\ LimitInv => Backpressure  BY LimitMeans
<1> QED
  BY <1>1, <1>2, <1>3, OnceInitInv, LimitInit, Invariance, PTL DEF Spec

\* A loop with a limit of one or two (a sequential loop is one of them), without
\* tail repair and with a working K/V, implements LoopPromise, whatever its size
\* and however many of its passes fail: loop.done is routed at most once, and only
\* after every item was executed.
THEOREM LoopKeepsPromise ==
    ASSUME Careful, MaxInFlight <= 2  PROVE Spec => KeepsPromise
<1>1. Init => Promise!Init
  <2> SUFFICES ASSUME Init  PROVE Executed = {} /\ routed = 0
    BY DEF Promise!Init
  <2>1. \A i \in Idx : finished[i] = 0  BY DEF Init, Zero
  <2> QED  BY <2>1 DEF Executed, Init
<1>2. IInv /\ OnceInv /\ PromiseInv /\ [Next]_vars
        => [Promise!Execute \/ Promise!Route]_<<Executed, routed>>
  <2> SUFFICES ASSUME IInv, OnceInv, PromiseInv, [Next]_vars
               PROVE  \/ Promise!Execute \/ Promise!Route
                      \/ UNCHANGED <<Executed, routed>>
    OBVIOUS
  <2>1. ASSUME NEW i \in Idx, Finish(i)  PROVE Promise!Execute
    <3>1. finished \in [Idx -> Nat] /\ live[i] \in Nat /\ unissued[i] \in Nat
          /\ pass.out[i] \in Nat /\ finished[i] \in Nat
      BY LoopFacts
    <3>2. live[i] > 0 /\ Held(i) <= 1  BY <2>1 DEF Finish, OnceInv, HeldOnce
    <3>3. finished[i] = 0  BY <3>1, <3>2 DEF Held
    <3>4. i \notin Executed  BY <3>3 DEF Executed
    <3>5. finished'[i] = 1 /\ \A j \in Idx \ {i} : finished'[j] = finished[j]
      BY <2>1, <3>1, <3>3 DEF Finish
    <3>6. Executed' = Executed \cup {i}  BY <3>5 DEF Executed
    <3>7. routed' = routed  BY <2>1 DEF Finish
    <3> QED  BY <3>4, <3>6, <3>7 DEF Promise!Execute
  <2>2. CASE Commit /\ pass.route
    <3>1. routed = 0 /\ Terminals = Idx
      BY <2>2, LoopFacts DEF Commit, PromiseInv, RouteLast
    <3>2. Executed = Idx  BY <3>1, TerminalsExecuted
    <3>3. routed' = 1 /\ Executed' = Executed
      BY <2>2, <3>1 DEF Commit, Executed
    <3> QED  BY <3>1, <3>2, <3>3 DEF Promise!Route
  <2>3. CASE UNCHANGED <<finished, routed>>
    BY <2>3 DEF Executed
  <2>4. CASE Commit /\ ~pass.route
    <3>1. routed' = routed /\ finished' = finished
      BY <2>4, LoopFacts DEF Commit
    <3> QED  BY <2>3, <3>1
  <2>5. CASE PassStep /\ ~Commit
    BY <2>3, <2>5 DEF PassStep, Record, Count, Repair, Route, Continue, Refill,
       Reconcile, commands
  <2>6. ASSUME NEW i \in Idx, Issue(i) \/ Begin(i)  PROVE UNCHANGED <<finished, routed>>
    BY <2>6 DEF Issue, Begin
  <2>7. CASE Enter \/ LoseIssue \/ Crash \/ UNCHANGED vars
    BY <2>3, <2>7 DEF Enter, LoseIssue, Crash, commands, vars
  <2> QED
    BY <2>1, <2>2, <2>3, <2>4, <2>5, <2>6, <2>7 DEF Next
<1>3. IInv /\ OnceInv /\ [Next]_vars => OnceInv'
  BY OnceNextInv, CarefulIsCalm
<1>4. IInv /\ OnceInv /\ PromiseInv /\ [Next]_vars => PromiseInv'
  BY PromiseNextInv
<1> QED
  BY <1>1, <1>2, <1>3, <1>4, OnceInitInv, PromiseInitInv, Invariance, PTL
     DEF Spec, KeepsPromise, Promise!Spec
=============================================================================

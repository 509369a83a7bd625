------------------------ MODULE BatchAcceptorProofs ------------------------
(***************************************************************************)
(* What holds of the batch acceptor for any batches, acceptor tasks, queue *)
(* size and number of stops: a request is on its way in one place, the     *)
(* requests of an execution are served in turn, task_done is called once   *)
(* for each job, and completed means issued.                               *)
(***************************************************************************)
EXTENDS BatchAcceptor, SequenceTheorems, FiniteSetTheorems, WellFoundedInduction, TLAPS

AcceptorType == [phase : Phases, jobs : Seq(Posts), first : BOOLEAN]
Serving      == {"status", "engine", "issue", "finish"}
InHandler    == {"put", "waiting", "woken"}
Open         == {"accepted", "processing"}

Queued   == Range(queue)
Held     == UNION {JobsOf(a) : a \in Acceptors}

\* Groups that still owe the task_done of their first job.
OpenGroups == {a \in Acceptors : acceptor[a].jobs # <<>> /\ ~acceptor[a].first}

\* The types, but for the sign of unfinished.
BatchTypes ==
    /\ configured \subseteq Acceptors
    /\ post \in [Posts -> {"none", "read", "put", "waiting", "woken", "ok",
                           "duplicate", "refused"}]
    /\ request \in [Posts -> {"none", "accepted", "processing", "completed", "failed"}]
    /\ queue \in Seq(Posts) /\ Len(queue) <= QueueMax
    /\ putters \in Seq(Posts)
    /\ acceptor \in [Acceptors -> AcceptorType]
    /\ lockOf \in [BatchExecutions -> Acceptors \cup {NoAcceptor}]
    /\ unfinished \in Int
    /\ puts \in Seq(Posts)
    /\ passes \in [Posts -> Nat] /\ chunksIssued \in [Posts -> Nat]
    /\ lost \subseteq Posts
    /\ crashes \in 0..MaxCrashes

\* An acceptor has jobs exactly when it is not waiting for one; it holds one
\* until it has the lock.  Tasks that are not configured never start.
Busy ==
    \A a \in Acceptors :
        /\ acceptor[a].phase \in {"off", "get"} <=> acceptor[a].jobs = <<>>
        /\ acceptor[a].phase = "lock" => Len(acceptor[a].jobs) = 1 /\ acceptor[a].first
        /\ a \notin configured => acceptor[a].phase = "off"

\* No request is twice in the queue, with an acceptor or among the putters.
NoRepeats ==
    /\ IsInjective(queue) /\ IsInjective(putters)
    /\ \A a \in Acceptors : IsInjective(acceptor[a].jobs)

PuttersWait == \A i \in DOMAIN putters : post[putters[i]] = "waiting"

\* Where the handler of a request is when the request is in the queue, with an
\* acceptor, or was not made; a request that is open and not lost is somewhere.
Places ==
    /\ \A h \in Queued : post[h] = "ok" /\ request[h] = "accepted"
                         /\ h \notin lost /\ h \notin Held
    /\ \A h \in Held : post[h] = "ok" /\ h \notin lost /\ request[h] \in Open
    /\ \A a, b \in Acceptors : a # b => JobsOf(a) \cap JobsOf(b) = {}
    /\ \A h \in Posts : post[h] \in InHandler => request[h] = "accepted" /\ h \notin lost
    /\ \A h \in Posts : post[h] \in {"none", "read", "duplicate"} =>
                            request[h] = "none" /\ h \notin lost
    /\ \A h \in Posts : request[h] \in Open /\ h \notin lost =>
                            post[h] \in InHandler \/ h \in Queued \/ h \in Held

\* Only the job that is processed has left the status accepted.
InProgress ==
    \A a \in Acceptors : \A i \in DOMAIN acceptor[a].jobs :
        request[acceptor[a].jobs[i]] =
            IF i = 1 /\ acceptor[a].phase \in {"engine", "issue", "finish"}
            THEN "processing" ELSE "accepted"

\* What task_done has not been called for yet.
Unfinished ==
    /\ IsFiniteSet(Queued) /\ IsFiniteSet(Held)
    /\ unfinished = Cardinality(Queued \cup Held) + Cardinality(OpenGroups)

\* The lock of an execution is with the acceptor that serves it.
UnderLock ==
    \A a \in Acceptors : acceptor[a].phase \in Serving =>
        \A h \in JobsOf(a) : lockOf[ExecOf(h)] = a

\* With one acceptor task, what was queued is a settled part, then the jobs of
\* the acceptor, then the queue.
SettledNow(h) == request[h] \in {"completed", "failed"} \/ h \in lost
InOrderFrom(a, n) ==
    /\ Len(puts) = n + Len(acceptor[a].jobs) + Len(queue)
    /\ \A i \in 1..n : SettledNow(puts[i])
    /\ \A i \in 1..Len(acceptor[a].jobs) : puts[n + i] = acceptor[a].jobs[i]
    /\ \A i \in 1..Len(queue) : puts[n + Len(acceptor[a].jobs) + i] = queue[i]
WorkedOffInOrder ==
    \A a \in Acceptors : configured = {a} => \E n \in Nat : InOrderFrom(a, n)

\* How far a request is with its commands, by its status and the phase.
Progress ==
    /\ \A h \in Posts : request[h] \in {"none", "accepted"} =>
                            passes[h] = 0 /\ chunksIssued[h] = 0
    /\ \A a \in Acceptors :
          /\ acceptor[a].phase = "engine" =>
                /\ Current(a)[1] \in Actionable
                /\ passes[Current(a)] = 0 /\ chunksIssued[Current(a)] = 0
          /\ acceptor[a].phase = "issue" =>
                /\ Current(a)[1] \in Actionable
                /\ passes[Current(a)] = 1 /\ chunksIssued[Current(a)] < Chunks
          /\ acceptor[a].phase = "finish" /\ Current(a)[1] \in Actionable =>
                passes[Current(a)] = 1 /\ chunksIssued[Current(a)] = Chunks

BatchInv ==
    /\ BatchTypes /\ Busy /\ NoRepeats /\ PuttersWait /\ Places /\ InProgress
    /\ Unfinished /\ UnderLock /\ WorkedOffInOrder /\ Progress /\ CompletedMeansIssued

-----------------------------------------------------------------------------
(* Sequences without repetition. *)

LEMMA SeqBasics ==
    ASSUME NEW S, NEW s \in Seq(S)
    PROVE  /\ Len(s) \in Nat /\ DOMAIN s = 1..Len(s)
           /\ \A i \in 1..Len(s) : s[i] \in S
           /\ s = <<>> <=> Len(s) = 0
           /\ Range(s) \subseteq S
BY EmptySeq, LenProperties, ElementOfSeq DEF Range

LEMMA TailNoRepeats ==
    ASSUME NEW S, NEW s \in Seq(S), s # <<>>
    PROVE  /\ Tail(s) \in Seq(S) /\ Len(Tail(s)) = Len(s) - 1 /\ Len(s) >= 1
           /\ \A i \in 1..Len(s) - 1 : Tail(s)[i] = s[i + 1]
           /\ Head(s) = s[1] /\ Head(s) \in S /\ Head(s) \in Range(s)
           /\ IsInjective(s) => /\ IsInjective(Tail(s))
                                /\ Range(Tail(s)) = Range(s) \ {Head(s)}
<1>1. /\ Tail(s) \in Seq(S) /\ Len(Tail(s)) = Len(s) - 1 /\ Len(s) >= 1
      /\ \A i \in 1..Len(s) - 1 : Tail(s)[i] = s[i + 1]
      /\ Head(s) = s[1] /\ Head(s) \in S
  BY HeadTailProperties, SeqBasics
<1>2. DOMAIN s = 1..Len(s) /\ DOMAIN Tail(s) = 1..(Len(s) - 1) /\ Len(s) \in Nat
  BY <1>1, SeqBasics
<1>3. Head(s) \in Range(s)  BY <1>1, <1>2 DEF Range
<1>4. ASSUME IsInjective(s) PROVE IsInjective(Tail(s))
  <2> SUFFICES ASSUME NEW i \in 1..(Len(s) - 1), NEW j \in 1..(Len(s) - 1),
                      Tail(s)[i] = Tail(s)[j]
               PROVE  i = j
    BY <1>2 DEF IsInjective
  <2>1. s[i + 1] = s[j + 1]  BY <1>1
  <2>2. i + 1 \in DOMAIN s /\ j + 1 \in DOMAIN s  BY <1>2
  <2>3. i + 1 = j + 1  BY <1>4, <2>1, <2>2 DEF IsInjective
  <2> QED  BY <2>3
<1>5. ASSUME IsInjective(s) PROVE Range(Tail(s)) = Range(s) \ {Head(s)}
  <2>1. ASSUME NEW i \in 1..(Len(s) - 1) PROVE Tail(s)[i] \in Range(s) \ {Head(s)}
    <3>1. i + 1 \in DOMAIN s /\ 1 \in DOMAIN s /\ i + 1 # 1  BY <1>2
    <3>2. s[i + 1] # s[1]  BY <1>5, <3>1 DEF IsInjective
    <3> QED  BY <1>1, <3>1, <3>2 DEF Range
  <2>2. ASSUME NEW i \in DOMAIN s, s[i] # Head(s) PROVE s[i] \in Range(Tail(s))
    <3>1. i - 1 \in DOMAIN Tail(s) /\ (i - 1) + 1 = i  BY <1>1, <1>2, <2>2
    <3>2. Tail(s)[i - 1] = s[i]  BY <1>1, <1>2, <3>1
    <3> QED  BY <3>1, <3>2 DEF Range
  <2> QED  BY <1>2, <2>1, <2>2 DEF Range
<1> QED  BY <1>1, <1>3, <1>4, <1>5

LEMMA AppendNoRepeats ==
    ASSUME NEW S, NEW s \in Seq(S), NEW e \in S
    PROVE  /\ Append(s, e) \in Seq(S) /\ Len(Append(s, e)) = Len(s) + 1
           /\ \A i \in 1..Len(s) : Append(s, e)[i] = s[i]
           /\ Append(s, e)[Len(s) + 1] = e
           /\ Range(Append(s, e)) = Range(s) \cup {e}
           /\ IsInjective(s) /\ e \notin Range(s) => IsInjective(Append(s, e))
<1> DEFINE t == Append(s, e)
<1>1. /\ t \in Seq(S) /\ Len(t) = Len(s) + 1 /\ \A i \in 1..Len(s) : t[i] = s[i]
      /\ t[Len(s) + 1] = e
  BY AppendProperties
<1>2. /\ DOMAIN s = 1..Len(s) /\ DOMAIN t = 1..(Len(s) + 1) /\ Len(s) \in Nat
  BY <1>1, SeqBasics
<1> HIDE DEF t
<1>3. Range(t) = Range(s) \cup {e}
  <2>1. \A i \in DOMAIN t : t[i] \in Range(s) \cup {e}  BY <1>1, <1>2 DEF Range
  <2>2. \A i \in DOMAIN s : s[i] \in Range(t)  BY <1>1, <1>2 DEF Range
  <2>3. e \in Range(t)  BY <1>1, <1>2 DEF Range
  <2> QED  BY <2>1, <2>2, <2>3 DEF Range
<1>4. ASSUME IsInjective(s), e \notin Range(s) PROVE IsInjective(t)
  <2>1. \A i \in 1..Len(s) : t[i] # e  BY <1>1, <1>2, <1>4 DEF Range
  <2>2. \A i, j \in 1..Len(s) : t[i] = t[j] => i = j  BY <1>1, <1>2, <1>4 DEF IsInjective
  <2>3. \A i \in DOMAIN t : i \in 1..Len(s) \/ i = Len(s) + 1  BY <1>2
  <2> QED  BY <1>1, <2>1, <2>2, <2>3 DEF IsInjective
<1> QED  BY <1>1, <1>3, <1>4 DEF t

LEMMA SplitNoRepeats ==
    ASSUME NEW S, NEW s \in Seq(S), NEW n \in 0..Len(s)
    PROVE  /\ SubSeq(s, 1, n) \in Seq(S) /\ Len(SubSeq(s, 1, n)) = n
           /\ \A i \in 1..n : SubSeq(s, 1, n)[i] = s[i]
           /\ SubSeq(s, n + 1, Len(s)) \in Seq(S)
           /\ Len(SubSeq(s, n + 1, Len(s))) = Len(s) - n
           /\ \A i \in 1..(Len(s) - n) : SubSeq(s, n + 1, Len(s))[i] = s[n + i]
           /\ Range(SubSeq(s, 1, n)) \cup Range(SubSeq(s, n + 1, Len(s))) = Range(s)
           /\ IsInjective(s) =>
                 /\ IsInjective(SubSeq(s, 1, n)) /\ IsInjective(SubSeq(s, n + 1, Len(s)))
                 /\ Range(SubSeq(s, 1, n)) \cap Range(SubSeq(s, n + 1, Len(s))) = {}
<1> DEFINE u == SubSeq(s, 1, n)
           v == SubSeq(s, n + 1, Len(s))
<1>1. Len(s) \in Nat /\ DOMAIN s = 1..Len(s) /\ n \in Nat /\ n <= Len(s)
      /\ \A i \in 1..Len(s) : s[i] \in S
  BY SeqBasics
<1>2. u \in Seq(S) /\ Len(u) = n /\ \A i \in 1..n : u[i] = s[i]
  <2>1. \A i \in 1..n : s[i] \in S  BY <1>1
  <2>2. /\ u \in Seq(S) /\ Len(u) = (IF 1 <= n THEN n - 1 + 1 ELSE 0)
        /\ \A i \in 1..(n - 1 + 1) : u[i] = s[1 + i - 1]
    BY <1>1, <2>1, SubSeqProperties
  <2> HIDE DEF u
  <2>3. \A i \in 1..n : i \in 1..(n - 1 + 1) /\ 1 + i - 1 = i  BY <1>1
  <2> QED  BY <1>1, <2>2, <2>3
<1>3. v \in Seq(S) /\ Len(v) = Len(s) - n /\ \A i \in 1..(Len(s) - n) : v[i] = s[n + i]
  <2>1. \A i \in (n + 1)..Len(s) : s[i] \in S  BY <1>1
  <2>2. /\ v \in Seq(S)
        /\ Len(v) = (IF n + 1 <= Len(s) THEN Len(s) - (n + 1) + 1 ELSE 0)
        /\ \A i \in 1..(Len(s) - (n + 1) + 1) : v[i] = s[(n + 1) + i - 1]
    BY <1>1, <2>1, SubSeqProperties
  <2> HIDE DEF v
  <2>3. \A i \in 1..(Len(s) - n) : i \in 1..(Len(s) - (n + 1) + 1) /\ (n + 1) + i - 1 = n + i
    BY <1>1
  <2>4. Len(v) = Len(s) - n
    <3>1. CASE n + 1 <= Len(s)
      <4>1. Len(v) = Len(s) - (n + 1) + 1  BY <2>2, <3>1
      <4> QED  BY <1>1, <4>1
    <3>2. CASE ~(n + 1 <= Len(s))
      <4>1. Len(v) = 0  BY <2>2, <3>2
      <4>2. n = Len(s)
        <5> DEFINE N == Len(s)
        <5>1. N \in Nat /\ n \in Nat /\ n <= N /\ ~(n + 1 <= N)  BY <1>1, <3>2
        <5> HIDE DEF N
        <5>2. n = N  BY <5>1
        <5> QED  BY <5>2 DEF N
      <4>3. Len(s) - n = 0  BY <1>1, <4>2
      <4> QED  BY <4>1, <4>3
    <3> QED  BY <3>1, <3>2
  <2>5. \A i \in 1..(Len(s) - n) : v[i] = s[n + i]  BY <2>2, <2>3
  <2> QED  BY <2>2, <2>4, <2>5
<1>4. DOMAIN u = 1..n /\ DOMAIN v = 1..(Len(s) - n)  BY <1>2, <1>3, SeqBasics
<1> HIDE DEF u, v
<1>5. \A i \in 1..Len(s) : i \in 1..n \/ (i - n \in 1..(Len(s) - n) /\ n + (i - n) = i)
  BY <1>1
<1>6. \A i \in 1..n : i \in 1..Len(s)  BY <1>1
<1>7. \A i \in 1..(Len(s) - n) : n + i \in 1..Len(s) /\ n + i \notin 1..n  BY <1>1
<1>8. Range(u) \cup Range(v) = Range(s)
  <2>1. \A i \in 1..n : u[i] \in Range(s)  BY <1>1, <1>2, <1>6 DEF Range
  <2>2. \A i \in 1..(Len(s) - n) : v[i] \in Range(s)  BY <1>1, <1>3, <1>7 DEF Range
  <2>3. ASSUME NEW i \in 1..Len(s) PROVE s[i] \in Range(u) \cup Range(v)
    <3>1. CASE i \in 1..n  BY <1>2, <1>4, <3>1 DEF Range
    <3>2. CASE i - n \in 1..(Len(s) - n) /\ n + (i - n) = i
      <4>1. v[i - n] = s[i]  BY <1>3, <3>2
      <4> QED  BY <1>4, <3>2, <4>1 DEF Range
    <3> QED  BY <1>5, <3>1, <3>2
  <2> QED  BY <1>1, <1>4, <2>1, <2>2, <2>3 DEF Range
<1>9. ASSUME IsInjective(s)
      PROVE  IsInjective(u) /\ IsInjective(v) /\ Range(u) \cap Range(v) = {}
  <2>1. IsInjective(u)  BY <1>1, <1>2, <1>4, <1>6, <1>9 DEF IsInjective
  <2>2. IsInjective(v)
    <3> SUFFICES ASSUME NEW i \in 1..(Len(s) - n), NEW j \in 1..(Len(s) - n), v[i] = v[j]
                 PROVE  i = j
      BY <1>4 DEF IsInjective
    <3>1. s[n + i] = s[n + j]  BY <1>3
    <3>2. n + i = n + j  BY <1>1, <1>7, <1>9, <3>1 DEF IsInjective
    <3> QED  BY <1>1, <3>2
  <2>3. ASSUME NEW i \in 1..n, NEW j \in 1..(Len(s) - n), u[i] = v[j] PROVE FALSE
    <3>1. s[i] = s[n + j]  BY <1>2, <1>3, <2>3
    <3>2. i = n + j  BY <1>1, <1>6, <1>7, <1>9, <3>1 DEF IsInjective
    <3> QED  BY <1>1, <3>2
  <2> QED  BY <1>4, <2>1, <2>2, <2>3 DEF Range
<1> QED  BY <1>2, <1>3, <1>8, <1>9 DEF u, v

\* A putter that gives up leaves the others in their order, and is in no place.
LEMMA WithoutPutterIsOut ==
    ASSUME NEW S, NEW s \in Seq(S), NEW h, IsInjective(s)
    PROVE  /\ WithoutPutter(s, h) \in Seq(S) /\ IsInjective(WithoutPutter(s, h))
           /\ Range(WithoutPutter(s, h)) = Range(s) \ {h}
<1>1. CASE ~\E i \in DOMAIN s : s[i] = h
  <2>1. WithoutPutter(s, h) = s  BY <1>1 DEF WithoutPutter
  <2>2. h \notin Range(s)  BY <1>1 DEF Range
  <2> QED  BY <2>1, <2>2
<1>2. CASE \E i \in DOMAIN s : s[i] = h
  <2> DEFINE k == CHOOSE i \in DOMAIN s : s[i] = h
             u == SubSeq(s, 1, k - 1)
             v == SubSeq(s, k + 1, Len(s))
  <2>1. k \in DOMAIN s /\ s[k] = h  BY <1>2
  <2>2. WithoutPutter(s, h) = u \o v  BY <1>2 DEF WithoutPutter, RemoveAt
  <2> HIDE DEF k
  <2>3. k \in 1..Len(s) /\ Len(s) \in Nat /\ DOMAIN s = 1..Len(s)  BY <2>1, SeqBasics
  <2>4. k - 1 \in 0..Len(s) /\ k \in 0..Len(s)  BY <2>3
  <2>5. /\ u \in Seq(S) /\ Len(u) = k - 1 /\ \A i \in 1..(k - 1) : u[i] = s[i]
    BY <2>4, SplitNoRepeats
  <2>6. /\ v \in Seq(S) /\ Len(v) = Len(s) - k
        /\ \A i \in 1..(Len(s) - k) : v[i] = s[k + i]
    BY <2>4, SplitNoRepeats
  <2> HIDE DEF u, v
  <2> DEFINE w == u \o v
  <2>7. /\ w \in Seq(S) /\ Len(w) = Len(s) - 1
        /\ \A i \in 1..(Len(s) - 1) : w[i] = IF i <= k - 1 THEN u[i] ELSE v[i - (k - 1)]
    <3>1. /\ w \in Seq(S) /\ Len(w) = Len(u) + Len(v)
          /\ \A i \in 1..(Len(u) + Len(v)) : w[i] = IF i <= Len(u) THEN u[i] ELSE v[i - Len(u)]
      BY <2>5, <2>6, ConcatProperties
    <3>2. Len(u) + Len(v) = Len(s) - 1  BY <2>3, <2>5, <2>6
    <3> QED  BY <3>1, <3>2, <2>5
  <2> HIDE DEF w
  <2>8. DOMAIN w = 1..(Len(s) - 1)  BY <2>7, SeqBasics
  <2>9. \A i \in 1..(k - 1) : i \in 1..(Len(s) - 1) /\ w[i] = s[i] /\ i \in DOMAIN s
    BY <2>3, <2>5, <2>7
  <2>10. \A i \in k..(Len(s) - 1) : i \in 1..(Len(s) - 1) /\ w[i] = s[i + 1] /\ i + 1 \in DOMAIN s
    <3> SUFFICES ASSUME NEW i \in k..(Len(s) - 1)
                 PROVE  i \in 1..(Len(s) - 1) /\ w[i] = s[i + 1] /\ i + 1 \in DOMAIN s
      OBVIOUS
    <3>1. /\ i \in 1..(Len(s) - 1) /\ ~(i <= k - 1) /\ i - (k - 1) \in 1..(Len(s) - k)
          /\ k + (i - (k - 1)) = i + 1 /\ i + 1 \in DOMAIN s
      BY <2>3
    <3>2. w[i] = v[i - (k - 1)]  BY <2>7, <3>1
    <3>3. v[i - (k - 1)] = s[k + (i - (k - 1))]  BY <2>6, <3>1
    <3> QED  BY <3>1, <3>2, <3>3
  <2>11. \A i \in 1..(Len(s) - 1) : i \in 1..(k - 1) \/ i \in k..(Len(s) - 1)  BY <2>3
  <2>12. IsInjective(w)
    <3> SUFFICES ASSUME NEW i \in 1..(Len(s) - 1), NEW j \in 1..(Len(s) - 1), w[i] = w[j]
                 PROVE  i = j
      BY <2>8 DEF IsInjective
    <3>1. CASE i \in 1..(k - 1) /\ j \in 1..(k - 1)  BY <2>9, <3>1 DEF IsInjective
    <3>2. CASE i \in 1..(k - 1) /\ j \in k..(Len(s) - 1)
      <4>1. i = j + 1  BY <2>9, <2>10, <3>2 DEF IsInjective
      <4> QED  BY <2>3, <3>2, <4>1
    <3>3. CASE i \in k..(Len(s) - 1) /\ j \in 1..(k - 1)
      <4>1. i + 1 = j  BY <2>9, <2>10, <3>3 DEF IsInjective
      <4> QED  BY <2>3, <3>3, <4>1
    <3>4. CASE i \in k..(Len(s) - 1) /\ j \in k..(Len(s) - 1)
      <4>1. i + 1 = j + 1  BY <2>10, <3>4 DEF IsInjective
      <4> QED  BY <2>3, <4>1
    <3> QED  BY <2>11, <3>1, <3>2, <3>3, <3>4
  <2>13. Range(w) = Range(s) \ {h}
    <3>1. ASSUME NEW i \in 1..(Len(s) - 1) PROVE w[i] \in Range(s) \ {h}
      <4>1. CASE i \in 1..(k - 1)
        <5>1. i # k  BY <2>3, <4>1
        <5>2. s[i] # h  BY <2>1, <2>9, <4>1, <5>1 DEF IsInjective
        <5> QED  BY <2>9, <4>1, <5>2 DEF Range
      <4>2. CASE i \in k..(Len(s) - 1)
        <5>1. i + 1 # k  BY <2>3, <4>2
        <5>2. s[i + 1] # h  BY <2>1, <2>10, <4>2, <5>1 DEF IsInjective
        <5> QED  BY <2>10, <4>2, <5>2 DEF Range
      <4> QED  BY <2>11, <4>1, <4>2
    <3>2. ASSUME NEW i \in 1..Len(s), s[i] # h PROVE s[i] \in Range(w)
      <4>1. CASE i \in 1..(k - 1)  BY <2>8, <2>9, <4>1 DEF Range
      <4>2. CASE ~(i \in 1..(k - 1))
        <5>1. i # k  BY <2>1, <3>2
        <5>2. i - 1 \in k..(Len(s) - 1) /\ (i - 1) + 1 = i  BY <2>3, <4>2, <5>1
        <5>3. w[i - 1] = s[i] /\ i - 1 \in DOMAIN w  BY <2>8, <2>10, <5>2
        <5> QED  BY <5>3 DEF Range
      <4> QED  BY <4>1, <4>2
    <3> QED  BY <2>3, <2>8, <3>1, <3>2 DEF Range
  <2> QED  BY <2>2, <2>7, <2>12, <2>13 DEF w
<1> QED  BY <1>1, <1>2

\* A group is its first job and the jobs drained after it.
LEMMA GroupNoRepeats ==
    ASSUME NEW r \in Posts, NEW u \in Seq(Posts)
    PROVE  /\ Group(r, u) \in Seq(Posts) /\ Len(Group(r, u)) = Len(u) + 1
           /\ Group(r, u) # <<>>
           /\ Group(r, u)[1] = r /\ \A i \in 1..Len(u) : Group(r, u)[i + 1] = u[i]
           /\ Range(Group(r, u)) = {r} \cup Range(u)
           /\ IsInjective(u) /\ r \notin Range(u) => IsInjective(Group(r, u))
<1> DEFINE g == Group(r, u)
           one == <<r>>
<1>1. one \in Seq(Posts) /\ Len(one) = 1 /\ one[1] = r  OBVIOUS
<1>2. g = one \o u  BY DEF Group
<1> HIDE DEF g, one
<1>3. /\ g \in Seq(Posts) /\ Len(g) = 1 + Len(u)
      /\ \A i \in 1..(1 + Len(u)) : g[i] = IF i <= 1 THEN one[i] ELSE u[i - 1]
  BY <1>1, <1>2, ConcatProperties
<1>4. Len(u) \in Nat /\ DOMAIN u = 1..Len(u) /\ DOMAIN g = 1..(1 + Len(u))
  BY <1>3, SeqBasics
<1>5. g[1] = r  BY <1>1, <1>3, <1>4
<1>6. \A i \in 1..Len(u) : g[i + 1] = u[i]
  <2> SUFFICES ASSUME NEW i \in 1..Len(u) PROVE g[i + 1] = u[i]  OBVIOUS
  <2>1. i + 1 \in 1..(1 + Len(u)) /\ ~(i + 1 <= 1) /\ (i + 1) - 1 = i  BY <1>4
  <2>2. g[i + 1] = u[(i + 1) - 1]  BY <1>3, <2>1
  <2> QED  BY <2>1, <2>2
<1>7. \A i \in 1..(1 + Len(u)) : i = 1 \/ (i - 1 \in 1..Len(u) /\ (i - 1) + 1 = i)  BY <1>4
<1>8. 1 \in DOMAIN g /\ \A i \in 1..Len(u) : i + 1 \in DOMAIN g  BY <1>4
<1>9. Range(g) = {r} \cup Range(u)
  <2>1. \A i \in DOMAIN g : g[i] \in {r} \cup Range(u)
    <3> SUFFICES ASSUME NEW i \in DOMAIN g, i # 1 PROVE g[i] \in Range(u)  BY <1>5
    <3>1. i - 1 \in 1..Len(u) /\ (i - 1) + 1 = i  BY <1>4, <1>7
    <3>2. g[i] = u[i - 1]  BY <1>6, <3>1
    <3> QED  BY <1>4, <3>1, <3>2 DEF Range
  <2>2. r \in Range(g)  BY <1>5, <1>8 DEF Range
  <2>3. \A i \in DOMAIN u : u[i] \in Range(g)
    <3> SUFFICES ASSUME NEW i \in DOMAIN u PROVE u[i] \in Range(g)  OBVIOUS
    <3>1. g[i + 1] = u[i] /\ i + 1 \in DOMAIN g  BY <1>4, <1>6, <1>8
    <3> QED  BY <3>1 DEF Range
  <2> QED  BY <2>1, <2>2, <2>3 DEF Range
<1>10. ASSUME IsInjective(u), r \notin Range(u) PROVE IsInjective(g)
  <2> SUFFICES ASSUME NEW i \in DOMAIN g, NEW j \in DOMAIN g, g[i] = g[j] PROVE i = j
    BY DEF IsInjective
  <2>1. \A k \in 1..Len(u) : u[k] # r  BY <1>4, <1>10 DEF Range
  <2>2. CASE i = 1 \/ j = 1
    <3>1. \A k \in DOMAIN g : k # 1 => g[k] # r
      <4> SUFFICES ASSUME NEW k \in DOMAIN g, k # 1 PROVE g[k] # r  OBVIOUS
      <4>1. k - 1 \in 1..Len(u) /\ (k - 1) + 1 = k  BY <1>4, <1>7
      <4>2. g[k] = u[k - 1]  BY <1>6, <4>1
      <4> QED  BY <2>1, <4>1, <4>2
    <3> QED  BY <1>5, <2>2, <3>1
  <2>3. CASE i # 1 /\ j # 1
    <3>1. /\ i - 1 \in 1..Len(u) /\ (i - 1) + 1 = i
          /\ j - 1 \in 1..Len(u) /\ (j - 1) + 1 = j
      BY <1>4, <1>7, <2>3
    <3>2. u[i - 1] = u[j - 1]  BY <1>6, <3>1
    <3>3. i - 1 = j - 1  BY <1>4, <1>10, <3>1, <3>2 DEF IsInjective
    <3> QED  BY <3>1, <3>3
  <2> QED  BY <2>2, <2>3
<1>11. g # <<>>  BY <1>3, <1>4
<1> QED  BY <1>3, <1>4, <1>5, <1>6, <1>9, <1>10, <1>11 DEF g

LEMMA NaturalsHaveMin ==
    ASSUME NEW T \in SUBSET Nat, T # {}
    PROVE  Min(T) \in T /\ \A i \in T : Min(T) <= i
<1>1. PICK x \in T : \A y \in T : ~(<<y, x>> \in OpToRel(<, Nat))
  BY WFMin, NatLessThanWellFounded
<1>2. ASSUME NEW y \in T PROVE x <= y
  <2>1. x \in Nat /\ y \in Nat  OBVIOUS
  <2>2. ~(y < x)
    <3>1. <<y, x>> \in Nat \X Nat /\ <<y, x>>[1] = y /\ <<y, x>>[2] = x  BY <2>1
    <3>2. y < x => <<y, x>> \in {ss \in Nat \X Nat : ss[1] < ss[2]}  BY <3>1
    <3>3. {ss \in Nat \X Nat : ss[1] < ss[2]} = OpToRel(<, Nat)  BY DEF OpToRel
    <3> QED  BY <1>1, <3>2, <3>3
  <2> QED  BY <2>1, <2>2
<1> QED  BY <1>1, <1>2 DEF Min

\* What an acceptor drains belongs to one execution and is a prefix of the queue.
LEMMA ContiguousJobs ==
    ASSUME NEW q \in Seq(Posts), NEW e
    PROVE  /\ Contiguous(q, e) \in 0..Len(q)
           /\ \A i \in 1..Contiguous(q, e) : ExecOf(q[i]) = e
<1> DEFINE others == {i \in DOMAIN q : ExecOf(q[i]) # e}
<1>1. Len(q) \in Nat /\ DOMAIN q = 1..Len(q)  BY SeqBasics
<1>2. others \in SUBSET Nat /\ \A i \in others : i \in 1..Len(q)  BY <1>1
<1>3. CASE others = {}
  <2>1. Contiguous(q, e) = Len(q)  BY <1>3 DEF Contiguous
  <2> QED  BY <1>1, <1>3, <2>1
<1>4. CASE others # {}
  <2>1. Contiguous(q, e) = Min(others) - 1  BY <1>4 DEF Contiguous
  <2>2. Min(others) \in others /\ \A i \in others : Min(others) <= i
    <3> HIDE DEF others
    <3> QED  BY <1>2, <1>4, NaturalsHaveMin
  <2>3. Min(others) \in 1..Len(q)  BY <1>2, <2>2
  <2>4. ASSUME NEW i \in 1..(Min(others) - 1) PROVE ExecOf(q[i]) = e
    <3>1. i \in DOMAIN q /\ ~(Min(others) <= i)  BY <1>1, <2>3
    <3>2. i \notin others  BY <2>2, <3>1
    <3> QED  BY <3>1, <3>2
  <2>5. Min(others) - 1 \in 0..Len(q)  BY <1>1, <2>3
  <2> QED  BY <2>1, <2>4, <2>5
<1> QED  BY <1>3, <1>4

-----------------------------------------------------------------------------
(* The initial state, and what steps leave alone. *)

LEMMA BatchInitInv == BatchInit => BatchInv
<1> SUFFICES ASSUME BatchInit PROVE BatchInv  OBVIOUS
<1>1. Off \in AcceptorType  BY DEF Off, AcceptorType, Phases
<1>2. <<>> \in Seq(Posts) /\ Len(<<>>) = 0 /\ DOMAIN <<>> = {}
  OBVIOUS
<1>3. acceptor \in [Acceptors -> AcceptorType] /\ \A a \in Acceptors : acceptor[a] = Off
  BY <1>1 DEF BatchInit
<1>4. \A a \in Acceptors : acceptor[a].jobs = <<>> /\ acceptor[a].phase = "off"
  BY <1>3 DEF Off
<1>5. Queued = {} /\ Held = {} /\ OpenGroups = {} /\ \A a \in Acceptors : JobsOf(a) = {}
  <2>1. Range(<<>>) = {}  BY <1>2 DEF Range
  <2>2. \A a \in Acceptors : JobsOf(a) = {}  BY <1>4, <2>1 DEF JobsOf
  <2> QED  BY <1>4, <2>1, <2>2 DEF Queued, Held, OpenGroups, BatchInit
<1>6. BatchTypes
  <2>1. MaxCrashes \in Nat /\ QueueMax \in Nat /\ Len(<<>>) <= QueueMax
    BY <1>2, BatchAssumption
  <2>2. crashes \in 0..MaxCrashes  BY <2>1 DEF BatchInit
  <2>3. post \in [Posts -> {"none", "read", "put", "waiting", "woken", "ok",
                           "duplicate", "refused"}]
        /\ request \in [Posts -> {"none", "accepted", "processing", "completed", "failed"}]
        /\ passes \in [Posts -> Nat] /\ chunksIssued \in [Posts -> Nat]
    BY DEF BatchInit
  <2>4. lockOf \in [BatchExecutions -> Acceptors \cup {NoAcceptor}]  BY DEF BatchInit
  <2>5. queue \in Seq(Posts) /\ Len(queue) <= QueueMax /\ putters \in Seq(Posts)
        /\ puts \in Seq(Posts)
    BY <1>2, <2>1 DEF BatchInit
  <2>6. configured \subseteq Acceptors /\ unfinished \in Int /\ lost \subseteq Posts
    BY DEF BatchInit
  <2> QED  BY <1>3, <2>2, <2>3, <2>4, <2>5, <2>6 DEF BatchTypes
<1>7. Busy  BY <1>4 DEF Busy
<1>8. NoRepeats /\ PuttersWait
  BY <1>2, <1>4 DEF NoRepeats, PuttersWait, IsInjective, BatchInit
<1>9. Places  BY <1>5 DEF Places, InHandler, Open, BatchInit
<1>10. InProgress  BY <1>2, <1>4 DEF InProgress
<1>11. Unfinished
  <2>1. IsFiniteSet({}) /\ Cardinality({}) = 0  BY FS_EmptySet
  <2>2. Queued \cup Held = {} /\ unfinished = 0  BY <1>5 DEF BatchInit
  <2> QED  BY <1>5, <2>1, <2>2 DEF Unfinished
<1>12. UnderLock  BY <1>5 DEF UnderLock
<1>13. WorkedOffInOrder
  <2> SUFFICES ASSUME NEW a \in Acceptors PROVE InOrderFrom(a, 0)
    BY DEF WorkedOffInOrder
  <2>1. Len(puts) = 0 /\ Len(acceptor[a].jobs) = 0 /\ Len(queue) = 0
    BY <1>2, <1>4 DEF BatchInit
  <2> QED  BY <2>1 DEF InOrderFrom
<1>14. Progress  BY <1>4 DEF Progress, BatchInit
<1>15. CompletedMeansIssued
  <2>1. Chunks \in Nat  BY BatchAssumption
  <2> QED  BY <2>1 DEF CompletedMeansIssued, BatchInit
<1> QED  BY <1>6, <1>7, <1>8, <1>9, <1>10, <1>11, <1>12, <1>13, <1>14, <1>15 DEF BatchInv

\* The jobs of an acceptor.
LEMMA JobsTyped ==
    ASSUME BatchTypes, NEW a \in Acceptors
    PROVE  /\ acceptor[a] \in AcceptorType /\ acceptor[a].jobs \in Seq(Posts)
           /\ acceptor[a].phase \in Phases /\ acceptor[a].first \in BOOLEAN
           /\ DOMAIN acceptor[a].jobs = 1..Len(acceptor[a].jobs)
           /\ Len(acceptor[a].jobs) \in Nat
           /\ JobsOf(a) \subseteq Posts /\ JobsOf(a) \subseteq Held
           /\ Queued \subseteq Posts /\ Held \subseteq Posts
           /\ \A h \in Held : \E b \in Acceptors : h \in JobsOf(b)
           /\ acceptor[a].jobs # <<>> =>
                 /\ Current(a) = acceptor[a].jobs[1] /\ Current(a) \in Posts
                 /\ Current(a) \in JobsOf(a) /\ Len(acceptor[a].jobs) >= 1
<1>1. \A b \in Acceptors : acceptor[b] \in AcceptorType /\ acceptor[b].jobs \in Seq(Posts)
                           /\ acceptor[b].phase \in Phases /\ acceptor[b].first \in BOOLEAN
  BY DEF BatchTypes, AcceptorType
<1>2. \A b \in Acceptors : JobsOf(b) \subseteq Posts  BY <1>1, SeqBasics DEF JobsOf
<1>3. Queued \subseteq Posts  BY SeqBasics DEF Queued, BatchTypes
<1>4. Held \subseteq Posts /\ JobsOf(a) \subseteq Held
      /\ \A h \in Held : \E b \in Acceptors : h \in JobsOf(b)
  BY <1>2 DEF Held
<1>5. DOMAIN acceptor[a].jobs = 1..Len(acceptor[a].jobs) /\ Len(acceptor[a].jobs) \in Nat
  BY <1>1, SeqBasics
<1>6. ASSUME acceptor[a].jobs # <<>>
      PROVE  /\ Current(a) = acceptor[a].jobs[1] /\ Current(a) \in Posts
             /\ Current(a) \in JobsOf(a) /\ Len(acceptor[a].jobs) >= 1
  BY <1>1, <1>6, TailNoRepeats DEF Current, JobsOf
<1> QED  BY <1>1, <1>2, <1>3, <1>4, <1>5, <1>6

\* A step that leaves the queue and all jobs alone.
LEMMA SameJobs ==
    ASSUME queue' = queue, \A a \in Acceptors : acceptor'[a].jobs = acceptor[a].jobs
    PROVE  /\ Queued' = Queued /\ Held' = Held
           /\ \A a \in Acceptors : JobsOf(a)' = JobsOf(a)
<1>1. \A a \in Acceptors : JobsOf(a)' = JobsOf(a)  BY DEF JobsOf
<1> QED  BY <1>1 DEF Queued, Held

\* ... and the queue's history, while what is settled stays so.
LEMMA SameOrder ==
    ASSUME BatchTypes, WorkedOffInOrder, configured' = configured, puts' = puts, queue' = queue,
           \A a \in Acceptors : acceptor'[a].jobs = acceptor[a].jobs,
           \A h \in Posts : SettledNow(h) => SettledNow(h)'
    PROVE  WorkedOffInOrder'
<1> SUFFICES ASSUME NEW a \in Acceptors, configured = {a}
             PROVE  \E n \in Nat : InOrderFrom(a, n)'
  BY DEF WorkedOffInOrder
<1>1. PICK n \in Nat : InOrderFrom(a, n)  BY DEF WorkedOffInOrder
<1>2. Len(puts) \in Nat /\ Len(acceptor[a].jobs) \in Nat /\ Len(queue) \in Nat
      /\ \A i \in 1..Len(puts) : puts[i] \in Posts
  BY JobsTyped, SeqBasics DEF BatchTypes
<1>3. \A i \in 1..n : i \in 1..Len(puts)  BY <1>1, <1>2 DEF InOrderFrom
<1>4. \A i \in 1..n : SettledNow(puts[i])'
  <2> SUFFICES ASSUME NEW i \in 1..n PROVE SettledNow(puts[i])'  OBVIOUS
  <2>1. puts[i] \in Posts /\ SettledNow(puts[i])  BY <1>1, <1>2, <1>3 DEF InOrderFrom
  <2>2. puts[i] \in Posts /\ puts'[i] = puts[i]  BY <2>1
  <2> QED  BY <2>1, <2>2 DEF SettledNow
<1>5. InOrderFrom(a, n)'
  <2>1. acceptor'[a].jobs = acceptor[a].jobs  OBVIOUS
  <2>2. Len(puts') = n + Len(acceptor'[a].jobs) + Len(queue')  BY <1>1, <2>1 DEF InOrderFrom
  <2>3. /\ \A i \in 1..Len(acceptor'[a].jobs) : puts'[n + i] = acceptor'[a].jobs[i]
        /\ \A i \in 1..Len(queue') : puts'[n + Len(acceptor'[a].jobs) + i] = queue'[i]
    BY <1>1, <2>1 DEF InOrderFrom
  <2> QED  BY <1>4, <2>2, <2>3 DEF InOrderFrom
<1> QED  BY <1>5

\* Waking a putter: the putters left still wait, the others stay what they are.
LEMMA WakeNextFacts ==
    ASSUME NEW W, "waiting" \in W, "woken" \in W, NEW p \in [Posts -> W],
           NEW ps \in Seq(Posts), IsInjective(ps), \A i \in DOMAIN ps : p[ps[i]] = "waiting"
    PROVE  /\ WakeNext(p, ps) \in [Posts -> W]
           /\ AfterWake(ps) \in Seq(Posts) /\ IsInjective(AfterWake(ps))
           /\ \A i \in DOMAIN AfterWake(ps) : WakeNext(p, ps)[AfterWake(ps)[i]] = "waiting"
           /\ \A h \in Posts : \/ WakeNext(p, ps)[h] = p[h]
                               \/ p[h] = "waiting" /\ WakeNext(p, ps)[h] = "woken"
<1>1. CASE ps = <<>>  BY <1>1 DEF WakeNext, AfterWake
<1>2. CASE ps # <<>>
  <2>1. WakeNext(p, ps) = [p EXCEPT ![Head(ps)] = "woken"] /\ AfterWake(ps) = Tail(ps)
    BY <1>2 DEF WakeNext, AfterWake
  <2>2. /\ Tail(ps) \in Seq(Posts) /\ Len(Tail(ps)) = Len(ps) - 1 /\ Len(ps) >= 1
        /\ \A i \in 1..Len(ps) - 1 : Tail(ps)[i] = ps[i + 1]
        /\ Head(ps) = ps[1] /\ Head(ps) \in Posts
        /\ IsInjective(Tail(ps)) /\ Range(Tail(ps)) = Range(ps) \ {Head(ps)}
    BY <1>2, TailNoRepeats
  <2>3. DOMAIN ps = 1..Len(ps) /\ 1 \in DOMAIN ps  BY <2>2, SeqBasics
  <2>4. p[Head(ps)] = "waiting"  BY <2>2, <2>3
  <2>5. ASSUME NEW i \in DOMAIN Tail(ps)
        PROVE  WakeNext(p, ps)[Tail(ps)[i]] = "waiting"
    <3>1. Tail(ps)[i] \in Range(ps) \ {Head(ps)}  BY <2>2, <2>5 DEF Range
    <3>2. Tail(ps)[i] \in Posts /\ p[Tail(ps)[i]] = "waiting"
      <4>1. PICK j \in DOMAIN ps : Tail(ps)[i] = ps[j]  BY <3>1 DEF Range
      <4>2. ps[j] \in Posts  BY <2>3, SeqBasics
      <4> QED  BY <4>1, <4>2
    <3> QED  BY <2>1, <3>1, <3>2
  <2> QED  BY <2>1, <2>2, <2>4, <2>5
<1> QED  BY <1>1, <1>2

-----------------------------------------------------------------------------
(* The handler of a post. *)

\* The places after a step of one handler that touches neither queue nor jobs:
\* it is enough to look at that post.
LEMMA PlacesOfHandler ==
    ASSUME Places, BatchTypes, NEW h \in Posts,
           Queued' = Queued, Held' = Held, \A a \in Acceptors : JobsOf(a)' = JobsOf(a),
           h \notin Queued \cup Held,
           \A g \in Posts : \/ g = h
                            \/ /\ request'[g] = request[g] /\ (g \in lost' <=> g \in lost)
                               /\ \/ post'[g] = post[g]
                                  \/ post[g] = "waiting" /\ post'[g] = "woken",
           post'[h] \in InHandler => request'[h] = "accepted" /\ h \notin lost',
           post'[h] \in {"none", "read", "duplicate"} => request'[h] = "none" /\ h \notin lost',
           request'[h] \in Open /\ h \notin lost' => post'[h] \in InHandler
    PROVE  Places'
<1>1. Queued \subseteq Posts /\ Held \subseteq Posts
  <2>1. Queued \subseteq Posts  BY SeqBasics DEF Queued, BatchTypes
  <2>2. \A a \in Acceptors : JobsOf(a) \subseteq Posts  BY JobsTyped
  <2> QED  BY <2>1, <2>2 DEF Held
<1>2. \A g \in Queued' : post'[g] = "ok" /\ request'[g] = "accepted"
                         /\ g \notin lost' /\ g \notin Held'
  BY <1>1 DEF Places
<1>3. \A g \in Held' : post'[g] = "ok" /\ g \notin lost' /\ request'[g] \in Open
  BY <1>1 DEF Places
<1>4. \A a, b \in Acceptors : a # b => JobsOf(a)' \cap JobsOf(b)' = {}  BY DEF Places
<1>5. \A g \in Posts : post'[g] \in InHandler => request'[g] = "accepted" /\ g \notin lost'
  BY DEF Places, InHandler
<1>6. \A g \in Posts : post'[g] \in {"none", "read", "duplicate"} =>
                            request'[g] = "none" /\ g \notin lost'
  BY DEF Places
<1>7. \A g \in Posts : request'[g] \in Open /\ g \notin lost' =>
                            post'[g] \in InHandler \/ g \in Queued' \/ g \in Held'
  BY DEF Places, InHandler
<1> QED  BY <1>2, <1>3, <1>4, <1>5, <1>6, <1>7 DEF Places

\* ... and the same for the other facts about the jobs.
LEMMA JobsUntouched ==
    ASSUME BatchInv, BatchTypes', queue' = queue, puts' = puts, configured' = configured,
           unfinished' = unfinished, lockOf' = lockOf, acceptor' = acceptor,
           passes' = passes, chunksIssued' = chunksIssued, NEW h \in Posts,
           h \notin Queued \cup Held, ~SettledNow(h) \/ SettledNow(h)',
           request'[h] \in {"none", "accepted"} => passes[h] = 0 /\ chunksIssued[h] = 0,
           request'[h] # "completed",
           \A g \in Posts : g = h \/ (request'[g] = request[g] /\ (g \in lost => g \in lost'))
    PROVE  /\ Busy' /\ InProgress' /\ Unfinished' /\ UnderLock' /\ WorkedOffInOrder'
           /\ Progress' /\ CompletedMeansIssued'
           /\ Queued' = Queued /\ Held' = Held /\ \A a \in Acceptors : JobsOf(a)' = JobsOf(a)
           /\ \A a \in Acceptors : IsInjective(acceptor'[a].jobs)
<1>1. Queued' = Queued /\ Held' = Held /\ \A a \in Acceptors : JobsOf(a)' = JobsOf(a)
  BY SameJobs
<1>2. Busy'  BY DEF BatchInv, Busy
<1>3. InProgress'
  <2> SUFFICES ASSUME NEW a \in Acceptors, NEW i \in DOMAIN acceptor[a].jobs
               PROVE  request'[acceptor[a].jobs[i]] = request[acceptor[a].jobs[i]]
    BY DEF BatchInv, InProgress
  <2>1. acceptor[a].jobs[i] \in JobsOf(a)  BY DEF JobsOf, Range
  <2>2. acceptor[a].jobs[i] \in Posts /\ acceptor[a].jobs[i] \in Held
    BY <2>1, JobsTyped DEF BatchInv
  <2> QED  BY <2>2
<1>4. Unfinished'
  <2>1. OpenGroups' = OpenGroups  BY DEF OpenGroups
  <2> QED  BY <1>1, <2>1 DEF BatchInv, Unfinished
<1>5. UnderLock'
  <2>1. \A a \in Acceptors : acceptor'[a].phase \in Serving =>
            \A g \in JobsOf(a)' : lockOf'[ExecOf(g)] = a
    BY <1>1 DEF BatchInv, UnderLock
  <2> QED  BY <2>1 DEF UnderLock, ExecOf
<1>6. WorkedOffInOrder'
  <2>1. \A g \in Posts : SettledNow(g) => SettledNow(g)'  BY DEF SettledNow
  <2> QED  BY <2>1, SameOrder DEF BatchInv
<1>7. Progress'
  <2>1. \A g \in Posts : request'[g] \in {"none", "accepted"} =>
                            passes'[g] = 0 /\ chunksIssued'[g] = 0
    BY DEF BatchInv, Progress
  <2>2. \A a \in Acceptors : Current(a)' = Current(a)  BY DEF Current
  <2> QED  BY <2>1, <2>2 DEF BatchInv, Progress
<1>8. CompletedMeansIssued'
  BY DEF BatchInv, CompletedMeansIssued
<1> QED  BY <1>1, <1>2, <1>3, <1>4, <1>5, <1>6, <1>7, <1>8 DEF BatchInv, NoRepeats

\* A post whose handler runs, or has not started, is neither queued nor held.
LEMMA HandlerApart ==
    ASSUME BatchInv, NEW h \in Posts, post[h] # "ok"
    PROVE  h \notin Queued \cup Held
BY DEF BatchInv, Places

LEMMA PostReadInv ==
    ASSUME BatchInv, NEW b \in Batches, NEW n \in 1..MaxPosts[b], PostRead(b, n)
    PROVE  BatchInv'
<1> DEFINE h == <<b, n>>
<1>1. h \in Posts  BY DEF Posts
<1>2. post[h] = "none" /\ h \notin Queued \cup Held  BY <1>1, HandlerApart DEF PostRead
<1>3. /\ post' = [post EXCEPT ![h] = IF Recorded(b) THEN "duplicate" ELSE "read"]
      /\ acceptor' = [a \in Acceptors |->
                        IF a \in configured /\ acceptor[a].phase = "off" THEN IdleAcceptor
                        ELSE acceptor[a]]
      /\ UNCHANGED <<configured, request, queue, putters, lockOf, unfinished, puts,
                     passes, chunksIssued, lost, crashes>>
  BY DEF PostRead
<1> HIDE DEF h
<1>4. IdleAcceptor \in AcceptorType  BY DEF IdleAcceptor, AcceptorType, Phases
<1>5. BatchTypes'
  <2>1. acceptor' \in [Acceptors -> AcceptorType]  BY <1>3, <1>4 DEF BatchInv, BatchTypes
  <2>2. post' \in [Posts -> {"none", "read", "put", "waiting", "woken", "ok",
                           "duplicate", "refused"}]
    BY <1>1, <1>3 DEF BatchInv, BatchTypes
  <2> QED  BY <1>3, <2>1, <2>2 DEF BatchInv, BatchTypes
<1>6. \A a \in Acceptors :
        \/ acceptor'[a] = acceptor[a]
        \/ /\ a \in configured /\ acceptor[a].phase = "off" /\ acceptor[a].jobs = <<>>
           /\ acceptor'[a].phase = "get" /\ acceptor'[a].jobs = <<>>
  BY <1>3 DEF IdleAcceptor, BatchInv, Busy
<1>7. \A a \in Acceptors : acceptor'[a].jobs = acceptor[a].jobs  BY <1>6
<1>8. Queued' = Queued /\ Held' = Held /\ \A a \in Acceptors : JobsOf(a)' = JobsOf(a)
  BY <1>3, <1>7, SameJobs
<1>9. Busy'  BY <1>3, <1>6 DEF BatchInv, Busy
<1>10. NoRepeats'  BY <1>3, <1>7 DEF BatchInv, NoRepeats
<1>11. PuttersWait'
  <2>1. \A i \in DOMAIN putters : putters[i] # h  BY <1>2 DEF BatchInv, PuttersWait
  <2>2. \A i \in DOMAIN putters : putters[i] \in Posts
    BY SeqBasics DEF BatchInv, BatchTypes
  <2> QED  BY <1>1, <1>3, <2>1, <2>2 DEF BatchInv, BatchTypes, PuttersWait
<1>12. Places'
  <2>1. post'[h] \in {"duplicate", "read"} /\ \A g \in Posts : g # h => post'[g] = post[g]
    BY <1>1, <1>3 DEF BatchInv, BatchTypes
  <2>2. request'[h] = "none" /\ h \notin lost'  BY <1>1, <1>2, <1>3 DEF BatchInv, Places
  <2>3. post'[h] \notin InHandler /\ request'[h] \notin Open
    BY <2>1, <2>2 DEF InHandler, Open
  <2>4. \A g \in Posts : \/ g = h
                         \/ /\ request'[g] = request[g] /\ (g \in lost' <=> g \in lost)
                            /\ \/ post'[g] = post[g]
                               \/ post[g] = "waiting" /\ post'[g] = "woken"
    BY <1>3, <2>1
  <2> QED  BY <1>1, <1>2, <1>8, <2>2, <2>3, <2>4, PlacesOfHandler DEF BatchInv
<1>13. InProgress'
  <2> SUFFICES ASSUME NEW a \in Acceptors, NEW i \in DOMAIN acceptor'[a].jobs
               PROVE  request'[acceptor'[a].jobs[i]] =
                        IF i = 1 /\ acceptor'[a].phase \in {"engine", "issue", "finish"}
                        THEN "processing" ELSE "accepted"
    BY DEF InProgress
  <2>1. i \in DOMAIN acceptor[a].jobs  BY <1>7
  <2>2. acceptor'[a] = acceptor[a]  BY <1>6, <2>1
  <2> QED  BY <1>3, <2>1, <2>2 DEF BatchInv, InProgress
<1>14. Unfinished'
  <2>1. OpenGroups' = OpenGroups  BY <1>6 DEF OpenGroups
  <2> QED  BY <1>3, <1>8, <2>1 DEF BatchInv, Unfinished
<1>15. UnderLock'
  <2>1. \A a \in Acceptors : acceptor'[a].phase \in Serving =>
            \A g \in JobsOf(a)' : lockOf'[ExecOf(g)] = a
    BY <1>3, <1>6, <1>8 DEF BatchInv, UnderLock, Serving
  <2> QED  BY <2>1 DEF UnderLock, ExecOf
<1>16. WorkedOffInOrder'
  <2>1. \A g \in Posts : SettledNow(g) => SettledNow(g)'  BY <1>3 DEF SettledNow
  <2> QED  BY <1>3, <1>7, <2>1, SameOrder DEF BatchInv
<1>17. Progress'
  <2>1. \A a \in Acceptors : acceptor'[a].phase \in {"engine", "issue", "finish"} =>
            acceptor'[a] = acceptor[a] /\ Current(a)' = Current(a)
    BY <1>6 DEF Current
  <2> QED  BY <1>3, <2>1 DEF BatchInv, Progress
<1>18. CompletedMeansIssued'  BY <1>3 DEF BatchInv, CompletedMeansIssued
<1> QED  BY <1>5, <1>9, <1>10, <1>11, <1>12, <1>13, <1>14, <1>15, <1>16, <1>17, <1>18
         DEF BatchInv

PostStates    == {"none", "read", "put", "waiting", "woken", "ok", "duplicate", "refused"}
RequestStates == {"none", "accepted", "processing", "completed", "failed"}

LEMMA PostCommitInv ==
    ASSUME BatchInv, NEW h \in Posts, PostCommit(h)
    PROVE  BatchInv'
<1>1. post[h] = "read" /\ h \notin Queued \cup Held  BY HandlerApart DEF PostCommit
<1>2. request[h] = "none" /\ h \notin lost  BY <1>1 DEF BatchInv, Places
<1>3. /\ post' = [post EXCEPT ![h] = "put"] /\ request' = [request EXCEPT ![h] = "accepted"]
      /\ UNCHANGED <<configured, queue, putters, acceptor, lockOf, unfinished, puts,
                     passes, chunksIssued, lost, crashes>>
  BY DEF PostCommit
<1>4. BatchTypes'
  <2>1. post' \in [Posts -> PostStates] /\ request' \in [Posts -> RequestStates]
    BY <1>3 DEF BatchInv, BatchTypes, PostStates, RequestStates
  <2> QED  BY <1>3, <2>1 DEF BatchInv, BatchTypes, PostStates, RequestStates
<1>5. /\ post'[h] = "put" /\ request'[h] = "accepted"
      /\ \A g \in Posts : g # h => post'[g] = post[g] /\ request'[g] = request[g]
  BY <1>3 DEF BatchInv, BatchTypes
<1>6. passes[h] = 0 /\ chunksIssued[h] = 0  BY <1>2 DEF BatchInv, Progress
<1>7. ~SettledNow(h)  BY <1>2 DEF SettledNow
<1>8. /\ Busy' /\ InProgress' /\ Unfinished' /\ UnderLock' /\ WorkedOffInOrder'
      /\ Progress' /\ CompletedMeansIssued'
      /\ Queued' = Queued /\ Held' = Held /\ \A a \in Acceptors : JobsOf(a)' = JobsOf(a)
      /\ \A a \in Acceptors : IsInjective(acceptor'[a].jobs)
  BY <1>1, <1>3, <1>4, <1>5, <1>6, <1>7, JobsUntouched
<1>9. NoRepeats'  BY <1>3, <1>8 DEF BatchInv, NoRepeats
<1>10. PuttersWait'
  <2>1. \A i \in DOMAIN putters : putters[i] # h /\ putters[i] \in Posts
    BY <1>1, SeqBasics DEF BatchInv, BatchTypes, PuttersWait
  <2> QED  BY <1>3, <1>5, <2>1 DEF BatchInv, PuttersWait
<1>11. Places'
  <2>1. \A g \in Posts : \/ g = h
                         \/ /\ request'[g] = request[g] /\ (g \in lost' <=> g \in lost)
                            /\ \/ post'[g] = post[g]
                               \/ post[g] = "waiting" /\ post'[g] = "woken"
    BY <1>3, <1>5
  <2>2. post'[h] \in InHandler /\ request'[h] = "accepted" /\ h \notin lost'
    BY <1>2, <1>3, <1>5 DEF InHandler
  <2> QED  BY <1>1, <1>5, <1>8, <2>1, <2>2, PlacesOfHandler DEF BatchInv
<1> QED  BY <1>4, <1>8, <1>9, <1>10, <1>11 DEF BatchInv

LEMMA PostFailInv ==
    ASSUME BatchInv, NEW h \in Posts, PostFail(h)
    PROVE  BatchInv'
<1>1. post[h] = "read" /\ h \notin Queued \cup Held  BY HandlerApart DEF PostFail
<1>2. request[h] = "none" /\ h \notin lost  BY <1>1 DEF BatchInv, Places
<1>3. /\ post' = [post EXCEPT ![h] = "refused"]
      /\ UNCHANGED <<configured, request, queue, putters, acceptor, lockOf, unfinished, puts,
                     passes, chunksIssued, lost, crashes>>
  BY DEF PostFail
<1>4. BatchTypes'
  <2>1. post' \in [Posts -> PostStates]  BY <1>3 DEF BatchInv, BatchTypes, PostStates
  <2> QED  BY <1>3, <2>1 DEF BatchInv, BatchTypes, PostStates
<1>5. post'[h] = "refused" /\ \A g \in Posts : g # h => post'[g] = post[g]
  BY <1>3 DEF BatchInv, BatchTypes
<1>6. passes[h] = 0 /\ chunksIssued[h] = 0  BY <1>2 DEF BatchInv, Progress
<1>7. ~SettledNow(h)  BY <1>2 DEF SettledNow
<1>8. /\ Busy' /\ InProgress' /\ Unfinished' /\ UnderLock' /\ WorkedOffInOrder'
      /\ Progress' /\ CompletedMeansIssued'
      /\ Queued' = Queued /\ Held' = Held /\ \A a \in Acceptors : JobsOf(a)' = JobsOf(a)
      /\ \A a \in Acceptors : IsInjective(acceptor'[a].jobs)
  BY <1>1, <1>2, <1>3, <1>4, <1>6, <1>7, JobsUntouched
<1>9. NoRepeats'  BY <1>3, <1>8 DEF BatchInv, NoRepeats
<1>10. PuttersWait'
  <2>1. \A i \in DOMAIN putters : putters[i] # h /\ putters[i] \in Posts
    BY <1>1, SeqBasics DEF BatchInv, BatchTypes, PuttersWait
  <2> QED  BY <1>3, <1>5, <2>1 DEF BatchInv, PuttersWait
<1>11. Places'
  <2>1. \A g \in Posts : \/ g = h
                         \/ /\ request'[g] = request[g] /\ (g \in lost' <=> g \in lost)
                            /\ \/ post'[g] = post[g]
                               \/ post[g] = "waiting" /\ post'[g] = "woken"
    BY <1>3, <1>5
  <2>2. post'[h] \notin InHandler /\ post'[h] \notin {"none", "read", "duplicate"}
        /\ request'[h] \notin Open
    BY <1>2, <1>3, <1>5 DEF InHandler, Open
  <2> QED  BY <1>1, <1>8, <2>1, <2>2, PlacesOfHandler DEF BatchInv
<1> QED  BY <1>4, <1>8, <1>9, <1>10, <1>11 DEF BatchInv

LEMMA PutWaitInv ==
    ASSUME BatchInv, NEW h \in Posts, PutWait(h)
    PROVE  BatchInv'
<1>1. post[h] \in {"put", "woken"} /\ h \notin Queued \cup Held  BY HandlerApart DEF PutWait
<1>2. request[h] = "accepted" /\ h \notin lost  BY <1>1 DEF BatchInv, Places, InHandler
<1>3. /\ post' = [post EXCEPT ![h] = "waiting"] /\ putters' = Append(putters, h)
      /\ UNCHANGED <<configured, request, queue, acceptor, lockOf, unfinished, puts,
                     passes, chunksIssued, lost, crashes>>
  BY DEF PutWait
<1>4. putters \in Seq(Posts) /\ IsInjective(putters)
      /\ \A i \in DOMAIN putters : post[putters[i]] = "waiting"
  BY DEF BatchInv, BatchTypes, NoRepeats, PuttersWait
<1>5. h \notin Range(putters)  BY <1>1, <1>4 DEF Range
<1>6. /\ putters' \in Seq(Posts) /\ IsInjective(putters')
      /\ Range(putters') = Range(putters) \cup {h}
  BY <1>3, <1>4, <1>5, AppendNoRepeats
<1>7. BatchTypes'
  <2>1. post' \in [Posts -> PostStates]  BY <1>3 DEF BatchInv, BatchTypes, PostStates
  <2> QED  BY <1>3, <1>6, <2>1 DEF BatchInv, BatchTypes, PostStates
<1>8. post'[h] = "waiting" /\ \A g \in Posts : g # h => post'[g] = post[g]
  BY <1>3 DEF BatchInv, BatchTypes
<1>9. passes[h] = 0 /\ chunksIssued[h] = 0  BY <1>2 DEF BatchInv, Progress
<1>10. ~SettledNow(h)  BY <1>2 DEF SettledNow
<1>11. /\ Busy' /\ InProgress' /\ Unfinished' /\ UnderLock' /\ WorkedOffInOrder'
       /\ Progress' /\ CompletedMeansIssued'
       /\ Queued' = Queued /\ Held' = Held /\ \A a \in Acceptors : JobsOf(a)' = JobsOf(a)
       /\ \A a \in Acceptors : IsInjective(acceptor'[a].jobs)
  BY <1>1, <1>2, <1>3, <1>7, <1>9, <1>10, JobsUntouched
<1>12. NoRepeats'  BY <1>3, <1>6, <1>11 DEF BatchInv, NoRepeats
<1>13. PuttersWait'
  <2> SUFFICES ASSUME NEW i \in DOMAIN putters' PROVE post'[putters'[i]] = "waiting"
    BY DEF PuttersWait
  <2>1. putters'[i] \in Range(putters) \cup {h}  BY <1>6 DEF Range
  <2>2. ASSUME NEW j \in DOMAIN putters PROVE post'[putters[j]] = "waiting"
    <3>1. putters[j] \in Posts  BY <1>4, SeqBasics
    <3> QED  BY <1>4, <1>8, <3>1
  <2> QED  BY <1>8, <2>1, <2>2 DEF Range
<1>14. Places'
  <2>1. \A g \in Posts : \/ g = h
                         \/ /\ request'[g] = request[g] /\ (g \in lost' <=> g \in lost)
                            /\ \/ post'[g] = post[g]
                               \/ post[g] = "waiting" /\ post'[g] = "woken"
    BY <1>3, <1>8
  <2>2. post'[h] \in InHandler /\ request'[h] = "accepted" /\ h \notin lost'
    BY <1>2, <1>3, <1>8 DEF InHandler
  <2> QED  BY <1>1, <1>8, <1>11, <2>1, <2>2, PlacesOfHandler DEF BatchInv
<1> QED  BY <1>7, <1>11, <1>12, <1>13, <1>14 DEF BatchInv

LEMMA PutTimeoutInv ==
    ASSUME BatchInv, NEW h \in Posts, PutTimeout(h)
    PROVE  BatchInv'
<1> DEFINE rest   == WithoutPutter(putters, h)
           passOn == post[h] = "woken" /\ RoomInQueue
           p      == [post EXCEPT ![h] = "refused"]
<1>1. post[h] \in {"waiting", "woken"} /\ h \notin Queued \cup Held
  BY HandlerApart DEF PutTimeout
<1>2. request[h] = "accepted" /\ h \notin lost  BY <1>1 DEF BatchInv, Places, InHandler
<1>3. /\ post' = IF passOn THEN WakeNext(p, rest) ELSE p
      /\ putters' = IF passOn THEN AfterWake(rest) ELSE rest
  BY DEF PutTimeout
<1>4. UNCHANGED <<configured, queue, acceptor, lockOf, unfinished, puts, passes,
                  chunksIssued, crashes>>
  BY DEF PutTimeout
<1>5. \/ request' = [request EXCEPT ![h] = "failed"] /\ lost' = lost
      \/ lost' = lost \cup {h} /\ request' = request
  BY DEF PutTimeout
<1>6. putters \in Seq(Posts) /\ IsInjective(putters)
      /\ \A i \in DOMAIN putters : post[putters[i]] = "waiting"
  BY DEF BatchInv, BatchTypes, NoRepeats, PuttersWait
<1>7. /\ rest \in Seq(Posts) /\ IsInjective(rest) /\ Range(rest) = Range(putters) \ {h}
  BY <1>6, WithoutPutterIsOut
<1>8. p \in [Posts -> PostStates] /\ p[h] = "refused"
      /\ \A g \in Posts : g # h => p[g] = post[g]
  BY DEF BatchInv, BatchTypes, PostStates
<1> HIDE DEF rest, p, passOn
<1>9. \A i \in DOMAIN rest : p[rest[i]] = "waiting"
  <2> SUFFICES ASSUME NEW i \in DOMAIN rest PROVE p[rest[i]] = "waiting"  OBVIOUS
  <2>1. rest[i] \in Range(putters) /\ rest[i] # h  BY <1>7 DEF Range
  <2>2. PICK j \in DOMAIN putters : rest[i] = putters[j]  BY <2>1 DEF Range
  <2>3. putters[j] \in Posts  BY <1>6, SeqBasics
  <2> QED  BY <1>6, <1>8, <2>1, <2>2, <2>3
<1>10. /\ post' \in [Posts -> PostStates]
       /\ putters' \in Seq(Posts) /\ IsInjective(putters')
       /\ \A i \in DOMAIN putters' : post'[putters'[i]] = "waiting"
       /\ \A g \in Posts : post'[g] = p[g] \/ (p[g] = "waiting" /\ post'[g] = "woken")
  <2>1. CASE passOn
    <3>1. post' = WakeNext(p, rest) /\ putters' = AfterWake(rest)  BY <1>3, <2>1
    <3>2. "waiting" \in PostStates /\ "woken" \in PostStates  BY DEF PostStates
    <3> QED  BY <1>7, <1>8, <1>9, <3>1, <3>2, WakeNextFacts
  <2>2. CASE ~passOn
    <3>1. post' = p /\ putters' = rest  BY <1>3, <2>2
    <3> QED  BY <1>7, <1>8, <1>9, <3>1
  <2> QED  BY <2>1, <2>2
<1>11. post'[h] = "refused"
       /\ \A g \in Posts : g # h => \/ post'[g] = post[g]
                                    \/ post[g] = "waiting" /\ post'[g] = "woken"
  BY <1>8, <1>10
<1>12. /\ request' \in [Posts -> RequestStates] /\ lost' \subseteq Posts
       /\ \A g \in Posts : g # h => request'[g] = request[g] /\ (g \in lost' <=> g \in lost)
       /\ request'[h] \in {"accepted", "failed"}
       /\ request'[h] = "failed" \/ h \in lost'
  BY <1>2, <1>5 DEF BatchInv, BatchTypes, RequestStates
<1>13. BatchTypes'
  BY <1>4, <1>10, <1>12 DEF BatchInv, BatchTypes, PostStates, RequestStates
<1>14. passes[h] = 0 /\ chunksIssued[h] = 0  BY <1>2 DEF BatchInv, Progress
<1>15. ~SettledNow(h)  BY <1>2 DEF SettledNow
<1>16. \A g \in Posts : g = h \/ (request'[g] = request[g] /\ (g \in lost => g \in lost'))
  BY <1>12
<1>17. /\ Busy' /\ InProgress' /\ Unfinished' /\ UnderLock' /\ WorkedOffInOrder'
       /\ Progress' /\ CompletedMeansIssued'
       /\ Queued' = Queued /\ Held' = Held /\ \A a \in Acceptors : JobsOf(a)' = JobsOf(a)
       /\ \A a \in Acceptors : IsInjective(acceptor'[a].jobs)
  BY <1>1, <1>4, <1>12, <1>13, <1>14, <1>15, <1>16, JobsUntouched
<1>18. NoRepeats'  BY <1>4, <1>10, <1>17 DEF BatchInv, NoRepeats
<1>19. PuttersWait'  BY <1>10 DEF PuttersWait
<1>20. Places'
  <2>1. \A g \in Posts : \/ g = h
                         \/ /\ request'[g] = request[g] /\ (g \in lost' <=> g \in lost)
                            /\ \/ post'[g] = post[g]
                               \/ post[g] = "waiting" /\ post'[g] = "woken"
    BY <1>11, <1>12
  <2>2. post'[h] \notin InHandler /\ post'[h] \notin {"none", "read", "duplicate"}
        /\ (request'[h] \notin Open \/ h \in lost')
    BY <1>11, <1>12 DEF InHandler, Open
  <2> QED  BY <1>1, <1>17, <2>1, <2>2, PlacesOfHandler DEF BatchInv
<1> QED  BY <1>13, <1>17, <1>18, <1>19, <1>20 DEF BatchInv

LEMMA PutNowInv ==
    ASSUME BatchInv, NEW h \in Posts, PutNow(h)
    PROVE  BatchInv'
<1>1. post[h] \in {"put", "woken"} /\ h \notin Queued \cup Held  BY HandlerApart DEF PutNow
<1>2. request[h] = "accepted" /\ h \notin lost  BY <1>1 DEF BatchInv, Places, InHandler
<1>3. /\ Len(queue) < QueueMax /\ queue' = Append(queue, h) /\ puts' = Append(puts, h)
      /\ unfinished' = unfinished + 1 /\ post' = [post EXCEPT ![h] = "ok"]
      /\ UNCHANGED <<configured, request, putters, acceptor, lockOf, passes, chunksIssued,
                     lost, crashes>>
  BY DEF PutNow, RoomInQueue
<1>4. queue \in Seq(Posts) /\ puts \in Seq(Posts) /\ IsInjective(queue)
      /\ Len(queue) \in Nat /\ Len(puts) \in Nat /\ QueueMax \in Nat
  BY SeqBasics, BatchAssumption DEF BatchInv, BatchTypes, NoRepeats
<1>5. /\ queue' \in Seq(Posts) /\ Len(queue') = Len(queue) + 1
      /\ \A i \in 1..Len(queue) : queue'[i] = queue[i]
      /\ queue'[Len(queue) + 1] = h
      /\ Range(queue') = Range(queue) \cup {h}
      /\ IsInjective(queue')
  <2>1. h \notin Range(queue)  BY <1>1 DEF Queued
  <2> QED  BY <1>3, <1>4, <2>1, AppendNoRepeats
<1>6. /\ puts' \in Seq(Posts) /\ Len(puts') = Len(puts) + 1
      /\ \A i \in 1..Len(puts) : puts'[i] = puts[i]
      /\ puts'[Len(puts) + 1] = h
  BY <1>3, <1>4, AppendNoRepeats
<1>7. /\ Queued' = Queued \cup {h} /\ Held' = Held
      /\ \A a \in Acceptors : JobsOf(a)' = JobsOf(a)
  BY <1>3, <1>5 DEF Queued, Held, JobsOf
<1>8. /\ post' \in [Posts -> PostStates] /\ post'[h] = "ok"
      /\ \A g \in Posts : g # h => post'[g] = post[g]
  BY <1>3 DEF BatchInv, BatchTypes, PostStates
<1>9. BatchTypes'
  <2>1. Len(queue') <= QueueMax /\ unfinished' \in Int
    BY <1>3, <1>4, <1>5 DEF BatchInv, BatchTypes
  <2> QED  BY <1>3, <1>5, <1>6, <1>8, <2>1 DEF BatchInv, BatchTypes, PostStates
<1>10. Busy'  BY <1>3 DEF BatchInv, Busy
<1>11. NoRepeats'  BY <1>3, <1>5 DEF BatchInv, NoRepeats
<1>12. PuttersWait'
  <2>1. \A i \in DOMAIN putters : putters[i] # h /\ putters[i] \in Posts
    BY <1>1, SeqBasics DEF BatchInv, BatchTypes, PuttersWait
  <2> QED  BY <1>3, <1>8, <2>1 DEF BatchInv, PuttersWait
<1>13. Places'
  <2>1. Queued \subseteq Posts /\ Held \subseteq Posts
    <3>1. \A a \in Acceptors : JobsOf(a) \subseteq Posts  BY JobsTyped DEF BatchInv
    <3> QED  BY <3>1, SeqBasics DEF Held, Queued, BatchInv, BatchTypes
  <2>2. \A g \in Queued' : post'[g] = "ok" /\ request'[g] = "accepted"
                           /\ g \notin lost' /\ g \notin Held'
    BY <1>1, <1>2, <1>3, <1>7, <1>8, <2>1 DEF BatchInv, Places
  <2>3. \A g \in Held' : post'[g] = "ok" /\ g \notin lost' /\ request'[g] \in Open
    BY <1>3, <1>7, <1>8, <2>1 DEF BatchInv, Places
  <2>4. \A a, b \in Acceptors : a # b => JobsOf(a)' \cap JobsOf(b)' = {}
    BY <1>7 DEF BatchInv, Places
  <2>5. \A g \in Posts : post'[g] \in InHandler => request'[g] = "accepted" /\ g \notin lost'
    BY <1>2, <1>3, <1>8 DEF BatchInv, Places
  <2>6. \A g \in Posts : post'[g] \in {"none", "read", "duplicate"} =>
                            request'[g] = "none" /\ g \notin lost'
    BY <1>3, <1>8 DEF BatchInv, Places
  <2>7. \A g \in Posts : request'[g] \in Open /\ g \notin lost' =>
                            post'[g] \in InHandler \/ g \in Queued' \/ g \in Held'
    BY <1>3, <1>7, <1>8 DEF BatchInv, Places
  <2> QED  BY <2>2, <2>3, <2>4, <2>5, <2>6, <2>7 DEF Places
<1>14. InProgress'  BY <1>3 DEF BatchInv, InProgress
<1>15. Unfinished'
  <2>1. OpenGroups' = OpenGroups  BY <1>3 DEF OpenGroups
  <2>2. IsFiniteSet(Queued) /\ IsFiniteSet(Held)  BY DEF BatchInv, Unfinished
  <2>3. IsFiniteSet(Queued') /\ IsFiniteSet(Held')  BY <1>7, <2>2, FS_AddElement
  <2>4. Queued' \cup Held' = (Queued \cup Held) \cup {h}  BY <1>7
  <2>5. IsFiniteSet(Queued \cup Held)  BY <2>2, FS_Union
  <2>6. Cardinality(Queued' \cup Held') = Cardinality(Queued \cup Held) + 1
    BY <1>1, <2>4, <2>5, FS_AddElement
  <2>7. Cardinality(Queued \cup Held) \in Nat /\ Cardinality(OpenGroups) \in Nat
    <3>1. IsFiniteSet(OpenGroups)
      BY BatchAssumption, FS_Subset DEF OpenGroups
    <3> QED  BY <2>5, <3>1, FS_CardinalityType
  <2>8. unfinished = Cardinality(Queued \cup Held) + Cardinality(OpenGroups)
    BY DEF BatchInv, Unfinished
  <2>9. unfinished' = Cardinality(Queued' \cup Held') + Cardinality(OpenGroups')
    BY <1>3, <2>1, <2>6, <2>7, <2>8
  <2> QED  BY <2>3, <2>9 DEF Unfinished
<1>16. UnderLock'
  <2>1. \A a \in Acceptors : acceptor'[a].phase \in Serving =>
            \A g \in JobsOf(a)' : lockOf'[ExecOf(g)] = a
    BY <1>3, <1>7 DEF BatchInv, UnderLock
  <2> QED  BY <2>1 DEF UnderLock, ExecOf
<1>17. WorkedOffInOrder'
  <2> SUFFICES ASSUME NEW a \in Acceptors, configured = {a}
               PROVE  \E n \in Nat : InOrderFrom(a, n)'
    BY <1>3 DEF WorkedOffInOrder
  <2>1. PICK n \in Nat : InOrderFrom(a, n)  BY DEF BatchInv, WorkedOffInOrder
  <2> DEFINE m == n + Len(acceptor[a].jobs)
  <2>2. Len(acceptor[a].jobs) \in Nat  BY JobsTyped DEF BatchInv
  <2>3. m \in Nat /\ Len(puts) = m + Len(queue)  BY <2>1, <2>2 DEF InOrderFrom
  <2>4. /\ \A i \in 1..n : i \in 1..m
        /\ \A i \in 1..Len(acceptor[a].jobs) : n + i \in 1..m
        /\ \A i \in 1..Len(queue) : puts[m + i] = queue[i]
    BY <2>1, <2>2 DEF InOrderFrom
  <2>5. acceptor' = acceptor /\ m = n + Len(acceptor'[a].jobs)  BY <1>3
  <2> HIDE DEF m
  <2>6. Len(puts') = m + Len(queue')
    <3>1. Len(puts') = m + Len(queue) + 1  BY <1>6, <2>3
    <3>2. Len(queue') = Len(queue) + 1  BY <1>5
    <3> QED  BY <1>4, <2>3, <3>1, <3>2
  <2>7. \A i \in 1..m : puts'[i] = puts[i]
    <3>1. \A i \in 1..m : i \in 1..Len(puts)  BY <1>4, <2>3
    <3> QED  BY <1>6, <3>1
  <2>8. \A i \in 1..n : SettledNow(puts[i])' /\ puts'[i] = puts[i]
    BY <1>3, <2>1, <2>4, <2>7 DEF InOrderFrom, SettledNow
  <2>9. \A i \in 1..Len(acceptor'[a].jobs) : puts'[n + i] = acceptor'[a].jobs[i]
    BY <2>1, <2>4, <2>5, <2>7 DEF InOrderFrom
  <2>10. \A i \in 1..Len(queue') : puts'[m + i] = queue'[i]
    <3> SUFFICES ASSUME NEW i \in 1..(Len(queue) + 1) PROVE puts'[m + i] = queue'[i]
      BY <1>5
    <3>1. CASE i \in 1..Len(queue)
      <4>1. puts[m + i] = queue[i]  BY <2>4, <3>1
      <4>2. m + i \in 1..Len(puts)  BY <1>4, <2>3, <3>1
      <4> QED  BY <1>5, <1>6, <3>1, <4>1, <4>2
    <3>2. CASE i = Len(queue) + 1
      <4>1. m + i = Len(puts) + 1  BY <1>4, <2>3, <3>2
      <4> QED  BY <1>5, <1>6, <3>2, <4>1
    <3> QED  BY <1>4, <3>1, <3>2
  <2>11. InOrderFrom(a, n)'
    BY <2>5, <2>6, <2>8, <2>9, <2>10 DEF InOrderFrom, SettledNow
  <2> QED  BY <2>11
<1>18. Progress'  BY <1>3 DEF BatchInv, Progress, Current
<1>19. CompletedMeansIssued'  BY <1>3 DEF BatchInv, CompletedMeansIssued
<1> QED  BY <1>9, <1>10, <1>11, <1>12, <1>13, <1>14, <1>15, <1>16, <1>17, <1>18, <1>19
         DEF BatchInv

-----------------------------------------------------------------------------
(* The acceptor tasks. *)

\* What is held after the jobs of one acceptor have changed.
LEMMA HeldAfter ==
    ASSUME NEW a \in Acceptors, Places,
           \A b \in Acceptors : b # a => JobsOf(b)' = JobsOf(b)
    PROVE  Held' = (Held \ JobsOf(a)) \cup JobsOf(a)'
BY DEF Held, Places

LEMMA WorkerGetInv ==
    ASSUME BatchInv, NEW a \in Acceptors, WorkerGet(a)
    PROVE  BatchInv'
<1> DEFINE r == Head(queue)
           rec == [phase |-> "lock", jobs |-> <<r>>, first |-> TRUE]
<1>1. /\ acceptor[a].phase = "get" /\ queue # <<>>
      /\ acceptor' = [acceptor EXCEPT ![a] = rec] /\ queue' = Tail(queue)
      /\ post' = WakeNext(post, putters) /\ putters' = AfterWake(putters)
      /\ UNCHANGED <<configured, request, lockOf, unfinished, puts, passes, chunksIssued,
                     lost, crashes>>
  BY DEF WorkerGet
<1>2. queue \in Seq(Posts) /\ IsInjective(queue) /\ Len(queue) \in Nat
      /\ DOMAIN queue = 1..Len(queue)
  BY SeqBasics DEF BatchInv, BatchTypes, NoRepeats
<1>3. /\ queue' \in Seq(Posts) /\ Len(queue') = Len(queue) - 1 /\ Len(queue) >= 1
      /\ \A i \in 1..Len(queue) - 1 : queue'[i] = queue[i + 1]
      /\ r = queue[1] /\ r \in Posts /\ r \in Queued
      /\ IsInjective(queue') /\ Queued' = Queued \ {r}
  BY <1>1, <1>2, TailNoRepeats DEF Queued
<1> HIDE DEF r
<1>4. <<r>> \in Seq(Posts) /\ Len(<<r>>) = 1 /\ DOMAIN <<r>> = {1} /\ <<r>>[1] = r
  BY <1>3
<1>5. rec \in AcceptorType  BY <1>4 DEF AcceptorType, Phases
<1>6. acceptor' \in [Acceptors -> AcceptorType] /\ acceptor'[a] = rec
      /\ \A b \in Acceptors : b # a => acceptor'[b] = acceptor[b]
  BY <1>1, <1>5 DEF BatchInv, BatchTypes, AcceptorType
<1>7. acceptor'[a].phase = "lock" /\ acceptor'[a].jobs = <<r>> /\ acceptor'[a].first = TRUE
  BY <1>6
<1> HIDE DEF rec
<1>8. acceptor[a].jobs = <<>>  BY <1>1 DEF BatchInv, Busy
<1>9. JobsOf(a) = {} /\ JobsOf(a)' = {r}
      /\ \A b \in Acceptors : b # a => JobsOf(b)' = JobsOf(b)
  BY <1>4, <1>6, <1>7, <1>8 DEF JobsOf, Range
<1>10. Held' = Held \cup {r}  BY <1>9, HeldAfter DEF BatchInv
<1>11. Queued \subseteq Posts /\ Held \subseteq Posts /\ r \notin Held
       /\ request[r] = "accepted" /\ r \notin lost /\ post[r] = "ok"
  <2>1. Queued \subseteq Posts /\ Held \subseteq Posts  BY JobsTyped DEF BatchInv
  <2> QED  BY <1>3, <2>1 DEF BatchInv, Places
<1>12. /\ post' \in [Posts -> PostStates]
       /\ putters' \in Seq(Posts) /\ IsInjective(putters')
       /\ \A i \in DOMAIN putters' : post'[putters'[i]] = "waiting"
       /\ \A g \in Posts : \/ post'[g] = post[g]
                           \/ post[g] = "waiting" /\ post'[g] = "woken"
  <2>1. "waiting" \in PostStates /\ "woken" \in PostStates  BY DEF PostStates
  <2>2. post \in [Posts -> PostStates] /\ putters \in Seq(Posts) /\ IsInjective(putters)
        /\ \A i \in DOMAIN putters : post[putters[i]] = "waiting"
    BY DEF BatchInv, BatchTypes, PostStates, NoRepeats, PuttersWait
  <2> QED  BY <1>1, <2>1, <2>2, WakeNextFacts
<1>13. BatchTypes'
  <2>1. Len(queue') <= QueueMax
    BY <1>2, <1>3, BatchAssumption DEF BatchInv, BatchTypes
  <2> QED  BY <1>1, <1>3, <1>6, <1>12, <2>1 DEF BatchInv, BatchTypes, PostStates
<1>14. Busy'
  <2>1. a \in configured  BY <1>1 DEF BatchInv, Busy
  <2>2. <<r>> # <<>>  OBVIOUS
  <2> QED  BY <1>1, <1>4, <1>6, <1>7, <2>1, <2>2 DEF BatchInv, Busy
<1>15. NoRepeats'
  <2>1. IsInjective(<<r>>)  BY <1>4 DEF IsInjective
  <2> QED  BY <1>3, <1>6, <1>7, <1>12, <2>1 DEF BatchInv, NoRepeats
<1>16. PuttersWait'  BY <1>12 DEF PuttersWait
<1>17. Places'
  <2>1. \A g \in Queued' : post'[g] = "ok" /\ request'[g] = "accepted"
                           /\ g \notin lost' /\ g \notin Held'
    BY <1>1, <1>3, <1>10, <1>11, <1>12 DEF BatchInv, Places
  <2>2. \A g \in Held' : post'[g] = "ok" /\ g \notin lost' /\ request'[g] \in Open
    BY <1>1, <1>3, <1>10, <1>11, <1>12 DEF BatchInv, Places, Open
  <2>3. \A c, b \in Acceptors : c # b => JobsOf(c)' \cap JobsOf(b)' = {}
    <3>1. \A c \in Acceptors : r \notin JobsOf(c)  BY <1>11 DEF Held
    <3> QED  BY <1>9, <3>1 DEF BatchInv, Places
  <2>4. \A g \in Posts : post'[g] \in InHandler => request'[g] = "accepted" /\ g \notin lost'
    BY <1>1, <1>12 DEF BatchInv, Places, InHandler
  <2>5. \A g \in Posts : post'[g] \in {"none", "read", "duplicate"} =>
                            request'[g] = "none" /\ g \notin lost'
    BY <1>1, <1>12 DEF BatchInv, Places
  <2>6. \A g \in Posts : request'[g] \in Open /\ g \notin lost' =>
                            post'[g] \in InHandler \/ g \in Queued' \/ g \in Held'
    BY <1>1, <1>3, <1>10, <1>12 DEF BatchInv, Places, InHandler
  <2> QED  BY <2>1, <2>2, <2>3, <2>4, <2>5, <2>6 DEF Places
<1>18. InProgress'
  <2> SUFFICES ASSUME NEW b \in Acceptors, NEW i \in DOMAIN acceptor'[b].jobs
               PROVE  request'[acceptor'[b].jobs[i]] =
                        IF i = 1 /\ acceptor'[b].phase \in {"engine", "issue", "finish"}
                        THEN "processing" ELSE "accepted"
    BY DEF InProgress
  <2>1. CASE b = a  BY <1>1, <1>4, <1>7, <1>11, <2>1
  <2>2. CASE b # a  BY <1>1, <1>6, <2>2 DEF BatchInv, InProgress
  <2> QED  BY <2>1, <2>2
<1>19. Unfinished'
  <2>1. OpenGroups' = OpenGroups
    <3>1. \A b \in Acceptors : (acceptor'[b].jobs # <<>> /\ ~acceptor'[b].first)
                                <=> (acceptor[b].jobs # <<>> /\ ~acceptor[b].first)
      BY <1>6, <1>7, <1>8
    <3> QED  BY <3>1 DEF OpenGroups
  <2>2. Queued' \cup Held' = Queued \cup Held  BY <1>3, <1>10
  <2>3. IsFiniteSet(Queued') /\ IsFiniteSet(Held')
    BY <1>3, <1>10, FS_AddElement, FS_RemoveElement DEF BatchInv, Unfinished
  <2> QED  BY <1>1, <2>1, <2>2, <2>3 DEF BatchInv, Unfinished
<1>20. UnderLock'
  <2>1. ASSUME NEW b \in Acceptors, acceptor'[b].phase \in Serving
        PROVE  \A g \in JobsOf(b)' : lockOf'[ExecOf(g)] = b
    <3>1. b # a  BY <1>7, <2>1 DEF Serving
    <3> QED  BY <1>1, <1>6, <1>9, <2>1, <3>1 DEF BatchInv, UnderLock
  <2> QED  BY <2>1 DEF UnderLock, ExecOf
<1>21. WorkedOffInOrder'
  <2> SUFFICES ASSUME NEW c \in Acceptors, configured = {c}
               PROVE  \E n \in Nat : InOrderFrom(c, n)'
    BY <1>1 DEF WorkedOffInOrder
  <2>1. PICK n \in Nat : InOrderFrom(c, n)  BY DEF BatchInv, WorkedOffInOrder
  <2>2. c = a  BY <1>1 DEF BatchInv, Busy
  <2>3. Len(acceptor[a].jobs) = 0 /\ Len(acceptor'[a].jobs) = 1  BY <1>4, <1>7, <1>8
  <2>4. Len(puts) = n + Len(queue) /\ \A i \in 1..Len(queue) : puts[n + i] = queue[i]
    <3>1. n + 0 = n /\ \A i \in 1..Len(queue) : n + 0 + i = n + i  BY <1>2
    <3> QED  BY <2>1, <2>2, <2>3, <3>1 DEF InOrderFrom
  <2>5. Len(puts) = n + Len(acceptor'[a].jobs) + Len(queue')  BY <1>2, <1>3, <2>3, <2>4
  <2>6. \A i \in 1..Len(acceptor'[a].jobs) : puts[n + i] = acceptor'[a].jobs[i]
    <3>1. 1 \in 1..Len(queue)  BY <1>2, <1>3
    <3> QED  BY <1>3, <1>4, <1>7, <2>3, <2>4, <3>1
  <2>7. \A i \in 1..Len(queue') : puts[n + Len(acceptor'[a].jobs) + i] = queue'[i]
    <3> SUFFICES ASSUME NEW i \in 1..(Len(queue) - 1) PROVE puts[n + 1 + i] = queue'[i]
      BY <1>3, <2>3
    <3>1. i + 1 \in 1..Len(queue) /\ n + (i + 1) = n + 1 + i  BY <1>2
    <3>2. puts[n + (i + 1)] = queue[i + 1]  BY <2>4, <3>1
    <3> QED  BY <1>3, <3>1, <3>2
  <2>8. \A i \in 1..n : SettledNow(puts[i])'
    BY <1>1, <2>1 DEF InOrderFrom, SettledNow
  <2>9. puts' = puts  BY <1>1
  <2>10. InOrderFrom(a, n)'  BY <2>5, <2>6, <2>7, <2>8, <2>9 DEF InOrderFrom
  <2> QED  BY <2>2, <2>10
<1>22. Progress'
  <2>1. \A b \in Acceptors : acceptor'[b].phase \in {"engine", "issue", "finish"} =>
            acceptor'[b] = acceptor[b] /\ Current(b)' = Current(b)
    BY <1>6, <1>7 DEF Current
  <2> QED  BY <1>1, <2>1 DEF BatchInv, Progress
<1>23. CompletedMeansIssued'  BY <1>1 DEF BatchInv, CompletedMeansIssued
<1> QED  BY <1>13, <1>14, <1>15, <1>16, <1>17, <1>18, <1>19, <1>20, <1>21, <1>22, <1>23
         DEF BatchInv

LEMMA WorkerLockInv ==
    ASSUME BatchInv, NEW a \in Acceptors, WorkerLock(a)
    PROVE  BatchInv'
<1> DEFINE r == Head(acceptor[a].jobs)
           e == ExecOf(r)
           n == Contiguous(queue, e)
           u == SubSeq(queue, 1, n)
           v == SubSeq(queue, n + 1, Len(queue))
           rec == [phase |-> "status", jobs |-> Group(r, u), first |-> TRUE]
<1>1. /\ acceptor[a].phase = "lock" /\ lockOf[e] = NoAcceptor
      /\ lockOf' = [lockOf EXCEPT ![e] = a]
      /\ acceptor' = [acceptor EXCEPT ![a] = rec] /\ queue' = v
      /\ UNCHANGED <<configured, post, request, putters, unfinished, puts, passes,
                     chunksIssued, lost, crashes>>
  BY DEF WorkerLock
<1>2. queue \in Seq(Posts) /\ IsInjective(queue) /\ Len(queue) \in Nat
  BY SeqBasics DEF BatchInv, BatchTypes, NoRepeats
<1>3. acceptor[a].jobs # <<>> /\ Len(acceptor[a].jobs) = 1 /\ acceptor[a].first
      /\ a \in configured
  BY <1>1 DEF BatchInv, Busy
<1>4. /\ r = acceptor[a].jobs[1] /\ r \in Posts /\ r \in JobsOf(a) /\ r \in Held
      /\ DOMAIN acceptor[a].jobs = {1}
  BY <1>3, JobsTyped DEF BatchInv, Current
<1>5. e \in BatchExecutions
  BY <1>4, BatchAssumption DEF ExecOf, Posts
<1>6. n \in 0..Len(queue) /\ \A i \in 1..n : ExecOf(queue[i]) = e
  BY <1>2, ContiguousJobs
<1> HIDE DEF n, e, r
<1>7. /\ u \in Seq(Posts) /\ Len(u) = n /\ \A i \in 1..n : u[i] = queue[i]
      /\ v \in Seq(Posts) /\ Len(v) = Len(queue) - n
      /\ \A i \in 1..(Len(queue) - n) : v[i] = queue[n + i]
      /\ Range(u) \cup Range(v) = Range(queue) /\ Range(u) \cap Range(v) = {}
      /\ IsInjective(u) /\ IsInjective(v)
  BY <1>2, <1>6, SplitNoRepeats
<1> HIDE DEF u, v
<1>8. DOMAIN u = 1..n  BY <1>7, SeqBasics
<1>9. r \notin Queued /\ request[r] = "accepted" /\ post[r] = "ok" /\ r \notin lost
  <2>1. r \notin Queued /\ post[r] = "ok" /\ r \notin lost  BY <1>4 DEF BatchInv, Places
  <2>2. request[r] = "accepted"  BY <1>1, <1>4 DEF BatchInv, InProgress
  <2> QED  BY <2>1, <2>2
<1>10. /\ Group(r, u) \in Seq(Posts) /\ Len(Group(r, u)) = n + 1 /\ Group(r, u) # <<>>
       /\ Group(r, u)[1] = r /\ \A i \in 1..n : Group(r, u)[i + 1] = u[i]
       /\ Range(Group(r, u)) = {r} \cup Range(u)
       /\ IsInjective(Group(r, u))
  <2>1. r \notin Range(u) /\ u \in Seq(Posts) /\ IsInjective(u) /\ Len(u) = n
    BY <1>7, <1>9 DEF Queued
  <2>2. /\ Group(r, u) \in Seq(Posts) /\ Len(Group(r, u)) = Len(u) + 1
        /\ Group(r, u) # <<>>
        /\ Group(r, u)[1] = r /\ \A i \in 1..Len(u) : Group(r, u)[i + 1] = u[i]
        /\ Range(Group(r, u)) = {r} \cup Range(u)
        /\ IsInjective(Group(r, u))
    <3>1. r \in Posts  BY <1>4
    <3> QED  BY <2>1, <3>1, GroupNoRepeats
  <2> QED  BY <2>1, <2>2
<1>11. rec \in AcceptorType  BY <1>10 DEF AcceptorType, Phases
<1>12. acceptor' \in [Acceptors -> AcceptorType] /\ acceptor'[a] = rec
       /\ \A b \in Acceptors : b # a => acceptor'[b] = acceptor[b]
  BY <1>1, <1>11 DEF BatchInv, BatchTypes, AcceptorType
<1>13. /\ acceptor'[a].phase = "status" /\ acceptor'[a].jobs = Group(r, u)
       /\ acceptor'[a].first = TRUE
  BY <1>12
<1> HIDE DEF rec
<1>14. JobsOf(a) = {r} /\ JobsOf(a)' = {r} \cup Range(u)
       /\ \A b \in Acceptors : b # a => JobsOf(b)' = JobsOf(b)
  <2>1. JobsOf(a) = {r}  BY <1>4 DEF JobsOf, Range
  <2>2. JobsOf(a)' = {r} \cup Range(u)  BY <1>10, <1>13 DEF JobsOf
  <2>3. \A b \in Acceptors : b # a => JobsOf(b)' = JobsOf(b)  BY <1>12 DEF JobsOf
  <2> QED  BY <2>1, <2>2, <2>3
<1>15. /\ Held' = Held \cup Range(u) /\ Queued' = Range(v)
       /\ Queued = Range(u) \cup Range(v)
  <2>1. Held' = (Held \ {r}) \cup ({r} \cup Range(u))
    BY <1>14, HeldAfter DEF BatchInv
  <2> QED  BY <1>1, <1>4, <1>7, <2>1 DEF Queued
<1>16. Queued \subseteq Posts /\ Held \subseteq Posts  BY JobsTyped DEF BatchInv
<1>17. BatchTypes'
  <2>1. Len(queue') <= QueueMax
    BY <1>1, <1>2, <1>6, <1>7, BatchAssumption DEF BatchInv, BatchTypes
  <2>2. lockOf' \in [BatchExecutions -> Acceptors \cup {NoAcceptor}]
    BY <1>1 DEF BatchInv, BatchTypes
  <2> QED  BY <1>1, <1>7, <1>12, <2>1, <2>2 DEF BatchInv, BatchTypes
<1>18. Busy'  BY <1>1, <1>3, <1>10, <1>12, <1>13 DEF BatchInv, Busy
<1>19. NoRepeats'  BY <1>1, <1>7, <1>10, <1>12, <1>13 DEF BatchInv, NoRepeats
<1>20. PuttersWait'  BY <1>1 DEF BatchInv, PuttersWait
<1>21. Places'
  <2>1. \A g \in Queued' : post'[g] = "ok" /\ request'[g] = "accepted"
                           /\ g \notin lost' /\ g \notin Held'
    BY <1>1, <1>7, <1>15 DEF BatchInv, Places
  <2>2. \A g \in Held' : post'[g] = "ok" /\ g \notin lost' /\ request'[g] \in Open
    BY <1>1, <1>15 DEF BatchInv, Places, Open
  <2>3. \A c, b \in Acceptors : c # b => JobsOf(c)' \cap JobsOf(b)' = {}
    <3>1. \A c \in Acceptors : JobsOf(c) \cap Range(u) = {}
      BY <1>15 DEF BatchInv, Places, Held
    <3> QED  BY <1>14, <3>1 DEF BatchInv, Places
  <2>4. \A g \in Posts : post'[g] \in InHandler => request'[g] = "accepted" /\ g \notin lost'
    BY <1>1 DEF BatchInv, Places
  <2>5. \A g \in Posts : post'[g] \in {"none", "read", "duplicate"} =>
                            request'[g] = "none" /\ g \notin lost'
    BY <1>1 DEF BatchInv, Places
  <2>6. \A g \in Posts : request'[g] \in Open /\ g \notin lost' =>
                            post'[g] \in InHandler \/ g \in Queued' \/ g \in Held'
    BY <1>1, <1>15 DEF BatchInv, Places
  <2> QED  BY <2>1, <2>2, <2>3, <2>4, <2>5, <2>6 DEF Places
<1>22. InProgress'
  <2> SUFFICES ASSUME NEW b \in Acceptors, NEW i \in DOMAIN acceptor'[b].jobs
               PROVE  request'[acceptor'[b].jobs[i]] =
                        IF i = 1 /\ acceptor'[b].phase \in {"engine", "issue", "finish"}
                        THEN "processing" ELSE "accepted"
    BY DEF InProgress
  <2>1. CASE b = a
    <3>1. acceptor'[a].jobs[i] \in {r} \cup Range(u)  BY <1>10, <1>13, <2>1 DEF Range
    <3>2. \A g \in Range(u) : request[g] = "accepted"  BY <1>15 DEF BatchInv, Places
    <3> QED  BY <1>1, <1>9, <1>13, <2>1, <3>1, <3>2
  <2>2. CASE b # a  BY <1>1, <1>12, <2>2 DEF BatchInv, InProgress
  <2> QED  BY <2>1, <2>2
<1>23. Unfinished'
  <2>1. OpenGroups' = OpenGroups
    <3>1. \A b \in Acceptors : (acceptor'[b].jobs # <<>> /\ ~acceptor'[b].first)
                                <=> (acceptor[b].jobs # <<>> /\ ~acceptor[b].first)
      BY <1>3, <1>12, <1>13
    <3> QED  BY <3>1 DEF OpenGroups
  <2>2. Queued' \cup Held' = Queued \cup Held  BY <1>15
  <2>3. IsFiniteSet(Queued) /\ IsFiniteSet(Held)  BY DEF BatchInv, Unfinished
  <2>4. IsFiniteSet(Range(u)) /\ IsFiniteSet(Range(v))  BY <1>15, <2>3, FS_Subset
  <2>5. IsFiniteSet(Queued') /\ IsFiniteSet(Held')  BY <1>15, <2>3, <2>4, FS_Union
  <2> QED  BY <1>1, <2>1, <2>2, <2>5 DEF BatchInv, Unfinished
<1>24. UnderLock'
  <2>1. ASSUME NEW b \in Acceptors, acceptor'[b].phase \in Serving, NEW g \in JobsOf(b)'
        PROVE  lockOf'[ExecOf(g)] = b
    <3>1. CASE b = a
      <4>1. ExecOf(g) = e
        <5>1. g = r \/ g \in Range(u)  BY <1>14, <2>1, <3>1
        <5>2. ASSUME NEW i \in DOMAIN u PROVE ExecOf(u[i]) = e
          BY <1>6, <1>7, <1>8
        <5>3. ExecOf(r) = e  BY DEF e, r
        <5> QED  BY <5>1, <5>2, <5>3 DEF Range
      <4> QED  BY <1>1, <1>5, <3>1, <4>1 DEF BatchInv, BatchTypes
    <3>2. CASE b # a
      <4>1. lockOf[ExecOf(g)] = b  BY <1>12, <1>14, <2>1, <3>2 DEF BatchInv, UnderLock
      <4>2. ExecOf(g) # e  BY <1>1, <4>1, BatchAssumption
      <4> QED  BY <1>1, <4>1, <4>2 DEF BatchInv, BatchTypes
    <3> QED  BY <3>1, <3>2
  <2> QED  BY <2>1 DEF UnderLock, ExecOf
<1>25. WorkedOffInOrder'
  <2> SUFFICES ASSUME NEW c \in Acceptors, configured = {c}
               PROVE  \E k \in Nat : InOrderFrom(c, k)'
    BY <1>1 DEF WorkedOffInOrder
  <2>1. PICK k \in Nat : InOrderFrom(c, k)  BY DEF BatchInv, WorkedOffInOrder
  <2>2. c = a  BY <1>3
  <2>3. /\ Len(puts) = k + 1 + Len(queue) /\ puts[k + 1] = r
        /\ \A i \in 1..Len(queue) : puts[k + 1 + i] = queue[i]
    <3>1. 1 \in 1..Len(acceptor[a].jobs)  BY <1>3
    <3> QED  BY <1>3, <1>4, <2>1, <2>2, <3>1 DEF InOrderFrom
  <2>4. Len(acceptor'[a].jobs) = n + 1 /\ Len(queue') = Len(queue) - n /\ n \in Nat
        /\ n <= Len(queue)
    BY <1>1, <1>6, <1>7, <1>10, <1>13
  <2>5. Len(puts) = k + Len(acceptor'[a].jobs) + Len(queue')
    <3>1. k + (n + 1) + (Len(queue) - n) = k + 1 + Len(queue)  BY <1>2, <2>4
    <3> QED  BY <2>3, <2>4, <3>1
  <2>6. \A i \in 1..Len(acceptor'[a].jobs) : puts[k + i] = acceptor'[a].jobs[i]
    <3> SUFFICES ASSUME NEW i \in 1..(n + 1) PROVE puts[k + i] = Group(r, u)[i]
      BY <1>13, <2>4
    <3>1. CASE i = 1  BY <1>10, <2>3, <3>1
    <3>2. CASE i # 1
      <4>1. i - 1 \in 1..n /\ (i - 1) + 1 = i /\ k + 1 + (i - 1) = k + i
            /\ i - 1 \in 1..Len(queue)
        BY <1>2, <2>4, <3>2
      <4>2. Group(r, u)[(i - 1) + 1] = u[i - 1]  BY <1>10, <4>1
      <4>3. u[i - 1] = queue[i - 1]  BY <1>7, <4>1
      <4>4. puts[k + 1 + (i - 1)] = queue[i - 1]  BY <2>3, <4>1
      <4> QED  BY <4>1, <4>2, <4>3, <4>4
    <3> QED  BY <3>1, <3>2
  <2>7. \A i \in 1..Len(queue') : puts[k + Len(acceptor'[a].jobs) + i] = queue'[i]
    <3> SUFFICES ASSUME NEW i \in 1..(Len(queue) - n) PROVE puts[k + (n + 1) + i] = v[i]
      BY <1>1, <2>4
    <3>1. n + i \in 1..Len(queue) /\ k + 1 + (n + i) = k + (n + 1) + i  BY <1>2, <2>4
    <3>2. puts[k + 1 + (n + i)] = queue[n + i]  BY <2>3, <3>1
    <3>3. v[i] = queue[n + i]  BY <1>7
    <3> QED  BY <3>1, <3>2, <3>3
  <2>8. \A i \in 1..k : SettledNow(puts[i])'
    BY <1>1, <2>1 DEF InOrderFrom, SettledNow
  <2>9. puts' = puts  BY <1>1
  <2>10. InOrderFrom(a, k)'  BY <2>5, <2>6, <2>7, <2>8, <2>9 DEF InOrderFrom
  <2> QED  BY <2>2, <2>10
<1>26. Progress'
  <2>1. \A b \in Acceptors : acceptor'[b].phase \in {"engine", "issue", "finish"} =>
            acceptor'[b] = acceptor[b] /\ Current(b)' = Current(b)
    BY <1>12, <1>13 DEF Current
  <2> QED  BY <1>1, <2>1 DEF BatchInv, Progress
<1>27. CompletedMeansIssued'  BY <1>1 DEF BatchInv, CompletedMeansIssued
<1> QED  BY <1>17, <1>18, <1>19, <1>20, <1>21, <1>22, <1>23, <1>24, <1>25, <1>26, <1>27
         DEF BatchInv

\* The job an acceptor works on moves to another phase and stays open.
LEMMA PhaseStep ==
    ASSUME BatchInv, BatchTypes', NEW a \in Acceptors, NEW p \in Serving,
           acceptor[a].phase \in Serving, acceptor' = AtPhase(a, p),
           UNCHANGED <<configured, post, queue, putters, lockOf, unfinished, puts, lost>>,
           request'[Current(a)] \in Open,
           \A g \in Posts : g # Current(a) => request'[g] = request[g]
    PROVE  /\ Busy' /\ NoRepeats' /\ PuttersWait' /\ Places' /\ Unfinished' /\ UnderLock'
           /\ WorkedOffInOrder'
           /\ acceptor'[a].phase = p
           /\ \A b \in Acceptors : b # a => acceptor'[b] = acceptor[b]
           /\ \A b \in Acceptors : acceptor'[b].jobs = acceptor[b].jobs
                                   /\ Current(b)' = Current(b)
<1>1. acceptor' = [acceptor EXCEPT ![a].phase = p]  BY DEF AtPhase
<1>2. /\ acceptor'[a].phase = p
      /\ \A b \in Acceptors : b # a => acceptor'[b] = acceptor[b]
      /\ \A b \in Acceptors : acceptor'[b].jobs = acceptor[b].jobs
                              /\ acceptor'[b].first = acceptor[b].first
  BY <1>1, JobsTyped DEF BatchInv, BatchTypes, AcceptorType
<1>3. \A b \in Acceptors : Current(b)' = Current(b)  BY <1>2 DEF Current
<1>4. p # "off" /\ p # "get" /\ p # "lock"
      /\ acceptor[a].phase \notin {"off", "get", "lock"}
  BY DEF Serving
<1>5. acceptor[a].jobs # <<>> /\ a \in configured  BY <1>4 DEF BatchInv, Busy
<1>6. /\ Current(a) \in Posts /\ Current(a) \in Held /\ Current(a) \notin Queued
      /\ post[Current(a)] = "ok" /\ Current(a) \notin lost /\ request[Current(a)] \in Open
  BY <1>5, JobsTyped DEF BatchInv, Places
<1>7. Queued' = Queued /\ Held' = Held /\ \A b \in Acceptors : JobsOf(b)' = JobsOf(b)
  BY <1>2, SameJobs
<1>8. Queued \subseteq Posts /\ Held \subseteq Posts  BY JobsTyped DEF BatchInv
<1>9. Busy'  BY <1>2, <1>4, <1>5 DEF BatchInv, Busy
<1>10. NoRepeats'  BY <1>2 DEF BatchInv, NoRepeats
<1>11. PuttersWait'  BY DEF BatchInv, PuttersWait
<1>12. Places'
  <2>1. \A g \in Queued' : post'[g] = "ok" /\ request'[g] = "accepted"
                           /\ g \notin lost' /\ g \notin Held'
    BY <1>6, <1>7, <1>8 DEF BatchInv, Places
  <2>2. \A g \in Held' : post'[g] = "ok" /\ g \notin lost' /\ request'[g] \in Open
    BY <1>6, <1>7, <1>8 DEF BatchInv, Places
  <2>3. \A c, b \in Acceptors : c # b => JobsOf(c)' \cap JobsOf(b)' = {}
    BY <1>7 DEF BatchInv, Places
  <2>4. \A g \in Posts : post'[g] \in InHandler => request'[g] = "accepted" /\ g \notin lost'
    BY <1>6 DEF BatchInv, Places, InHandler
  <2>5. \A g \in Posts : post'[g] \in {"none", "read", "duplicate"} =>
                            request'[g] = "none" /\ g \notin lost'
    BY <1>6 DEF BatchInv, Places
  <2>6. \A g \in Posts : request'[g] \in Open /\ g \notin lost' =>
                            post'[g] \in InHandler \/ g \in Queued' \/ g \in Held'
    BY <1>6, <1>7 DEF BatchInv, Places
  <2> QED  BY <2>1, <2>2, <2>3, <2>4, <2>5, <2>6 DEF Places
<1>13. Unfinished'
  <2>1. OpenGroups' = OpenGroups  BY <1>2 DEF OpenGroups
  <2> QED  BY <1>7, <2>1 DEF BatchInv, Unfinished
<1>14. UnderLock'
  <2>1. \A b \in Acceptors : acceptor'[b].phase \in Serving =>
            \A g \in JobsOf(b)' : lockOf'[ExecOf(g)] = b
    BY <1>2, <1>7 DEF BatchInv, UnderLock
  <2> QED  BY <2>1 DEF UnderLock, ExecOf
<1>15. WorkedOffInOrder'
  <2>1. \A g \in Posts : SettledNow(g) => SettledNow(g)'
    BY <1>6 DEF SettledNow, Open
  <2> QED  BY <1>2, <2>1, SameOrder DEF BatchInv
<1> QED  BY <1>2, <1>3, <1>9, <1>10, <1>11, <1>12, <1>13, <1>14, <1>15

\* The job that is worked on, and what its phase says of it.
LEMMA CurrentFacts ==
    ASSUME BatchInv, NEW a \in Acceptors, acceptor[a].phase \in Serving
    PROVE  /\ acceptor[a].jobs # <<>> /\ Len(acceptor[a].jobs) >= 1 /\ a \in configured
           /\ Current(a) = acceptor[a].jobs[1] /\ Current(a) \in Posts
           /\ Current(a) \in JobsOf(a) /\ Current(a) \in Held /\ Current(a) \notin Queued
           /\ post[Current(a)] = "ok" /\ Current(a) \notin lost
           /\ request[Current(a)] = IF acceptor[a].phase = "status" THEN "accepted"
                                    ELSE "processing"
           /\ lockOf[ExecOf(Current(a))] = a /\ ExecOf(Current(a)) \in BatchExecutions
           /\ \A b \in Acceptors : b # a => Current(a) \notin JobsOf(b)
<1>1. acceptor[a].jobs # <<>> /\ a \in configured
  BY DEF BatchInv, Busy, Serving
<1>2. /\ Current(a) = acceptor[a].jobs[1] /\ Current(a) \in Posts
      /\ Current(a) \in JobsOf(a) /\ Current(a) \in Held /\ Len(acceptor[a].jobs) >= 1
      /\ 1 \in DOMAIN acceptor[a].jobs
  BY <1>1, JobsTyped DEF BatchInv
<1>3. Current(a) \notin Queued /\ post[Current(a)] = "ok" /\ Current(a) \notin lost
  BY <1>2 DEF BatchInv, Places
<1>4. request[Current(a)] = IF acceptor[a].phase = "status" THEN "accepted" ELSE "processing"
  BY <1>2 DEF BatchInv, InProgress, Serving
<1>5. lockOf[ExecOf(Current(a))] = a  BY <1>2 DEF BatchInv, UnderLock
<1>6. ExecOf(Current(a)) \in BatchExecutions
  BY <1>2, BatchAssumption DEF ExecOf, Posts
<1>7. \A b \in Acceptors : b # a => Current(a) \notin JobsOf(b)
  BY <1>2 DEF BatchInv, Places
<1> QED  BY <1>1, <1>2, <1>3, <1>4, <1>5, <1>6, <1>7

\* The other jobs keep their status when the first one of a is processed.
LEMMA StillInProgress ==
    ASSUME BatchInv, NEW a \in Acceptors, acceptor[a].phase \in Serving,
           acceptor'[a].phase \in {"engine", "issue", "finish"},
           request'[Current(a)] = "processing",
           \A g \in Posts : g # Current(a) => request'[g] = request[g],
           \A b \in Acceptors : b # a => acceptor'[b] = acceptor[b],
           acceptor'[a].jobs = acceptor[a].jobs
    PROVE  InProgress'
<1> SUFFICES ASSUME NEW b \in Acceptors, NEW i \in DOMAIN acceptor'[b].jobs
             PROVE  request'[acceptor'[b].jobs[i]] =
                      IF i = 1 /\ acceptor'[b].phase \in {"engine", "issue", "finish"}
                      THEN "processing" ELSE "accepted"
  BY DEF InProgress
<1>1. acceptor'[b].jobs = acceptor[b].jobs  OBVIOUS
<1>2. acceptor[b].jobs[i] \in JobsOf(b) /\ acceptor[b].jobs[i] \in Posts
  <2>1. acceptor[b].jobs[i] \in JobsOf(b)  BY <1>1 DEF JobsOf, Range
  <2> QED  BY <2>1, JobsTyped DEF BatchInv
<1>3. CASE b # a
  <2>1. acceptor[b].jobs[i] # Current(a)  BY <1>2, <1>3, CurrentFacts
  <2> QED  BY <1>1, <1>2, <1>3, <2>1 DEF BatchInv, InProgress
<1>4. CASE b = a /\ i = 1  BY <1>1, <1>4, CurrentFacts
<1>5. CASE b = a /\ i # 1
  <2>1. i \in DOMAIN acceptor[a].jobs /\ 1 \in DOMAIN acceptor[a].jobs
    BY <1>1, <1>5, JobsTyped, CurrentFacts DEF BatchInv
  <2>2. acceptor[a].jobs[i] # Current(a)
    BY <1>5, <2>1, CurrentFacts DEF BatchInv, NoRepeats, IsInjective
  <2> QED  BY <1>1, <1>2, <1>5, <2>1, <2>2 DEF BatchInv, InProgress
<1> QED  BY <1>3, <1>4, <1>5

LEMMA AtPhaseTyped ==
    ASSUME BatchTypes, NEW a \in Acceptors, NEW p \in Serving
    PROVE  AtPhase(a, p) \in [Acceptors -> AcceptorType]
<1>1. acceptor \in [Acceptors -> AcceptorType] /\ acceptor[a] \in AcceptorType
  BY DEF BatchTypes
<1>2. p \in Phases  BY DEF Serving, Phases
<1>3. [acceptor[a] EXCEPT !.phase = p] \in AcceptorType  BY <1>1, <1>2 DEF AcceptorType
<1> QED  BY <1>1, <1>3 DEF AtPhase

LEMMA JobStatusInv ==
    ASSUME BatchInv, NEW a \in Acceptors, JobStatus(a)
    PROVE  BatchInv'
<1> DEFINE h == Current(a)
           p == IF h[1] \in Actionable THEN "engine" ELSE "finish"
<1>1. /\ acceptor[a].phase = "status" /\ request' = [request EXCEPT ![h] = "processing"]
      /\ acceptor' = AtPhase(a, p)
      /\ UNCHANGED <<configured, post, queue, putters, lockOf, unfinished, puts,
                     passes, chunksIssued, lost, crashes>>
  BY DEF JobStatus
<1>2. acceptor[a].phase \in Serving /\ p \in Serving /\ p \in {"engine", "finish"}
  BY <1>1 DEF Serving
<1>3. h \in Posts /\ request[h] = "accepted" /\ h \in JobsOf(a)  BY <1>1, <1>2, CurrentFacts
<1>4. passes[h] = 0 /\ chunksIssued[h] = 0  BY <1>3 DEF BatchInv, Progress
<1>5. /\ request' \in [Posts -> RequestStates] /\ request'[h] = "processing"
      /\ \A g \in Posts : g # h => request'[g] = request[g]
  BY <1>1, <1>3 DEF BatchInv, BatchTypes, RequestStates
<1>6. BatchTypes'
  <2>1. acceptor' \in [Acceptors -> AcceptorType]
    BY <1>1, <1>2, AtPhaseTyped DEF BatchInv
  <2> QED  BY <1>1, <1>5, <2>1 DEF BatchInv, BatchTypes, RequestStates
<1>7. /\ Busy' /\ NoRepeats' /\ PuttersWait' /\ Places' /\ Unfinished' /\ UnderLock'
      /\ WorkedOffInOrder' /\ acceptor'[a].phase = p
      /\ \A b \in Acceptors : b # a => acceptor'[b] = acceptor[b]
      /\ \A b \in Acceptors : acceptor'[b].jobs = acceptor[b].jobs /\ Current(b)' = Current(b)
  <2>1. request'[h] \in Open  BY <1>5 DEF Open
  <2> HIDE DEF p
  <2> QED  BY <1>1, <1>2, <1>5, <1>6, <2>1, PhaseStep
<1>8. InProgress'  BY <1>2, <1>5, <1>7, StillInProgress
<1>9. Progress'
  <2>1. \A g \in Posts : request'[g] \in {"none", "accepted"} =>
                            passes'[g] = 0 /\ chunksIssued'[g] = 0
    BY <1>1, <1>5 DEF BatchInv, Progress
  <2>2. ASSUME NEW b \in Acceptors
        PROVE  /\ acceptor'[b].phase = "engine" =>
                      /\ Current(b)'[1] \in Actionable
                      /\ passes'[Current(b)'] = 0 /\ chunksIssued'[Current(b)'] = 0
               /\ acceptor'[b].phase = "issue" =>
                      /\ Current(b)'[1] \in Actionable
                      /\ passes'[Current(b)'] = 1 /\ chunksIssued'[Current(b)'] < Chunks
               /\ acceptor'[b].phase = "finish" /\ Current(b)'[1] \in Actionable =>
                      passes'[Current(b)'] = 1 /\ chunksIssued'[Current(b)'] = Chunks
    <3>1. CASE b = a  BY <1>1, <1>4, <1>7, <3>1
    <3>2. CASE b # a  BY <1>1, <1>7, <3>2 DEF BatchInv, Progress
    <3> QED  BY <3>1, <3>2
  <2> QED  BY <2>1, <2>2 DEF Progress
<1>10. CompletedMeansIssued'  BY <1>1, <1>5 DEF BatchInv, CompletedMeansIssued
<1> QED  BY <1>6, <1>7, <1>8, <1>9, <1>10 DEF BatchInv

\* The job on which an acceptor works is counted with no other request.
LEMMA ProgressOfJob ==
    ASSUME BatchInv, NEW a \in Acceptors, acceptor[a].phase \in {"engine", "issue"},
           acceptor'[a].phase \in {"issue", "finish"}, request' = request,
           \A b \in Acceptors : b # a => acceptor'[b] = acceptor[b],
           \A b \in Acceptors : Current(b)' = Current(b),
           passes'[Current(a)] = 1, chunksIssued'[Current(a)] \in Nat,
           acceptor'[a].phase = "issue" => chunksIssued'[Current(a)] < Chunks,
           acceptor'[a].phase = "finish" => chunksIssued'[Current(a)] = Chunks,
           \A g \in Posts : g # Current(a) =>
               passes'[g] = passes[g] /\ chunksIssued'[g] = chunksIssued[g]
    PROVE  Progress' /\ CompletedMeansIssued'
<1>1. /\ Current(a) \in Posts /\ request[Current(a)] = "processing"
      /\ \A b \in Acceptors : b # a => Current(a) \notin JobsOf(b)
  BY CurrentFacts DEF Serving
<1>2. Current(a)[1] \in Actionable  BY DEF BatchInv, Progress
<1>3. Chunks \in Nat  BY BatchAssumption
<1>4. \A g \in Posts : request'[g] \in {"none", "accepted"} =>
                          passes'[g] = 0 /\ chunksIssued'[g] = 0
  BY <1>1 DEF BatchInv, Progress
<1>5. ASSUME NEW b \in Acceptors
      PROVE  /\ acceptor'[b].phase = "engine" =>
                    /\ Current(b)'[1] \in Actionable
                    /\ passes'[Current(b)'] = 0 /\ chunksIssued'[Current(b)'] = 0
             /\ acceptor'[b].phase = "issue" =>
                    /\ Current(b)'[1] \in Actionable
                    /\ passes'[Current(b)'] = 1 /\ chunksIssued'[Current(b)'] < Chunks
             /\ acceptor'[b].phase = "finish" /\ Current(b)'[1] \in Actionable =>
                    passes'[Current(b)'] = 1 /\ chunksIssued'[Current(b)'] = Chunks
  <2>1. CASE b = a  BY <1>2, <2>1
  <2>2. CASE b # a /\ acceptor[b].phase \in {"engine", "issue", "finish"}
    <3>1. Current(b) \in Posts /\ Current(b) \in JobsOf(b)  BY <2>2, CurrentFacts DEF Serving
    <3>2. Current(b) # Current(a)  BY <1>1, <2>2, <3>1
    <3> QED  BY <2>2, <3>1, <3>2 DEF BatchInv, Progress
  <2>3. CASE b # a /\ acceptor[b].phase \notin {"engine", "issue", "finish"}  BY <2>3
  <2> QED  BY <2>1, <2>2, <2>3
<1>6. Progress'  BY <1>4, <1>5 DEF Progress
<1>7. CompletedMeansIssued'
  <2> SUFFICES ASSUME NEW g \in Posts
               PROVE  /\ request[g] = "completed" /\ g[1] \in Actionable
                         => passes'[g] = 1 /\ chunksIssued'[g] = Chunks
                      /\ passes'[g] <= 1 /\ chunksIssued'[g] <= passes'[g] * Chunks
    BY DEF CompletedMeansIssued
  <2>1. CASE g = Current(a)
    <3>1. request[g] # "completed"  BY <1>1, <2>1
    <3>2. chunksIssued'[g] <= Chunks  BY <1>3, <2>1
    <3>3. passes'[g] = 1 /\ passes'[g] * Chunks = Chunks  BY <1>3, <2>1
    <3> QED  BY <3>1, <3>2, <3>3
  <2>2. CASE g # Current(a)  BY <2>2 DEF BatchInv, CompletedMeansIssued
  <2> QED  BY <2>1, <2>2
<1> QED  BY <1>6, <1>7

LEMMA JobEngineInv ==
    ASSUME BatchInv, NEW a \in Acceptors, JobEngine(a)
    PROVE  BatchInv'
<1> DEFINE h == Current(a)
           p == IF Chunks > 0 THEN "issue" ELSE "finish"
<1>1. /\ acceptor[a].phase = "engine" /\ passes' = [passes EXCEPT ![h] = @ + 1]
      /\ acceptor' = AtPhase(a, p)
      /\ UNCHANGED <<configured, post, request, queue, putters, lockOf, unfinished, puts,
                     chunksIssued, lost, crashes>>
  BY DEF JobEngine
<1>2. acceptor[a].phase \in Serving /\ p \in Serving /\ p \in {"issue", "finish"}
  BY <1>1 DEF Serving
<1>3. h \in Posts /\ request[h] = "processing"  BY <1>1, <1>2, CurrentFacts
<1>4. passes[h] = 0 /\ chunksIssued[h] = 0  BY <1>1 DEF BatchInv, Progress
<1>5. /\ passes' \in [Posts -> Nat] /\ passes'[h] = 1
      /\ \A g \in Posts : g # h => passes'[g] = passes[g]
  BY <1>1, <1>3, <1>4 DEF BatchInv, BatchTypes
<1>6. BatchTypes'
  <2>1. acceptor' \in [Acceptors -> AcceptorType]
    BY <1>1, <1>2, AtPhaseTyped DEF BatchInv
  <2> QED  BY <1>1, <1>5, <2>1 DEF BatchInv, BatchTypes
<1>7. p = "issue" => 0 < Chunks  OBVIOUS
<1>8. p = "finish" => 0 = Chunks  BY BatchAssumption
<1> HIDE DEF p
<1>9. /\ Busy' /\ NoRepeats' /\ PuttersWait' /\ Places' /\ Unfinished' /\ UnderLock'
      /\ WorkedOffInOrder' /\ acceptor'[a].phase = p
      /\ \A b \in Acceptors : b # a => acceptor'[b] = acceptor[b]
      /\ \A b \in Acceptors : acceptor'[b].jobs = acceptor[b].jobs /\ Current(b)' = Current(b)
  <2>1. request'[h] \in Open  BY <1>1, <1>3 DEF Open
  <2> QED  BY <1>1, <1>2, <1>6, <2>1, PhaseStep
<1>10. InProgress'  BY <1>1, <1>2, <1>3, <1>9, StillInProgress
<1>11. chunksIssued'[h] = 0  BY <1>1, <1>4
<1>12. Progress' /\ CompletedMeansIssued'
  BY <1>1, <1>2, <1>5, <1>7, <1>8, <1>9, <1>11, ProgressOfJob
<1> QED  BY <1>6, <1>9, <1>10, <1>12 DEF BatchInv

LEMMA JobIssueInv ==
    ASSUME BatchInv, NEW a \in Acceptors, JobIssue(a)
    PROVE  BatchInv'
<1> DEFINE h == Current(a)
           p == IF chunksIssued'[h] = Chunks THEN "finish" ELSE "issue"
<1>1. /\ acceptor[a].phase = "issue" /\ chunksIssued' = [chunksIssued EXCEPT ![h] = @ + 1]
      /\ acceptor' = AtPhase(a, p)
      /\ UNCHANGED <<configured, post, request, queue, putters, lockOf, unfinished, puts,
                     passes, lost, crashes>>
  BY DEF JobIssue
<1>2. acceptor[a].phase \in Serving /\ p \in Serving /\ p \in {"issue", "finish"}
  BY <1>1 DEF Serving
<1>3. h \in Posts /\ request[h] = "processing"  BY <1>1, <1>2, CurrentFacts
<1>4. passes[h] = 1 /\ chunksIssued[h] < Chunks  BY <1>1 DEF BatchInv, Progress
<1>5. /\ chunksIssued' \in [Posts -> Nat] /\ chunksIssued'[h] = chunksIssued[h] + 1
      /\ \A g \in Posts : g # h => chunksIssued'[g] = chunksIssued[g]
  BY <1>1, <1>3 DEF BatchInv, BatchTypes
<1>6. BatchTypes'
  <2>1. acceptor' \in [Acceptors -> AcceptorType]
    BY <1>1, <1>2, AtPhaseTyped DEF BatchInv
  <2> QED  BY <1>1, <1>5, <2>1 DEF BatchInv, BatchTypes
<1>7. chunksIssued[h] \in Nat /\ Chunks \in Nat
  BY <1>3, BatchAssumption DEF BatchInv, BatchTypes
<1>8. p = "issue" => chunksIssued'[h] < Chunks  BY <1>4, <1>5, <1>7
<1>9. p = "finish" => chunksIssued'[h] = Chunks  OBVIOUS
<1> HIDE DEF p
<1>10. /\ Busy' /\ NoRepeats' /\ PuttersWait' /\ Places' /\ Unfinished' /\ UnderLock'
       /\ WorkedOffInOrder' /\ acceptor'[a].phase = p
       /\ \A b \in Acceptors : b # a => acceptor'[b] = acceptor[b]
       /\ \A b \in Acceptors : acceptor'[b].jobs = acceptor[b].jobs /\ Current(b)' = Current(b)
  <2>1. request'[h] \in Open  BY <1>1, <1>3 DEF Open
  <2> QED  BY <1>1, <1>2, <1>6, <2>1, PhaseStep
<1>11. InProgress'  BY <1>1, <1>2, <1>3, <1>10, StillInProgress
<1>12. passes'[h] = 1 /\ chunksIssued'[h] \in Nat  BY <1>1, <1>3, <1>4, <1>5
<1>13. Progress' /\ CompletedMeansIssued'
  BY <1>1, <1>2, <1>5, <1>8, <1>9, <1>10, <1>12, ProgressOfJob
<1> QED  BY <1>6, <1>10, <1>11, <1>13 DEF BatchInv

\* The job that is worked on ends, settled or lost, and the acceptor goes on to the
\* next one or ends its group.
LEMMA JobEnds ==
    ASSUME BatchInv, NEW a \in Acceptors, acceptor[a].phase \in Serving, NextJob(a),
           UNCHANGED <<configured, post, queue, putters, puts, passes, chunksIssued, crashes>>,
           request' \in [Posts -> RequestStates], lost' \subseteq Posts,
           \A g \in Posts : g # Current(a) =>
               request'[g] = request[g] /\ (g \in lost' <=> g \in lost),
           \/ request'[Current(a)] \in {"completed", "failed"}
           \/ Current(a) \in lost' /\ request'[Current(a)] = request[Current(a)],
           request'[Current(a)] = "completed" /\ Current(a)[1] \in Actionable =>
               passes[Current(a)] = 1 /\ chunksIssued[Current(a)] = Chunks
    PROVE  BatchInv'
<1> DEFINE h == Current(a)
           jobs == acceptor[a].jobs
           last == Len(jobs) = 1
<1>1. /\ jobs # <<>> /\ Len(jobs) >= 1 /\ a \in configured
      /\ h = jobs[1] /\ h \in Posts /\ h \in JobsOf(a) /\ h \in Held /\ h \notin Queued
      /\ post[h] = "ok" /\ h \notin lost
      /\ request[h] = IF acceptor[a].phase = "status" THEN "accepted" ELSE "processing"
      /\ lockOf[ExecOf(h)] = a /\ ExecOf(h) \in BatchExecutions
      /\ \A b \in Acceptors : b # a => h \notin JobsOf(b)
  BY CurrentFacts
<1>2. /\ unfinished' = unfinished - TaskDone(a)
      /\ last => /\ acceptor' = [acceptor EXCEPT ![a] = IdleAcceptor]
                 /\ lockOf' = [lockOf EXCEPT ![ExecOf(h)] = NoAcceptor]
      /\ ~last => /\ acceptor' = [acceptor EXCEPT ![a] =
                                   [phase |-> "status", jobs |-> Tail(jobs), first |-> FALSE]]
                  /\ lockOf' = lockOf
  BY DEF NextJob
<1>3. /\ jobs \in Seq(Posts) /\ IsInjective(jobs) /\ Len(jobs) \in Nat
      /\ DOMAIN jobs = 1..Len(jobs) /\ acceptor[a].first \in BOOLEAN
  BY JobsTyped DEF BatchInv, NoRepeats
<1>4. /\ Tail(jobs) \in Seq(Posts) /\ Len(Tail(jobs)) = Len(jobs) - 1
      /\ \A i \in 1..Len(jobs) - 1 : Tail(jobs)[i] = jobs[i + 1]
      /\ Head(jobs) = h
      /\ IsInjective(Tail(jobs)) /\ Range(Tail(jobs)) = Range(jobs) \ {h}
  BY <1>1, <1>3, TailNoRepeats
<1>5. last <=> Tail(jobs) = <<>>
  <2>1. Tail(jobs) = <<>> <=> Len(Tail(jobs)) = 0  BY <1>4, SeqBasics
  <2> QED  BY <1>3, <1>4, <2>1
<1>6. /\ IdleAcceptor \in AcceptorType
      /\ [phase |-> "status", jobs |-> Tail(jobs), first |-> FALSE] \in AcceptorType
  BY <1>4 DEF IdleAcceptor, AcceptorType, Phases
<1>7. /\ acceptor' \in [Acceptors -> AcceptorType]
      /\ \A b \in Acceptors : b # a => acceptor'[b] = acceptor[b]
      /\ acceptor'[a].jobs = Tail(jobs) /\ acceptor'[a].first = FALSE
      /\ acceptor'[a].phase = IF last THEN "get" ELSE "status"
  <2>1. acceptor \in [Acceptors -> AcceptorType]  BY DEF BatchInv, BatchTypes
  <2>2. CASE last
    <3>1. acceptor' = [acceptor EXCEPT ![a] = IdleAcceptor] /\ Tail(jobs) = <<>>
      BY <1>2, <1>5, <2>2
    <3> QED  BY <1>6, <2>1, <2>2, <3>1 DEF IdleAcceptor
  <2>3. CASE ~last
    <3>1. acceptor' = [acceptor EXCEPT ![a] =
                         [phase |-> "status", jobs |-> Tail(jobs), first |-> FALSE]]
      BY <1>2, <2>3
    <3> QED  BY <1>6, <2>1, <2>3, <3>1
  <2> QED  BY <2>2, <2>3
<1>8. lockOf' \in [BatchExecutions -> Acceptors \cup {NoAcceptor}]
  BY <1>1, <1>2 DEF BatchInv, BatchTypes
<1>9. unfinished' \in Int /\ TaskDone(a) \in Int
  BY <1>2 DEF TaskDone, BatchInv, BatchTypes
<1>10. BatchTypes'
  BY <1>7, <1>8, <1>9 DEF BatchInv, BatchTypes, RequestStates
<1>11. /\ JobsOf(a)' = JobsOf(a) \ {h}
       /\ \A b \in Acceptors : b # a => JobsOf(b)' = JobsOf(b)
  BY <1>4, <1>7 DEF JobsOf
<1>12. Held' = Held \ {h} /\ Queued' = Queued
  <2>1. Held' = (Held \ JobsOf(a)) \cup (JobsOf(a) \ {h})
    BY <1>11, HeldAfter DEF BatchInv
  <2>2. JobsOf(a) \subseteq Held  BY JobsTyped DEF BatchInv
  <2> QED  BY <1>1, <2>1, <2>2 DEF Queued
<1>13. Queued \subseteq Posts /\ Held \subseteq Posts  BY JobsTyped DEF BatchInv
<1> HIDE DEF h
<1>14. Busy'
  BY <1>1, <1>5, <1>7 DEF BatchInv, Busy
<1>15. NoRepeats'  BY <1>4, <1>7 DEF BatchInv, NoRepeats
<1>16. PuttersWait'  BY DEF BatchInv, PuttersWait
<1>17. \A g \in Posts : g # h => request'[g] = request[g] /\ (g \in lost' <=> g \in lost)
  BY DEF h
<1>18. request'[h] \notin Open \/ h \in lost'  BY DEF h, Open
<1>19. Places'
  <2>1. \A g \in Queued' : post'[g] = "ok" /\ request'[g] = "accepted"
                           /\ g \notin lost' /\ g \notin Held'
    BY <1>1, <1>12, <1>13, <1>17 DEF BatchInv, Places
  <2>2. \A g \in Held' : post'[g] = "ok" /\ g \notin lost' /\ request'[g] \in Open
    BY <1>12, <1>13, <1>17 DEF BatchInv, Places
  <2>3. \A c, b \in Acceptors : c # b => JobsOf(c)' \cap JobsOf(b)' = {}
    BY <1>11 DEF BatchInv, Places
  <2>4. \A g \in Posts : post'[g] \in InHandler => request'[g] = "accepted" /\ g \notin lost'
    BY <1>1, <1>17 DEF BatchInv, Places, InHandler
  <2>5. \A g \in Posts : post'[g] \in {"none", "read", "duplicate"} =>
                            request'[g] = "none" /\ g \notin lost'
    BY <1>1, <1>17 DEF BatchInv, Places
  <2>6. \A g \in Posts : request'[g] \in Open /\ g \notin lost' =>
                            post'[g] \in InHandler \/ g \in Queued' \/ g \in Held'
    BY <1>12, <1>17, <1>18 DEF BatchInv, Places
  <2> QED  BY <2>1, <2>2, <2>3, <2>4, <2>5, <2>6 DEF Places
<1>20. InProgress'
  <2> SUFFICES ASSUME NEW b \in Acceptors, NEW i \in DOMAIN acceptor'[b].jobs
               PROVE  request'[acceptor'[b].jobs[i]] =
                        IF i = 1 /\ acceptor'[b].phase \in {"engine", "issue", "finish"}
                        THEN "processing" ELSE "accepted"
    BY DEF InProgress
  <2>1. acceptor'[b].jobs[i] \in JobsOf(b)'  BY DEF JobsOf, Range
  <2>2. acceptor'[b].jobs[i] \in Posts /\ acceptor'[b].jobs[i] # h
    <3>1. JobsOf(b)' \subseteq JobsOf(b) \ {h}
      BY <1>1, <1>11
    <3>2. JobsOf(b) \subseteq Posts  BY JobsTyped DEF BatchInv
    <3> QED  BY <2>1, <3>1, <3>2
  <2>3. CASE b = a
    <3>1. i \in 1..(Len(jobs) - 1) /\ acceptor'[a].jobs[i] = jobs[i + 1]
      <4>1. DOMAIN Tail(jobs) = 1..(Len(jobs) - 1)  BY <1>4, SeqBasics
      <4>2. acceptor'[b].jobs = Tail(jobs)  BY <1>7, <2>3
      <4> QED  BY <1>4, <2>3, <4>1, <4>2
    <3>2. i + 1 \in DOMAIN jobs /\ i + 1 # 1  BY <1>3, <3>1
    <3>3. request[jobs[i + 1]] = "accepted"  BY <3>2 DEF BatchInv, InProgress
    <3> QED  BY <1>7, <1>17, <2>2, <2>3, <3>1, <3>3
  <2>4. CASE b # a  BY <1>7, <1>17, <2>2, <2>4 DEF BatchInv, InProgress
  <2> QED  BY <2>3, <2>4
<1>21. Unfinished'
  <2> DEFINE X == Queued \cup Held
             G == OpenGroups
  <2>1. IsFiniteSet(Queued) /\ IsFiniteSet(Held) /\ unfinished = Cardinality(X) + Cardinality(G)
    BY DEF BatchInv, Unfinished
  <2>2. IsFiniteSet(X) /\ IsFiniteSet(G)
    BY <2>1, FS_Union, FS_Subset, BatchAssumption DEF OpenGroups
  <2>3. Queued' \cup Held' = X \ {h} /\ h \in X  BY <1>1, <1>12
  <2>4. a \in G <=> ~acceptor[a].first  BY <1>1 DEF OpenGroups
  <2>5. OpenGroups' = IF last THEN G \ {a} ELSE G \cup {a}
    <3>1. \A b \in Acceptors : b # a => (b \in OpenGroups' <=> b \in G)
      BY <1>7 DEF OpenGroups
    <3>2. a \in OpenGroups' <=> ~last  BY <1>5, <1>7 DEF OpenGroups
    <3>3. OpenGroups' \subseteq Acceptors /\ G \subseteq Acceptors  BY DEF OpenGroups
    <3> HIDE DEF G, last
    <3>4. CASE last  BY <3>1, <3>2, <3>3, <3>4
    <3>5. CASE ~last  BY <3>1, <3>2, <3>3, <3>5
    <3> QED  BY <3>4, <3>5
  <2>6. TaskDone(a) = (IF a \in G THEN 1 ELSE 0) + (IF last THEN 1 ELSE 0)
    BY <2>4 DEF TaskDone
  <2> HIDE DEF X, G, last
  <2>7. IsFiniteSet(X \ {h}) /\ Cardinality(X \ {h}) = Cardinality(X) - 1
    BY <2>2, <2>3, FS_RemoveElement
  <2>8. /\ Cardinality(G \ {a}) = IF a \in G THEN Cardinality(G) - 1 ELSE Cardinality(G)
        /\ Cardinality(G \cup {a}) = IF a \in G THEN Cardinality(G) ELSE Cardinality(G) + 1
    BY <2>2, FS_RemoveElement, FS_AddElement
  <2>9. Cardinality(X) \in Nat /\ Cardinality(G) \in Nat  BY <2>2, FS_CardinalityType
  <2>10. unfinished' = Cardinality(X \ {h}) + Cardinality(OpenGroups')
    <3> DEFINE x == Cardinality(X)
               g == Cardinality(G)
    <3>1. CASE last /\ a \in G
      <4>1. TaskDone(a) = 2 /\ Cardinality(OpenGroups') = g - 1
        BY <2>5, <2>6, <2>8, <3>1
      <4> QED  BY <1>2, <2>1, <2>7, <2>9, <4>1
    <3>2. CASE last /\ a \notin G
      <4>1. TaskDone(a) = 1 /\ Cardinality(OpenGroups') = g
        BY <2>5, <2>6, <2>8, <3>2
      <4> QED  BY <1>2, <2>1, <2>7, <2>9, <4>1
    <3>3. CASE ~last /\ a \in G
      <4>1. TaskDone(a) = 1 /\ Cardinality(OpenGroups') = g
        BY <2>5, <2>6, <2>8, <3>3
      <4> QED  BY <1>2, <2>1, <2>7, <2>9, <4>1
    <3>4. CASE ~last /\ a \notin G
      <4>1. TaskDone(a) = 0 /\ Cardinality(OpenGroups') = g + 1
        BY <2>5, <2>6, <2>8, <3>4
      <4> QED  BY <1>2, <2>1, <2>7, <2>9, <4>1
    <3> QED  BY <3>1, <3>2, <3>3, <3>4
  <2>11. IsFiniteSet(Queued') /\ IsFiniteSet(Held')
    BY <1>12, <2>1, FS_RemoveElement
  <2> QED  BY <2>3, <2>10, <2>11 DEF Unfinished
<1>22. UnderLock'
  <2>1. ASSUME NEW b \in Acceptors, acceptor'[b].phase \in Serving, NEW g \in JobsOf(b)'
        PROVE  lockOf'[ExecOf(g)] = b
    <3>1. CASE b = a
      <4>1. ~last  BY <1>7, <2>1, <3>1 DEF Serving
      <4>2. g \in JobsOf(a)  BY <1>11, <2>1, <3>1
      <4>3. lockOf[ExecOf(g)] = a  BY <4>2 DEF BatchInv, UnderLock
      <4> QED  BY <1>2, <3>1, <4>1, <4>3
    <3>2. CASE b # a
      <4>1. lockOf[ExecOf(g)] = b  BY <1>7, <1>11, <2>1, <3>2 DEF BatchInv, UnderLock
      <4>2. ExecOf(g) # ExecOf(h)  BY <1>1, <3>2, <4>1
      <4>3. g \in Posts
        <5>1. JobsOf(b) \subseteq Posts  BY JobsTyped DEF BatchInv
        <5> QED  BY <1>11, <2>1, <3>2, <5>1
      <4>4. ExecOf(g) \in BatchExecutions  BY <4>3, BatchAssumption DEF ExecOf, Posts
      <4> QED  BY <1>2, <4>1, <4>2, <4>4 DEF BatchInv, BatchTypes
    <3> QED  BY <3>1, <3>2
  <2> QED  BY <2>1 DEF UnderLock, ExecOf
<1>23. WorkedOffInOrder'
  <2> SUFFICES ASSUME NEW c \in Acceptors, configured = {c}
               PROVE  \E n \in Nat : InOrderFrom(c, n)'
    BY DEF WorkedOffInOrder
  <2>1. PICK n \in Nat : InOrderFrom(c, n)  BY DEF BatchInv, WorkedOffInOrder
  <2>2. c = a  BY <1>1
  <2>3. /\ Len(puts) = n + Len(jobs) + Len(queue)
        /\ \A i \in 1..n : SettledNow(puts[i])
        /\ \A i \in 1..Len(jobs) : puts[n + i] = jobs[i]
        /\ \A i \in 1..Len(queue) : puts[n + Len(jobs) + i] = queue[i]
    BY <2>1, <2>2 DEF InOrderFrom
  <2>4. Len(puts) \in Nat /\ Len(queue) \in Nat /\ \A i \in 1..Len(puts) : puts[i] \in Posts
    BY SeqBasics DEF BatchInv, BatchTypes
  <2>5. /\ request'[h] \in {"completed", "failed"} \/ h \in lost'
        /\ \A g \in Posts : SettledNow(g) => SettledNow(g)'
    <3>1. request'[h] \in {"completed", "failed"} \/ h \in lost'  BY DEF h
    <3>2. ~SettledNow(Current(a))  BY <1>1 DEF SettledNow, h
    <3> QED  BY <1>17, <3>1, <3>2 DEF SettledNow, h
  <2>6. Len(acceptor'[a].jobs) = Len(jobs) - 1  BY <1>4, <1>7
  <2> HIDE DEF jobs
  <2>7. Len(puts) = (n + 1) + (Len(jobs) - 1) + Len(queue)  BY <1>3, <2>3, <2>4
  <2>8. \A i \in 1..(n + 1) : SettledNow(puts[i])'
    <3> SUFFICES ASSUME NEW i \in 1..(n + 1) PROVE SettledNow(puts[i])'  OBVIOUS
    <3>1. CASE i = n + 1
      <4>1. 1 \in 1..Len(jobs)  BY <1>1, <1>3 DEF jobs
      <4>2. puts[i] = h  BY <1>1, <2>3, <3>1, <4>1 DEF jobs
      <4>3. puts'[i] = h  BY <4>2
      <4> QED  BY <2>5, <4>3 DEF SettledNow
    <3>2. CASE i # n + 1
      <4>1. i \in 1..n /\ i \in 1..Len(puts)  BY <1>1, <1>3, <2>3, <2>4, <3>2
      <4>2. SettledNow(puts[i]) /\ puts[i] \in Posts /\ puts'[i] = puts[i]
        BY <2>3, <2>4, <4>1
      <4> QED  BY <2>5, <4>2 DEF SettledNow
    <3> QED  BY <3>1, <3>2
  <2>9. \A i \in 1..(Len(jobs) - 1) : puts[(n + 1) + i] = acceptor'[a].jobs[i]
    <3> SUFFICES ASSUME NEW i \in 1..(Len(jobs) - 1)
                 PROVE  puts[(n + 1) + i] = acceptor'[a].jobs[i]
      OBVIOUS
    <3>1. i + 1 \in 1..Len(jobs) /\ n + (i + 1) = (n + 1) + i  BY <1>3
    <3>2. puts[n + (i + 1)] = jobs[i + 1]  BY <2>3, <3>1
    <3>3. acceptor'[a].jobs[i] = jobs[i + 1]  BY <1>4, <1>7
    <3> QED  BY <3>1, <3>2, <3>3
  <2>10. \A i \in 1..Len(queue) : puts[(n + 1) + (Len(jobs) - 1) + i] = queue[i]
    <3>1. \A i \in 1..Len(queue) : (n + 1) + (Len(jobs) - 1) + i = n + Len(jobs) + i
      BY <1>3, <2>4
    <3> QED  BY <2>3, <3>1
  <2>11. puts' = puts /\ queue' = queue  OBVIOUS
  <2>12. InOrderFrom(a, n + 1)'
    BY <2>6, <2>7, <2>8, <2>9, <2>10, <2>11 DEF InOrderFrom
  <2>13. n + 1 \in Nat  OBVIOUS
  <2> QED  BY <2>2, <2>12, <2>13
<1>24. Progress'
  <2>1. \A g \in Posts : request'[g] \in {"none", "accepted"} =>
                            passes'[g] = 0 /\ chunksIssued'[g] = 0
    <3>1. request'[h] \in {"completed", "failed"} \/ request'[h] = request[h]  BY DEF h
    <3> QED  BY <1>17, <3>1 DEF BatchInv, Progress
  <2>2. \A b \in Acceptors : acceptor'[b].phase \in {"engine", "issue", "finish"} =>
            acceptor'[b] = acceptor[b] /\ Current(b)' = Current(b)
    BY <1>7 DEF Current
  <2> QED  BY <2>1, <2>2 DEF BatchInv, Progress
<1>25. CompletedMeansIssued'
  <2>1. \A g \in Posts : g # h => request'[g] = request[g]  BY <1>17
  <2>2. request'[h] = "completed" /\ h[1] \in Actionable =>
            passes[h] = 1 /\ chunksIssued[h] = Chunks
    BY DEF h
  <2> QED  BY <2>1, <2>2 DEF BatchInv, CompletedMeansIssued
<1> QED  BY <1>10, <1>14, <1>15, <1>16, <1>19, <1>20, <1>21, <1>22, <1>23, <1>24, <1>25
         DEF BatchInv

LEMMA JobFinishInv ==
    ASSUME BatchInv, NEW a \in Acceptors, JobFinish(a)
    PROVE  BatchInv'
<1>1. /\ acceptor[a].phase = "finish"
      /\ request' = [request EXCEPT ![Current(a)] = "completed"] /\ NextJob(a)
      /\ UNCHANGED <<configured, post, queue, putters, puts, passes, chunksIssued, lost, crashes>>
  BY DEF JobFinish
<1>2. acceptor[a].phase \in Serving  BY <1>1 DEF Serving
<1>3. Current(a) \in Posts  BY <1>2, CurrentFacts
<1>4. /\ request' \in [Posts -> RequestStates] /\ request'[Current(a)] = "completed"
      /\ \A g \in Posts : g # Current(a) => request'[g] = request[g]
      /\ lost' = lost /\ lost \subseteq Posts
  BY <1>1, <1>3 DEF BatchInv, BatchTypes, RequestStates
<1>5. Current(a)[1] \in Actionable =>
         passes[Current(a)] = 1 /\ chunksIssued[Current(a)] = Chunks
  BY <1>1 DEF BatchInv, Progress
<1> QED  BY <1>1, <1>2, <1>4, <1>5, JobEnds

LEMMA JobFailInv ==
    ASSUME BatchInv, NEW a \in Acceptors, JobFail(a)
    PROVE  BatchInv'
<1>1. /\ acceptor[a].phase \in Serving /\ NextJob(a)
      /\ UNCHANGED <<configured, post, queue, putters, puts, passes, chunksIssued, crashes>>
      /\ \/ request' = [request EXCEPT ![Current(a)] = "failed"] /\ lost' = lost
         \/ lost' = lost \cup {Current(a)} /\ request' = request
  BY DEF JobFail, Serving
<1>2. Current(a) \in Posts /\ request[Current(a)] # "completed"  BY <1>1, CurrentFacts
<1>3. /\ request' \in [Posts -> RequestStates] /\ lost' \subseteq Posts
      /\ \A g \in Posts : g # Current(a) =>
            request'[g] = request[g] /\ (g \in lost' <=> g \in lost)
      /\ \/ request'[Current(a)] \in {"completed", "failed"}
         \/ Current(a) \in lost' /\ request'[Current(a)] = request[Current(a)]
      /\ request'[Current(a)] # "completed"
  BY <1>1, <1>2 DEF BatchInv, BatchTypes, RequestStates
<1> QED  BY <1>1, <1>3, JobEnds

-----------------------------------------------------------------------------
(* The stop of the server, and the theorems. *)

LEMMA ServerStopInv ==
    ASSUME BatchInv, ServerStop
    PROVE  BatchInv'
<1>1. /\ crashes < MaxCrashes /\ crashes' = crashes + 1 /\ lost' = lost \cup Unsettled
      /\ post' = [h \in Posts |-> IF post[h] \in {"read", "put", "waiting", "woken"}
                                  THEN "refused" ELSE post[h]]
      /\ queue' = <<>> /\ putters' = <<>> /\ puts' = <<>>
      /\ acceptor' = [a \in Acceptors |-> Off]
      /\ lockOf' = [e \in BatchExecutions |-> NoAcceptor] /\ unfinished' = 0
      /\ UNCHANGED <<configured, request, passes, chunksIssued>>
  BY DEF ServerStop
<1>2. Off \in AcceptorType  BY DEF Off, AcceptorType, Phases
<1>3. <<>> \in Seq(Posts) /\ Len(<<>>) = 0 /\ DOMAIN <<>> = {}  OBVIOUS
<1>4. acceptor' \in [Acceptors -> AcceptorType] /\ \A a \in Acceptors : acceptor'[a] = Off
  BY <1>1, <1>2
<1>5. \A a \in Acceptors : acceptor'[a].jobs = <<>> /\ acceptor'[a].phase = "off"
  BY <1>4 DEF Off
<1>6. Queued' = {} /\ Held' = {} /\ OpenGroups' = {} /\ \A a \in Acceptors : JobsOf(a)' = {}
  <2>1. Range(<<>>) = {}  BY <1>3 DEF Range
  <2>2. \A a \in Acceptors : JobsOf(a)' = {}  BY <1>5, <2>1 DEF JobsOf
  <2> QED  BY <1>1, <1>5, <2>1, <2>2 DEF Queued, Held, OpenGroups
<1>7. BatchTypes'
  <2>1. Len(queue') <= QueueMax  BY <1>1, <1>3, BatchAssumption
  <2>2. crashes' \in 0..MaxCrashes  BY <1>1, BatchAssumption DEF BatchInv, BatchTypes
  <2>3. post' \in [Posts -> PostStates] /\ lost' \subseteq Posts
    BY <1>1 DEF BatchInv, BatchTypes, PostStates, Unsettled
  <2>4. lockOf' \in [BatchExecutions -> Acceptors \cup {NoAcceptor}] /\ unfinished' \in Int
    BY <1>1
  <2> QED  BY <1>1, <1>3, <1>4, <2>1, <2>2, <2>3, <2>4 DEF BatchInv, BatchTypes, PostStates
<1>8. Busy'  BY <1>5 DEF Busy
<1>9. NoRepeats' /\ PuttersWait'
  BY <1>1, <1>3, <1>5 DEF NoRepeats, PuttersWait, IsInjective
<1>10. Places'
  <2>1. \A g \in Posts : post'[g] \notin InHandler /\ post'[g] # "read"
    BY <1>1 DEF InHandler
  <2>2. \A g \in Posts : request'[g] \in Open => g \in lost'
    BY <1>1 DEF Unsettled, Open
  <2>3. \A g \in Posts : post'[g] \in {"none", "read", "duplicate"} =>
                            request'[g] = "none" /\ g \notin lost'
    BY <1>1 DEF BatchInv, Places, Unsettled
  <2> QED  BY <1>6, <2>1, <2>2, <2>3 DEF Places
<1>11. InProgress'  BY <1>3, <1>5 DEF InProgress
<1>12. Unfinished'
  <2>1. IsFiniteSet({}) /\ Cardinality({}) = 0  BY FS_EmptySet
  <2>2. Queued' \cup Held' = {} /\ unfinished' = 0  BY <1>1, <1>6
  <2> QED  BY <1>6, <2>1, <2>2 DEF Unfinished
<1>13. UnderLock'  BY <1>5 DEF UnderLock, Serving
<1>14. WorkedOffInOrder'
  <2> SUFFICES ASSUME NEW a \in Acceptors PROVE InOrderFrom(a, 0)'
    BY DEF WorkedOffInOrder
  <2>1. Len(puts') = 0 /\ Len(acceptor'[a].jobs) = 0 /\ Len(queue') = 0
    BY <1>1, <1>3, <1>5
  <2> QED  BY <2>1 DEF InOrderFrom
<1>15. Progress'  BY <1>1, <1>5 DEF BatchInv, Progress
<1>16. CompletedMeansIssued'  BY <1>1 DEF BatchInv, CompletedMeansIssued
<1> QED  BY <1>7, <1>8, <1>9, <1>10, <1>11, <1>12, <1>13, <1>14, <1>15, <1>16 DEF BatchInv

LEMMA BatchNextInv == BatchInv /\ [BatchNext]_batchVars => BatchInv'
<1> SUFFICES ASSUME BatchInv, [BatchNext]_batchVars PROVE BatchInv'  OBVIOUS
<1>1. ASSUME NEW b \in Batches, NEW n \in 1..MaxPosts[b], PostRead(b, n) PROVE BatchInv'
  BY <1>1, PostReadInv
<1>2. ASSUME NEW h \in Posts, PostCommit(h) \/ PostFail(h) PROVE BatchInv'
  BY <1>2, PostCommitInv, PostFailInv
<1>3. ASSUME NEW h \in Posts, PutNow(h) \/ PutWait(h) \/ PutTimeout(h) PROVE BatchInv'
  BY <1>3, PutNowInv, PutWaitInv, PutTimeoutInv
<1>4. ASSUME NEW a \in Acceptors, WorkerGet(a) \/ WorkerLock(a) PROVE BatchInv'
  BY <1>4, WorkerGetInv, WorkerLockInv
<1>5. ASSUME NEW a \in Acceptors, JobStep(a) \/ JobFail(a) PROVE BatchInv'
  <2>1. CASE JobStatus(a)  BY <2>1, JobStatusInv
  <2>2. CASE JobEngine(a)  BY <2>2, JobEngineInv
  <2>3. CASE JobIssue(a)  BY <2>3, JobIssueInv
  <2>4. CASE JobFinish(a)  BY <2>4, JobFinishInv
  <2>5. CASE JobFail(a)  BY <2>5, JobFailInv
  <2> QED  BY <1>5, <2>1, <2>2, <2>3, <2>4, <2>5 DEF JobStep
<1>6. CASE ServerStop  BY <1>6, ServerStopInv
<1>7. CASE UNCHANGED batchVars
  <2>1. UNCHANGED <<configured, post, request, queue, putters, acceptor, lockOf, unfinished,
                    puts, passes, chunksIssued, lost, crashes>>
    BY <1>7 DEF batchVars
  <2>2. Queued' = Queued /\ Held' = Held /\ OpenGroups' = OpenGroups
        /\ \A a \in Acceptors : JobsOf(a)' = JobsOf(a) /\ Current(a)' = Current(a)
    BY <2>1 DEF Queued, Held, OpenGroups, JobsOf, Current
  <2>3. BatchTypes' /\ Busy' /\ NoRepeats' /\ PuttersWait'
    BY <2>1 DEF BatchInv, BatchTypes, Busy, NoRepeats, PuttersWait
  <2>4. Places' /\ InProgress' /\ Unfinished'
    BY <2>1, <2>2 DEF BatchInv, Places, InProgress, Unfinished
  <2>5. UnderLock'
    <3>1. \A a \in Acceptors : acceptor'[a].phase \in Serving =>
              \A g \in JobsOf(a)' : lockOf'[ExecOf(g)] = a
      BY <2>1, <2>2 DEF BatchInv, UnderLock
    <3> QED  BY <3>1 DEF UnderLock, ExecOf
  <2>6. WorkedOffInOrder'
    <3>1. \A h \in Posts : SettledNow(h) => SettledNow(h)'  BY <2>1 DEF SettledNow
    <3> QED  BY <2>1, <3>1, SameOrder DEF BatchInv
  <2>7. Progress' /\ CompletedMeansIssued'
    BY <2>1, <2>2 DEF BatchInv, Progress, CompletedMeansIssued
  <2> QED  BY <2>3, <2>4, <2>5, <2>6, <2>7 DEF BatchInv
<1> QED  BY <1>1, <1>2, <1>3, <1>4, <1>5, <1>6, <1>7 DEF BatchNext

LEMMA BatchInvariant == BatchSpec => []BatchInv
BY BatchInitInv, BatchNextInv, PTL DEF BatchSpec

\* The types of the acceptor; task_done (server/api/core/batch.py) is never
\* called more often than jobs were queued, so that it cannot end the task.
THEOREM BatchTypesHold == BatchSpec => []BatchTypeOK
<1>1. BatchInv => BatchTypeOK
  <2> SUFFICES ASSUME BatchInv PROVE BatchTypeOK  OBVIOUS
  <2>1. unfinished \in Nat
    <3>1. IsFiniteSet(Queued \cup Held) /\ IsFiniteSet(OpenGroups)
      BY FS_Union, FS_Subset, BatchAssumption DEF BatchInv, Unfinished, OpenGroups
    <3>2. Cardinality(Queued \cup Held) \in Nat /\ Cardinality(OpenGroups) \in Nat
      BY <3>1, FS_CardinalityType
    <3> QED  BY <3>2 DEF BatchInv, Unfinished
  <2> QED  BY <2>1 DEF BatchInv, BatchTypes, BatchTypeOK, AcceptorType
<1> QED  BY <1>1, BatchInvariant, PTL

\* A request that is open and not lost is with the handler, in the queue or with
\* one acceptor, in exactly one of these places; no other request is anywhere.
THEOREM RequestsCarriedOnce == BatchSpec => []CarriedOnce
<1>1. BatchInv => CarriedOnce
  <2> SUFFICES ASSUME BatchInv, NEW h \in Posts
               PROVE  Carriers(h) = IF request[h] \in Open /\ h \notin lost THEN 1 ELSE 0
    BY DEF CarriedOnce, Open
  <2> DEFINE I == {i \in DOMAIN queue : queue[i] = h}
             A == {a \in Acceptors : h \in JobsOf(a)}
             c == IF post[h] \in InHandler THEN 1 ELSE 0
  <2>1. Carriers(h) = Cardinality(I) + Cardinality(A) + c
    BY DEF Carriers, InHandler
  <2>2. Cardinality({}) = 0 /\ \A x : Cardinality({x}) = 1  BY FS_EmptySet, FS_Singleton
  <2>3. Cardinality(I) = IF h \in Queued THEN 1 ELSE 0
    <3>1. CASE h \in Queued
      <4>1. PICK i \in DOMAIN queue : queue[i] = h  BY <3>1 DEF Queued, Range
      <4>2. I = {i}  BY <4>1 DEF BatchInv, NoRepeats, IsInjective
      <4> QED  BY <2>2, <3>1, <4>2
    <3>2. CASE h \notin Queued
      <4>1. I = {}  BY <3>2 DEF Queued, Range
      <4> QED  BY <2>2, <3>2, <4>1
    <3> QED  BY <3>1, <3>2
  <2>4. Cardinality(A) = IF h \in Held THEN 1 ELSE 0
    <3>1. CASE h \in Held
      <4>1. PICK a \in Acceptors : h \in JobsOf(a)  BY <3>1 DEF Held
      <4>2. A = {a}  BY <4>1 DEF BatchInv, Places
      <4> QED  BY <2>2, <3>1, <4>2
    <3>2. CASE h \notin Held
      <4>1. A = {}  BY <3>2 DEF Held
      <4> QED  BY <2>2, <3>2, <4>1
    <3> QED  BY <3>1, <3>2
  <2>5. h \in Queued => h \notin Held /\ post[h] \notin InHandler
                        /\ request[h] \in Open /\ h \notin lost
    BY DEF BatchInv, Places, InHandler, Open
  <2>6. h \in Held => h \notin Queued /\ post[h] \notin InHandler
                      /\ request[h] \in Open /\ h \notin lost
    BY DEF BatchInv, Places, InHandler
  <2>7. post[h] \in InHandler => h \notin Queued /\ h \notin Held
                                 /\ request[h] \in Open /\ h \notin lost
    BY <2>5, <2>6 DEF BatchInv, Places, Open
  <2>8. request[h] \in Open /\ h \notin lost =>
            post[h] \in InHandler \/ h \in Queued \/ h \in Held
    BY DEF BatchInv, Places
  <2> HIDE DEF I, A
  <2> QED  BY <2>1, <2>3, <2>4, <2>5, <2>6, <2>7, <2>8
<1> QED  BY <1>1, BatchInvariant, PTL

\* No two acceptors work for one execution, a group belongs to the execution of
\* its lock, and one acceptor task works in the order of the queue.
THEOREM RequestsServedInTurn == BatchSpec => []ServedInTurn
<1>1. BatchInv => ServedInTurn
  <2> SUFFICES ASSUME BatchInv PROVE ServedInTurn  OBVIOUS
  <2>1. ASSUME NEW a \in Acceptors, acceptor[a].phase \in Serving,
               NEW i \in DOMAIN acceptor[a].jobs
        PROVE  lockOf[ExecOf(acceptor[a].jobs[i])] = a
    <3>1. acceptor[a].jobs[i] \in JobsOf(a)  BY DEF JobsOf, Range
    <3> QED  BY <2>1, <3>1 DEF BatchInv, UnderLock
  <2>2. ASSUME Cardinality(configured) = 1, NEW i \in DOMAIN puts, NEW j \in DOMAIN puts,
               i < j, request[puts[j]] # "accepted"
        PROVE  request[puts[i]] \in {"completed", "failed"} \/ puts[i] \in lost
    <3>1. PICK x : configured = {x}
      <4>1. IsFiniteSet(configured)
        BY BatchAssumption, FS_Subset DEF BatchInv, BatchTypes
      <4> QED  BY <2>2, <4>1, FS_Singleton
    <3>2. x \in Acceptors  BY <3>1 DEF BatchInv, BatchTypes
    <3>3. PICK n \in Nat : InOrderFrom(x, n)
      BY <3>1, <3>2 DEF BatchInv, WorkedOffInOrder
    <3> DEFINE jobs == acceptor[x].jobs
    <3>4. /\ Len(puts) = n + Len(jobs) + Len(queue)
          /\ \A k \in 1..n : SettledNow(puts[k])
          /\ \A k \in 1..Len(jobs) : puts[n + k] = jobs[k]
          /\ \A k \in 1..Len(queue) : puts[n + Len(jobs) + k] = queue[k]
      BY <3>3 DEF InOrderFrom
    <3>5. /\ DOMAIN puts = 1..Len(puts) /\ Len(puts) \in Nat
          /\ DOMAIN jobs = 1..Len(jobs) /\ Len(jobs) \in Nat
          /\ DOMAIN queue = 1..Len(queue) /\ Len(queue) \in Nat
      BY <3>2, SeqBasics, JobsTyped DEF BatchInv, BatchTypes
    <3>6. \A k \in 1..Len(jobs) : k # 1 => request[jobs[k]] = "accepted"
      BY <3>2, <3>5 DEF BatchInv, InProgress
    <3>7. \A k \in 1..Len(queue) : request[queue[k]] = "accepted"
      BY <3>5 DEF BatchInv, Places, Queued, Range
    <3> HIDE DEF jobs
    <3>8. j <= n + 1
      <4> SUFFICES ASSUME j > n + 1 PROVE FALSE  BY <3>5
      <4>1. CASE j <= n + Len(jobs)
        <5>1. j - n \in 1..Len(jobs) /\ j - n # 1 /\ n + (j - n) = j  BY <3>5, <4>1
        <5> QED  BY <2>2, <3>4, <3>6, <5>1
      <4>2. CASE ~(j <= n + Len(jobs))
        <5>1. j - (n + Len(jobs)) \in 1..Len(queue)
              /\ n + Len(jobs) + (j - (n + Len(jobs))) = j
          BY <3>4, <3>5, <4>2
        <5> QED  BY <2>2, <3>4, <3>7, <5>1
      <4> QED  BY <4>1, <4>2
    <3>9. i \in 1..n  BY <2>2, <3>5, <3>8
    <3> QED  BY <3>4, <3>9 DEF SettledNow
  <2> QED  BY <2>1, <2>2 DEF ServedInTurn, Serving
<1> QED  BY <1>1, BatchInvariant, PTL

\* A request is reported completed after one engine pass and all chunks of its
\* commands; a failed one has issued part of them at most.
THEOREM CompletedIsIssued == BatchSpec => []CompletedMeansIssued
<1>1. BatchInv => CompletedMeansIssued  BY DEF BatchInv
<1> QED  BY <1>1, BatchInvariant, PTL
=============================================================================

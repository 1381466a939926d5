---------------------------- MODULE WatchersProof ----------------------------
(***************************************************************************)
(* Proofs about Watchers, for buffers and queues of any size and any       *)
(* number of messages, events and signals.                                 *)
(***************************************************************************)
EXTENDS Watchers, SequenceTheorems, TLAPS

-----------------------------------------------------------------------------
(* uevent-view                                                             *)

UTypeOK ==
    /\ pc \in {"open", "loop", "select", "recv", "dump", "test", "closed", "failed"}
    /\ cnt \in Nat /\ sent \in Nat /\ error \in BOOLEAN
    /\ dumped \in Seq(Nat) /\ queue \in Seq(Nat)

\* The messages taken from the socket.
Taken == Len(dumped) + (IF pc = "dump" THEN 1 ELSE 0)

\* The messages printed, held and queued are consecutive, up to the last one that was
\* sent; when one was lost, to the last one there was room for, and recv fails next.
Consecutive ==
    /\ \A k \in 1..Len(dumped) : dumped[k] = k
    /\ pc = "dump" => cnt = Taken
    /\ pc = "recv" => Readable
    /\ Taken <= sent
    /\ ~Ended => /\ \A k \in 1..Len(queue) : queue[k] = Taken + k
                 /\ Taken + Len(queue) <= sent /\ Len(queue) <= Room
                 /\ IF error THEN Len(queue) = Room ELSE Taken + Len(queue) = sent

UInv == UTypeOK /\ Consecutive

\* At first nothing was sent.
LEMMA UInit == Init => UInv
<1> SUFFICES ASSUME Init PROVE UInv
  OBVIOUS
<1>1. /\ pc = "open" /\ cnt = 0 /\ error = FALSE /\ sent = 0
      /\ dumped = <<>> /\ Len(dumped) = 0 /\ queue = <<>> /\ Len(queue) = 0
  BY DEF Init
<1>2. UTypeOK
  BY <1>1, EmptySeq DEF UTypeOK
<1>3. Taken = 0
  BY <1>1 DEF Taken
<1>4. Consecutive
  BY <1>1, <1>3, ViewAssumption DEF Consecutive
<1> QED
  BY <1>2, <1>4 DEF UInv

\* The kernel's step.
LEMMA SendKeeps == UInv /\ Send => UInv'
<1> SUFFICES ASSUME UInv, Send PROVE UInv'
  OBVIOUS
<1>1. /\ UNCHANGED <<pc, cnt, dumped>> /\ ~Ended /\ sent' = sent + 1
      /\ UTypeOK /\ Consecutive /\ Len(queue) \in Nat /\ Len(dumped) \in Nat /\ sent \in Nat
  BY LenProperties DEF Send, UInv, UTypeOK
<1>2. Taken' = Taken /\ Taken \in Nat /\ ~Ended'
  BY <1>1 DEF Taken, Ended
<1>3. CASE Len(queue) < Room
  <2>1. queue' = Append(queue, sent + 1) /\ error' = error
    BY <1>1, <1>3 DEF Send
  <2>2. /\ queue' \in Seq(Nat) /\ Len(queue') = Len(queue) + 1
        /\ queue'[Len(queue) + 1] = sent + 1
        /\ \A k \in 1..Len(queue) : queue'[k] = queue[k]
    BY <1>1, <2>1, AppendProperties DEF UTypeOK
  <2>3. queue' # <<>>
    BY <1>1, <2>2, EmptySeq
  <2>4. ~error /\ Taken + Len(queue) = sent
    BY <1>1, <1>3, ViewAssumption DEF Consecutive
  <2>5. ASSUME NEW k \in 1..Len(queue') PROVE queue'[k] = Taken + k
    <3>1. CASE k = Len(queue) + 1
      <4>1. sent + 1 = Taken + k
        BY <1>1, <1>2, <2>4, <3>1
      <4> QED
        BY <2>2, <3>1, <4>1
    <3>2. CASE k # Len(queue) + 1
      <4>1. k \in 1..Len(queue)
        BY <1>1, <2>2, <3>2
      <4>2. queue[k] = Taken + k
        BY <1>1, <4>1 DEF Consecutive
      <4> QED
        BY <2>2, <4>1, <4>2
    <3> QED
      BY <3>1, <3>2
  <2>6. /\ Taken + Len(queue') = sent' /\ Taken <= sent' /\ Len(queue') <= Room
        /\ Readable' /\ ~error'
    <3>1. Taken + Len(queue') = sent' /\ Taken <= sent' /\ Len(queue') <= Room
      <4>1. Len(queue) \in Nat /\ Taken \in Nat /\ sent \in Nat /\ sent' = sent + 1 /\ Len(queue) < Room
        BY <1>1, <1>2, <1>3
      <4>2. Len(queue') = Len(queue) + 1 /\ Taken + Len(queue) = sent /\ Room \in Nat
        BY <2>2, <2>4, ViewAssumption
      <4> QED
        BY <4>1, <4>2
    <3> QED
      BY <2>1, <2>3, <2>4, <3>1 DEF Readable
  <2>7. Consecutive'
    BY <1>1, <1>2, <2>5, <2>6 DEF Consecutive
  <2> QED
    BY <1>1, <2>1, <2>2, <2>7 DEF UInv, UTypeOK
<1>4. CASE ~(Len(queue) < Room)
  <2>1. error' = TRUE /\ queue' = queue
    BY <1>1, <1>4 DEF Send
  <2>2. Len(queue) = Room
    BY <1>1, <1>4, ViewAssumption DEF Consecutive
  <2> QED
    BY <1>1, <1>2, <2>1, <2>2 DEF UInv, UTypeOK, Consecutive, Readable
<1> QED
  BY <1>3, <1>4

\* recv takes the first message, or fails.
LEMMA RecvKeeps == UInv /\ Recv => UInv'
<1> SUFFICES ASSUME UInv, Recv PROVE UInv'
  OBVIOUS
<1>1. /\ UNCHANGED <<dumped, sent>> /\ pc = "recv" /\ ~Ended
      /\ UTypeOK /\ Consecutive /\ Len(queue) \in Nat /\ Len(dumped) \in Nat /\ sent \in Nat
      /\ Taken = Len(dumped)
  BY LenProperties DEF Recv, UInv, UTypeOK, Ended, Taken
<1>2. CASE error
  BY <1>1, <1>2 DEF Recv, UInv, UTypeOK, Consecutive, Taken, Ended
<1>3. CASE ~error
  <2>1. queue # <<>> /\ queue' = Tail(queue) /\ cnt' = Head(queue) /\ pc' = "dump" /\ error' = error
    BY <1>1, <1>3 DEF Recv, Consecutive, Readable
  <2>2. /\ queue' \in Seq(Nat) /\ Len(queue') = Len(queue) - 1 /\ Len(queue) \in Nat \ {0}
        /\ \A k \in 1..Len(queue') : queue'[k] = queue[k + 1]
        /\ cnt' = queue[1] /\ cnt' \in Nat
    BY <1>1, <2>1, HeadTailProperties, EmptySeq DEF UTypeOK
  <2>3. Taken' = Taken + 1
    BY <1>1, <2>1 DEF Taken
  <2>4. Taken + Len(queue) = sent /\ cnt' = Taken + 1
    BY <1>1, <1>3, <2>2 DEF Consecutive
  <2>5. ASSUME NEW k \in 1..Len(queue') PROVE queue'[k] = Taken' + k
    <3>1. k + 1 \in 1..Len(queue)
      BY <2>2
    <3>2. queue[k + 1] = Taken + (k + 1)
      BY <1>1, <3>1 DEF Consecutive
    <3> QED
      BY <1>1, <2>2, <2>3, <3>2
  <2>6. /\ Taken' + Len(queue') = sent' /\ Taken' <= sent' /\ Len(queue') <= Room
        /\ cnt' = Taken' /\ ~error'
    <3>1. Len(queue) <= Room /\ Room \in Nat /\ Taken \in Nat
      BY <1>1, ViewAssumption DEF Consecutive
    <3>2. sent' = sent /\ ~error'
      BY <1>1, <1>3, <2>1
    <3>3. Taken' + Len(queue') = sent'
      BY <1>1, <2>2, <2>3, <2>4, <3>1, <3>2
    <3>4. Taken' <= sent'
      BY <1>1, <2>2, <2>3, <2>4, <3>1, <3>2
    <3>5. Len(queue') <= Room
      BY <2>2, <3>1
    <3> QED
      BY <2>3, <2>4, <3>2, <3>3, <3>4, <3>5
  <2>7. Consecutive'
    BY <1>1, <2>1, <2>5, <2>6 DEF Consecutive
  <2> QED
    BY <1>1, <2>1, <2>2, <2>7 DEF UInv, UTypeOK
<1> QED
  BY <1>2, <1>3

\* The message taken is printed.
LEMMA DumpKeeps == UInv /\ Dump => UInv'
<1> SUFFICES ASSUME UInv, Dump PROVE UInv'
  OBVIOUS
<1>1. /\ dumped' = Append(dumped, cnt) /\ pc = "dump" /\ pc' = "test" /\ ~Ended /\ ~Ended'
      /\ UNCHANGED <<cnt, queue, error, sent>>
      /\ UTypeOK /\ Consecutive /\ Len(queue) \in Nat /\ Len(dumped) \in Nat /\ sent \in Nat
  BY LenProperties DEF Dump, UInv, UTypeOK, Ended, kernel
<1>2. /\ dumped' \in Seq(Nat) /\ Len(dumped') = Len(dumped) + 1
      /\ dumped'[Len(dumped) + 1] = cnt
      /\ \A k \in 1..Len(dumped) : dumped'[k] = dumped[k]
  BY <1>1, AppendProperties DEF UTypeOK
<1>3. Taken' = Taken /\ Taken = Len(dumped) + 1 /\ cnt = Taken
  BY <1>1, <1>2 DEF Taken, Consecutive
<1>4. \A k \in 1..Len(dumped') : dumped'[k] = k
  BY <1>1, <1>2, <1>3 DEF Consecutive
<1>5. Consecutive'
  BY <1>1, <1>3, <1>4 DEF Consecutive
<1> QED
  BY <1>1, <1>2, <1>5 DEF UInv, UTypeOK

\* The other steps move the program on, and nothing else that the invariant reads.
LEMMA MovesKeep == UInv /\ (Open \/ CallSelect \/ Select \/ TestFlag \/ Signal) => UInv'
<1> SUFFICES ASSUME UInv, Open \/ CallSelect \/ Select \/ TestFlag \/ Signal PROVE UInv'
  OBVIOUS
<1>1. UNCHANGED <<cnt, dumped, queue, error, sent>>
  BY DEF Open, CallSelect, Select, TestFlag, Signal, kernel
<1>2. /\ pc' \in {"loop", "select", "recv", "closed", "failed"} \/ pc' = pc
      /\ pc # "dump" \/ pc' = pc
      /\ pc' = "recv" => Readable \/ pc' = pc
      /\ ~Ended' => ~Ended
  BY DEF Open, CallSelect, Select, TestFlag, Signal, Ended, UInv, UTypeOK
<1>3. Taken' = Taken
  BY <1>1, <1>2 DEF Taken
<1> QED
  BY <1>1, <1>2, <1>3 DEF UInv, UTypeOK, Consecutive, Readable

\* Every step of uevent-view or of the kernel keeps the invariant.
LEMMA UStep == UInv /\ [Next]_vars => UInv'
<1> SUFFICES ASSUME UInv, [Next]_vars PROVE UInv'
  OBVIOUS
<1>1. CASE UNCHANGED vars
  BY <1>1 DEF UInv, UTypeOK, Consecutive, Taken, Readable, Ended, vars, kernel
<1> QED
  BY <1>1, SendKeeps, RecvKeeps, DumpKeeps, MovesKeep DEF Next, Program

\* The invariant of uevent-view holds throughout, whichever tool runs.
LEMMA UInvariance == WSpec => []UInv
<1>1. WInit => UInv
  BY UInit DEF WInit
<1>2. UInv /\ [WNext]_<<tool, vars, inotifyVars>> => UInv'
  BY UStep DEF WNext, InotifyRuns
<1> QED
  BY <1>1, <1>2, PTL DEF WSpec

\* Whatever the size of the socket buffer and however messages and signals arrive,
\* uevent-view (main.c:115) prints the first messages that were sent and skips none.
THEOREM NothingSkipped == WSpec => []NoSilentGap
<1>1. UInv => NoSilentGap
  <2> SUFFICES ASSUME UInv PROVE NoSilentGap
    OBVIOUS
  <2> DEFINE all == [n \in 1..sent |-> n]
  <2>1. /\ dumped \in Seq(Nat) /\ Len(dumped) \in Nat /\ sent \in Nat
        /\ Len(dumped) <= sent /\ \A k \in 1..Len(dumped) : dumped[k] = k
    BY LenProperties DEF UInv, UTypeOK, Consecutive, Taken
  <2>2. Len(all) = sent /\ \A k \in 1..Len(dumped) : all[k] = k
    BY <2>1
  <2> HIDE DEF all
  <2>3. /\ SubSeq(all, 1, Len(dumped)) \in Seq(Nat)
        /\ Len(SubSeq(all, 1, Len(dumped))) = Len(dumped)
        /\ \A k \in 1..Len(dumped) : SubSeq(all, 1, Len(dumped))[k] = k
    <3>1. \A k \in 1..Len(dumped) : all[k] \in Nat
      BY <2>1, <2>2
    <3>2. /\ SubSeq(all, 1, Len(dumped)) \in Seq(Nat)
          /\ Len(SubSeq(all, 1, Len(dumped))) = IF 1 <= Len(dumped) THEN Len(dumped) - 1 + 1 ELSE 0
          /\ \A k \in 1..Len(dumped) - 1 + 1 : SubSeq(all, 1, Len(dumped))[k] = all[1 + k - 1]
      BY <2>1, <3>1, SubSeqProperties
    <3> QED
      BY <2>1, <2>2, <3>2
  <2>4. SubSeq(all, 1, Len(dumped)) = dumped
    BY <2>1, <2>3, SeqEqual
  <2>5. SubSeq(dumped, 1, Len(dumped)) = dumped
    BY <2>1, SubSeqFull
  <2> QED
    BY <2>1, <2>2, <2>4, <2>5 DEF NoSilentGap, IsPrefix, all
<1> QED
  BY <1>1, UInvariance, PTL

-----------------------------------------------------------------------------
(* Sequences of event numbers, of which 0 stands for any event without a name *)

\* The numbers that are not 0 grow.
Growing(s) == \A m, n \in 1..Len(s) : m < n /\ s[n] # 0 => s[m] < s[n]

\* A new event comes last.
LEMMA GrowingAppend ==
    ASSUME NEW s \in Seq(Nat), NEW e \in Nat, Growing(s),
           e = 0 \/ \A k \in 1..Len(s) : s[k] < e
    PROVE  Growing(Append(s, e))
<1> DEFINE t == Append(s, e)
<1>1. /\ Len(t) = Len(s) + 1 /\ t[Len(s) + 1] = e /\ Len(s) \in Nat
      /\ \A k \in 1..Len(s) : t[k] = s[k]
  BY AppendProperties
<1> HIDE DEF t
<1>2. ASSUME NEW m \in 1..Len(t), NEW n \in 1..Len(t), m < n, t[n] # 0 PROVE t[m] < t[n]
  <2>1. m \in 1..Len(s)
    BY <1>1, <1>2
  <2>2. CASE n = Len(s) + 1
    BY <1>1, <1>2, <2>1, <2>2
  <2>3. CASE n # Len(s) + 1
    <3>1. n \in 1..Len(s)
      BY <1>1, <2>3
    <3> QED
      BY <1>1, <1>2, <2>1, <3>1 DEF Growing
  <2> QED
    BY <2>2, <2>3
<1> QED
  BY <1>2 DEF Growing, t

\* An appended event is the only new one.
LEMMA ToSetAppend ==
    ASSUME NEW s \in Seq(Nat), NEW e \in Nat
    PROVE  ToSet(Append(s, e)) = ToSet(s) \cup {e}
<1> DEFINE t == Append(s, e)
<1>1. /\ DOMAIN t = 1..Len(s) + 1 /\ DOMAIN s = 1..Len(s)
      /\ t[Len(s) + 1] = e /\ Len(s) \in Nat
      /\ \A k \in 1..Len(s) : t[k] = s[k]
  BY AppendProperties, LenProperties
<1> HIDE DEF t
<1>2. \A k \in 1..Len(s) + 1 : k = Len(s) + 1 \/ k \in 1..Len(s)
  BY <1>1
<1>3. 1..Len(s) \subseteq 1..Len(s) + 1 /\ Len(s) + 1 \in 1..Len(s) + 1
  BY <1>1
<1> QED
  BY <1>1, <1>2, <1>3 DEF ToSet, t

\* The head of q goes over to the end of p.
LEMMA MoveHead ==
    ASSUME NEW p \in Seq(Nat), NEW q \in Seq(Nat), q # <<>>
    PROVE  Append(p, Head(q)) \o Tail(q) = p \o q
<1>1. Head(q) \in Nat /\ Tail(q) \in Seq(Nat) /\ q = <<Head(q)>> \o Tail(q)
  <2>1. /\ Head(q) \in Nat /\ Tail(q) \in Seq(Nat) /\ Len(Tail(q)) = Len(q) - 1
        /\ \A k \in 1..Len(Tail(q)) : Tail(q)[k] = q[k + 1]
    BY HeadTailProperties
  <2>2. <<Head(q)>> \in Seq(Nat) /\ Len(<<Head(q)>>) = 1 /\ <<Head(q)>>[1] = q[1]
    BY <2>1
  <2>3. Len(q) \in Nat \ {0}
    BY EmptySeq
  <2> DEFINE r == <<Head(q)>> \o Tail(q)
  <2>4. /\ r \in Seq(Nat) /\ Len(r) = Len(q)
        /\ \A k \in 1..Len(q) : r[k] = IF k <= 1 THEN <<Head(q)>>[k] ELSE Tail(q)[k - 1]
    <3>1. /\ r \in Seq(Nat) /\ Len(r) = Len(<<Head(q)>>) + Len(Tail(q))
          /\ \A k \in 1..Len(<<Head(q)>>) + Len(Tail(q)) :
               r[k] = IF k <= Len(<<Head(q)>>) THEN <<Head(q)>>[k]
                      ELSE Tail(q)[k - Len(<<Head(q)>>)]
      BY <2>1, <2>2, ConcatProperties
    <3>2. Len(<<Head(q)>>) + Len(Tail(q)) = Len(q)
      BY <2>1, <2>2, <2>3
    <3> QED
      BY <2>2, <3>1, <3>2
  <2> HIDE DEF r
  <2>5. ASSUME NEW k \in 1..Len(q) PROVE r[k] = q[k]
    <3>1. CASE k = 1
      BY <2>2, <2>4, <3>1
    <3>2. CASE k # 1
      <4>1. k - 1 \in 1..Len(Tail(q)) /\ (k - 1) + 1 = k
        BY <2>1, <2>3, <3>2
      <4> QED
        BY <2>1, <2>4, <3>2, <4>1
    <3> QED
      BY <3>1, <3>2
  <2>6. r = q
    BY <2>4, <2>5, SeqEqual
  <2> QED
    BY <2>1, <2>6 DEF r
<1>2. Append(p, Head(q)) = p \o <<Head(q)>>
  BY <1>1, AppendIsConcat
<1>3. <<Head(q)>> \in Seq(Nat)
  BY <1>1
<1>4. (p \o <<Head(q)>>) \o Tail(q) = p \o (<<Head(q)>> \o Tail(q))
  BY <1>1, <1>3, ConcatAssociative
<1> QED
  BY <1>1, <1>2, <1>4

\* Without a 0 in between the others grow as they did.
LEMMA DropZero ==
    ASSUME NEW p \in Seq(Nat), NEW q \in Seq(Nat), q # <<>>, Head(q) = 0, Growing(p \o q)
    PROVE  Growing(p \o Tail(q)) /\ ToSet(p \o q) = ToSet(p \o Tail(q)) \cup {0}
<1> DEFINE u == p \o q
           v == p \o Tail(q)
           a == Len(p)
           w == Tail(q)
<1>1. /\ a \in Nat /\ Len(q) \in Nat \ {0} /\ q[1] = 0
      /\ w \in Seq(Nat) /\ Len(w) = Len(q) - 1
      /\ \A k \in 1..Len(w) : w[k] = q[k + 1]
  BY HeadTailProperties, EmptySeq, LenProperties
<1>2. /\ Len(u) = a + Len(q) /\ DOMAIN u = 1..Len(u)
      /\ \A k \in 1..Len(u) : u[k] = IF k <= a THEN p[k] ELSE q[k - a]
  BY ConcatProperties, LenProperties
<1>3. /\ Len(v) = a + Len(w) /\ DOMAIN v = 1..Len(v)
      /\ \A k \in 1..Len(v) : v[k] = IF k <= a THEN p[k] ELSE w[k - a]
  BY <1>1, ConcatProperties, LenProperties
<1> DEFINE from(k) == IF k <= a THEN k ELSE k + 1
<1> HIDE DEF u, v, w, a
<1>4. ASSUME NEW k \in 1..Len(v) PROVE from(k) \in 1..Len(u) /\ v[k] = u[from(k)] /\ k \in Int
  <2>1. k \in Int /\ Len(u) = Len(v) + 1 /\ k \in 1..Len(u) /\ k + 1 \in 1..Len(u)
    BY <1>1, <1>2, <1>3
  <2>2. CASE k <= a
    <3>1. u[k] = p[k] /\ v[k] = p[k]
      BY <1>2, <1>3, <2>1, <2>2
    <3> QED
      BY <2>1, <2>2, <3>1
  <2>3. CASE ~(k <= a)
    <3>1. ~(k + 1 <= a) /\ k - a \in 1..Len(w) /\ (k - a) + 1 = (k + 1) - a
      <4>1. a \in Nat /\ Len(w) \in Nat /\ Len(v) = a + Len(w)
        BY <1>1, <1>3
      <4> QED
        BY <2>1, <2>3, <4>1
    <3>2. v[k] = w[k - a]
      BY <1>3, <2>3
    <3>3. w[k - a] = q[(k - a) + 1]
      BY <1>1, <3>1
    <3>4. u[k + 1] = q[(k + 1) - a]
      BY <1>2, <2>1, <3>1
    <3> QED
      BY <2>1, <2>3, <3>1, <3>2, <3>3, <3>4
  <2> QED
    BY <2>2, <2>3
<1>5. ASSUME NEW m \in 1..Len(v), NEW n \in 1..Len(v), m < n, v[n] # 0 PROVE v[m] < v[n]
  <2>1. /\ from(m) \in 1..Len(u) /\ v[m] = u[from(m)] /\ m \in Int
        /\ from(n) \in 1..Len(u) /\ v[n] = u[from(n)] /\ n \in Int
    BY <1>4
  <2>2. from(m) < from(n)
    BY <1>1, <1>5, <2>1
  <2>3. \A x, y \in 1..Len(u) : x < y /\ u[y] # 0 => u[x] < u[y]
    BY DEF Growing, u
  <2> HIDE DEF from
  <2> QED
    BY <1>5, <2>1, <2>2, <2>3
<1>6. u[a + 1] = 0 /\ a + 1 \in 1..Len(u)
  <2>1. a + 1 \in 1..Len(u) /\ ~(a + 1 <= a) /\ a + 1 - a = 1
    BY <1>1, <1>2
  <2> QED
    BY <1>1, <1>2, <2>1
<1>7. ASSUME NEW k \in 1..Len(u) PROVE k = a + 1 \/ \E m \in 1..Len(v) : from(m) = k
  <2>1. CASE k <= a
    BY <1>1, <1>2, <1>3, <2>1
  <2>2. CASE k > a + 1
    <3>1. k - 1 \in 1..Len(v) /\ from(k - 1) = k
      BY <1>1, <1>2, <1>3, <2>2
    <3> QED
      BY <3>1
  <2> QED
    BY <1>1, <1>2, <2>1, <2>2
<1> HIDE DEF from
<1>8. ToSet(u) = ToSet(v) \cup {0}
  <2>1. \A k \in 1..Len(u) : u[k] = 0 \/ \E m \in 1..Len(v) : v[m] = u[k]
    BY <1>4, <1>6, <1>7
  <2>2. \A k \in 1..Len(v) : \E m \in 1..Len(u) : v[k] = u[m]
    BY <1>4
  <2>3. \E m \in 1..Len(u) : u[m] = 0
    BY <1>6
  <2>4. ToSet(u) = {u[k] : k \in 1..Len(u)} /\ ToSet(v) = {v[k] : k \in 1..Len(v)}
    BY <1>2, <1>3 DEF ToSet
  <2>5. ToSet(u) \subseteq ToSet(v) \cup {0}
    BY <2>1, <2>4
  <2>6. ToSet(v) \cup {0} \subseteq ToSet(u)
    BY <2>2, <2>3, <2>4
  <2> QED
    BY <2>5, <2>6
<1> QED
  BY <1>5, <1>8 DEF Growing, u, v, w

-----------------------------------------------------------------------------
(* inotify-watcher                                                         *)

ITypeOK ==
    /\ at \in {"main", "init", "test", "read", "dump", "closed", "failed"}
    /\ overflown \in BOOLEAN
    /\ buffer \in Seq(Nat) /\ printed \in Seq(Nat)
    /\ events \in Seq(Nat) /\ happened \in Seq(Nat)

\* What is printed, read or queued, in this order.
Pending == buffer \o events
Kept == printed \o Pending

\* The named events kept are some that happened, in their order, and all of them before
\* the queue has overflown.
InOrder ==
    /\ \A k \in 1..Len(happened) : happened[k] \in {0, k}
    /\ at # "dump" => buffer = <<>>
    /\ 0 \notin ToSet(printed)
    /\ Growing(Kept)
    /\ ToSet(Kept) \subseteq ToSet(happened) \cup {0}
    /\ ~overflown => ToSet(happened) \subseteq ToSet(Kept) \cup {0}

IInv == ITypeOK /\ InOrder

\* The concatenations of sequences of events are such.
LEMMA KeptType ==
    ASSUME NEW p \in Seq(Nat), NEW b \in Seq(Nat), NEW e \in Seq(Nat)
    PROVE  b \o e \in Seq(Nat) /\ p \o (b \o e) \in Seq(Nat)
<1>1. b \o e \in Seq(Nat)
  BY ConcatProperties
<1> QED
  BY <1>1, ConcatProperties

\* At first nothing has happened.
LEMMA IInit == Inotify!Init => IInv
<1> SUFFICES ASSUME Inotify!Init PROVE IInv
  OBVIOUS
<1>1. /\ at = "main" /\ buffer = <<>> /\ printed = <<>> /\ events = <<>> /\ happened = <<>>
      /\ overflown = FALSE
  BY DEF Inotify!Init
<1>2. ITypeOK
  BY <1>1, EmptySeq DEF ITypeOK
<1>3. Kept = <<>> /\ Len(Kept) = 0
  BY <1>1 DEF Kept, Pending
<1>4. ToSet(<<>>) = {}
  BY DEF ToSet
<1>5. InOrder
  BY <1>1, <1>3, <1>4 DEF InOrder, Growing
<1> QED
  BY <1>2, <1>5 DEF IInv

\* An element at the end of the queue comes at the end of what is kept.
LEMMA KeptAppend ==
    ASSUME NEW p \in Seq(Nat), NEW b \in Seq(Nat), NEW s \in Seq(Nat), NEW e \in Nat
    PROVE  p \o (b \o Append(s, e)) = Append(p \o (b \o s), e)
<1>1. <<e>> \in Seq(Nat) /\ b \o s \in Seq(Nat) /\ p \o (b \o s) \in Seq(Nat)
  BY KeptType
<1>2. Append(s, e) = s \o <<e>> /\ Append(p \o (b \o s), e) = (p \o (b \o s)) \o <<e>>
  BY <1>1, AppendIsConcat
<1>3. b \o (s \o <<e>>) = (b \o s) \o <<e>>
  BY <1>1, ConcatAssociative
<1>4. p \o ((b \o s) \o <<e>>) = (p \o (b \o s)) \o <<e>>
  BY <1>1, ConcatAssociative
<1> QED
  BY <1>2, <1>3, <1>4

\* Whatever is kept has happened, and its number is that of its turn.
LEMMA KeptOld ==
    ASSUME ITypeOK, InOrder
    PROVE  /\ Kept \in Seq(Nat) /\ Len(happened) \in Nat
           /\ \A k \in 1..Len(Kept) : Kept[k] < Len(happened) + 1
<1>1. Kept \in Seq(Nat)
  BY KeptType DEF ITypeOK, Kept, Pending
<1>2. Len(happened) \in Nat /\ DOMAIN happened = 1..Len(happened) /\ DOMAIN Kept = 1..Len(Kept)
  BY <1>1, LenProperties DEF ITypeOK
<1>3. ASSUME NEW k \in 1..Len(Kept) PROVE Kept[k] < Len(happened) + 1
  <2>1. Kept[k] \in ToSet(happened) \cup {0}
    BY <1>2 DEF InOrder, ToSet
  <2>2. CASE Kept[k] = 0
    BY <1>2, <2>2
  <2>3. CASE Kept[k] \in ToSet(happened)
    <3>1. PICK m \in 1..Len(happened) : Kept[k] = happened[m]
      BY <1>2, <2>3 DEF ToSet
    <3>2. happened[m] \in {0, m}
      BY DEF InOrder
    <3> QED
      BY <1>2, <3>1, <3>2
  <2> QED
    BY <2>1, <2>2, <2>3
<1> QED
  BY <1>1, <1>2, <1>3

\* The kernel's step: the event is queued, or a mark for it, or nothing.
LEMMA HappenKeeps == IInv /\ Inotify!Happen => IInv'
<1> SUFFICES ASSUME IInv, Inotify!Happen PROVE IInv'
  OBVIOUS
<1>1. ITypeOK /\ InOrder /\ UNCHANGED <<at, buffer, printed>>
  BY DEF IInv, Inotify!Happen
<1>2. PICK e \in {0, Len(happened) + 1} :
        /\ happened' = Append(happened, e)
        /\ events' = IF Len(events) < Queued THEN Append(events, e)
                     ELSE IF Len(events) = Queued THEN Append(events, 0) ELSE events
  BY DEF Inotify!Happen
<1>3. /\ Kept \in Seq(Nat) /\ Len(happened) \in Nat /\ e \in Nat
      /\ \A k \in 1..Len(Kept) : Kept[k] < Len(happened) + 1
  BY <1>1, KeptOld
<1>4. ~overflown' => ~overflown /\ events' = Append(events, e)
  <2>1. Len(events) \in Nat
    BY <1>1, LenProperties DEF ITypeOK
  <2>2. overflown' = (overflown \/ Len(events) >= Queued)
    BY DEF Inotify!Happen
  <2>3. ~overflown' => ~overflown /\ ~(Len(events) >= Queued)
    BY <2>2, Zenon
  <2>4. ~(Len(events) >= Queued) => Len(events) < Queued
    BY <2>1, WatcherAssumption
  <2> QED
    BY <1>2, <2>3, <2>4
<1>5. \/ events' = events /\ Kept' = Kept /\ overflown'
      \/ \E x \in {0, e} : /\ events' = Append(events, x) /\ Kept' = Append(Kept, x)
                           /\ x # e => overflown'
  <2>1. CASE events' = events
    <3>1. Kept' = Kept
      BY <1>1, <2>1 DEF Kept, Pending
    <3>2. events # Append(events, e)
      <4>1. Len(Append(events, e)) = Len(events) + 1 /\ Len(events) \in Nat
        BY <1>1, <1>3, AppendProperties DEF ITypeOK
      <4> QED
        BY <4>1
    <3> QED
      BY <1>4, <2>1, <3>1, <3>2
  <2>2. ASSUME NEW x \in {0, e}, events' = Append(events, x)
        PROVE  Kept' = Append(Kept, x)
    <3>1. printed \in Seq(Nat) /\ buffer \in Seq(Nat) /\ events \in Seq(Nat) /\ x \in Nat
      BY <1>1, <1>3, <2>2 DEF ITypeOK
    <3>2. Kept' = printed \o (buffer \o Append(events, x))
      BY <1>1, <2>2 DEF Kept, Pending
    <3> QED
      BY <3>1, <3>2, KeptAppend DEF Kept, Pending
  <2>3. CASE events' = Append(events, e)
    BY <2>2, <2>3
  <2>4. CASE events' = Append(events, 0) /\ events' # Append(events, e)
    BY <1>4, <2>2, <2>4
  <2> QED
    BY <1>2, <2>1, <2>3, <2>4
<1>6. /\ happened' \in Seq(Nat) /\ ToSet(happened') = ToSet(happened) \cup {e}
      /\ \A k \in 1..Len(happened') : happened'[k] \in {0, k}
  <2>1. /\ happened' \in Seq(Nat) /\ Len(happened') = Len(happened) + 1
        /\ happened'[Len(happened) + 1] = e
        /\ \A k \in 1..Len(happened) : happened'[k] = happened[k]
    BY <1>1, <1>2, <1>3, AppendProperties DEF ITypeOK
  <2>2. ASSUME NEW k \in 1..Len(happened') PROVE happened'[k] \in {0, k}
    <3>1. CASE k = Len(happened) + 1
      BY <1>2, <2>1, <3>1
    <3>2. CASE k # Len(happened) + 1
      <4>1. k \in 1..Len(happened)
        BY <1>3, <2>1, <3>2
      <4> QED
        BY <1>1, <2>1, <4>1 DEF InOrder
    <3> QED
      BY <3>1, <3>2
  <2>3. ToSet(happened') = ToSet(happened) \cup {e}
    BY <1>1, <1>2, <1>3, ToSetAppend DEF ITypeOK
  <2> QED
    BY <2>1, <2>2, <2>3
<1>6a. overflown' \in BOOLEAN
  BY <1>1, Zenon DEF ITypeOK, Inotify!Happen
<1>7. CASE events' = events /\ Kept' = Kept /\ overflown'
  <2>1. ITypeOK'
    BY <1>1, <1>6, <1>6a, <1>7 DEF ITypeOK
  <2>2. InOrder'
    BY <1>1, <1>6, <1>7 DEF InOrder
  <2> QED
    BY <2>1, <2>2 DEF IInv
<1>8. ASSUME NEW x \in {0, e}, events' = Append(events, x), Kept' = Append(Kept, x),
             x # e => overflown'
      PROVE  IInv'
  <2>1. x \in Nat /\ (x = 0 \/ x = Len(happened) + 1)
    BY <1>2, <1>3
  <2>2. ITypeOK'
    BY <1>1, <1>6, <1>6a, <1>8, <2>1, AppendProperties DEF ITypeOK
  <2>3. Growing(Append(Kept, x))
    BY <1>1, <1>3, <2>1, GrowingAppend DEF InOrder
  <2>4. ToSet(Append(Kept, x)) = ToSet(Kept) \cup {x}
    BY <1>3, <2>1, ToSetAppend
  <2>5. InOrder'
    BY <1>1, <1>4, <1>6, <1>8, <2>3, <2>4 DEF InOrder
  <2> QED
    BY <2>2, <2>5 DEF IInv
<1> QED
  BY <1>5, <1>7, <1>8

\* read moves the first events of the queue to the buffer.
LEMMA ReadKeeps == IInv /\ Inotify!Read => IInv'
<1> SUFFICES ASSUME IInv, Inotify!Read PROVE IInv'
  OBVIOUS
<1>1. /\ ITypeOK /\ InOrder /\ UNCHANGED <<printed, happened, overflown>>
      /\ buffer = <<>> /\ at' = "dump"
  BY DEF IInv, InOrder, Inotify!Read
<1>2. PICK n \in 1..Len(events) :
        buffer' = SubSeq(events, 1, n) /\ events' = SubSeq(events, n + 1, Len(events))
  BY DEF Inotify!Read
<1>3. events \in Seq(Nat) /\ Len(events) \in Nat /\ n \in Nat
      /\ \A k \in 1..Len(events) : events[k] \in Nat
  BY <1>1, LenProperties, ElementOfSeq DEF ITypeOK
<1>4. buffer' \in Seq(Nat) /\ events' \in Seq(Nat)
  <2>1. \A k \in 1..n : events[k] \in Nat
    BY <1>3
  <2>2. \A k \in (n + 1)..Len(events) : events[k] \in Nat
    BY <1>3
  <2> QED
    BY <1>2, <1>3, <2>1, <2>2, SubSeqProperties
<1>5. buffer' \o events' = events
  <2>1. SubSeq(events, 1, n) \o SubSeq(events, n + 1, Len(events)) = SubSeq(events, 1, Len(events))
    BY <1>3, ConcatAdjacentSubSeq
  <2> QED
    BY <1>2, <1>3, <2>1, SubSeqFull
<1>6. Kept' = Kept
  BY <1>1, <1>3, <1>5, ConcatEmptySeq DEF Kept, Pending
<1> QED
  BY <1>1, <1>4, <1>6 DEF IInv, ITypeOK, InOrder

\* A turn of the inner loop prints the first event of the buffer, or passes it over.
LEMMA DumpEventKeeps == IInv /\ Inotify!DumpEvent => IInv'
<1> SUFFICES ASSUME IInv, Inotify!DumpEvent PROVE IInv'
  OBVIOUS
<1>1. ITypeOK /\ InOrder /\ UNCHANGED <<events, happened, overflown>> /\ at = "dump"
  BY DEF IInv, Inotify!DumpEvent, Inotify!kernelState
<1>2. CASE buffer = <<>>
  <2>1. at' = "test" /\ UNCHANGED <<buffer, printed>>
    BY <1>2 DEF Inotify!DumpEvent
  <2> QED
    BY <1>1, <1>2, <2>1 DEF IInv, ITypeOK, InOrder, Kept, Pending
<1>3. CASE buffer # <<>>
  <2>1. /\ buffer' = Tail(buffer) /\ at' = at
        /\ printed' = IF Head(buffer) = 0 THEN printed ELSE Append(printed, Head(buffer))
    BY <1>3 DEF Inotify!DumpEvent, Inotify!Printing
  <2>2. /\ buffer \in Seq(Nat) /\ printed \in Seq(Nat) /\ events \in Seq(Nat)
        /\ Head(buffer) \in Nat /\ Tail(buffer) \in Seq(Nat)
    BY <1>1, <1>3, HeadTailProperties DEF ITypeOK
  <2>3. Pending \in Seq(Nat) /\ Pending # <<>>
        /\ Head(Pending) = Head(buffer) /\ Tail(Pending) = Pending'
    <3>1. Append(<<>>, Head(buffer)) \o Tail(buffer) = <<>> \o buffer
      BY <1>3, <2>2, EmptySeq, MoveHead
    <3>2. Pending \in Seq(Nat)
      BY <2>2, KeptType DEF Pending
    <3>3. /\ Len(Pending) = Len(buffer) + Len(events) /\ Len(buffer) \in Nat \ {0}
          /\ Len(events) \in Nat
          /\ \A k \in 1..Len(Pending) : Pending[k] = IF k <= Len(buffer) THEN buffer[k]
                                                     ELSE events[k - Len(buffer)]
      BY <1>3, <2>2, ConcatProperties, EmptySeq, LenProperties DEF Pending
    <3>4. Pending # <<>>
      BY <3>2, <3>3, EmptySeq
    <3>5. /\ Tail(Pending) \in Seq(Nat) /\ Len(Tail(Pending)) = Len(Pending) - 1
          /\ \A k \in 1..Len(Tail(Pending)) : Tail(Pending)[k] = Pending[k + 1]
      BY <3>2, <3>4, HeadTailProperties
    <3>6. /\ Len(Tail(buffer)) = Len(buffer) - 1
          /\ \A k \in 1..Len(Tail(buffer)) : Tail(buffer)[k] = buffer[k + 1]
      BY <1>3, <2>2, HeadTailProperties
    <3> DEFINE rest == Tail(buffer) \o events
    <3>7. /\ rest \in Seq(Nat) /\ Len(rest) = Len(Tail(buffer)) + Len(events)
          /\ \A k \in 1..Len(Tail(buffer)) + Len(events) :
               rest[k] = IF k <= Len(Tail(buffer)) THEN Tail(buffer)[k]
                         ELSE events[k - Len(Tail(buffer))]
      BY <2>2, ConcatProperties
    <3> HIDE DEF rest
    <3>8. ASSUME NEW k \in 1..Len(rest) PROVE rest[k] = Tail(Pending)[k]
      <4>1. /\ k \in 1..Len(Tail(Pending)) /\ k + 1 \in 1..Len(Pending)
            /\ (k + 1) - Len(buffer) = k - Len(Tail(buffer)) /\ k \in Nat
            /\ k \in 1..Len(Tail(buffer)) + Len(events)
        BY <3>3, <3>5, <3>6, <3>7
      <4>2. Tail(Pending)[k] = IF k + 1 <= Len(buffer) THEN buffer[k + 1]
                               ELSE events[(k + 1) - Len(buffer)]
        BY <3>3, <3>5, <4>1
      <4>3. CASE k + 1 <= Len(buffer)
        <5>1. k \in 1..Len(Tail(buffer)) /\ k <= Len(Tail(buffer))
          BY <3>3, <3>6, <3>7, <4>1, <4>3
        <5> QED
          BY <3>6, <3>7, <4>1, <4>2, <4>3, <5>1
      <4>4. CASE ~(k + 1 <= Len(buffer))
        <5>1. ~(k <= Len(Tail(buffer)))
          BY <3>3, <3>6, <4>1, <4>4
        <5> QED
          BY <3>7, <4>1, <4>2, <4>4, <5>1
      <4> QED
        BY <4>3, <4>4
    <3>9. Len(rest) = Len(Tail(Pending))
      BY <3>3, <3>5, <3>6, <3>7
    <3>10. rest = Tail(Pending)
      BY <3>5, <3>7, <3>8, <3>9, SeqEqual
    <3>11. Head(Pending) = Head(buffer)
      <4>1. 1 \in 1..Len(Pending) /\ 1 <= Len(buffer)
        BY <3>3
      <4>2. Pending[1] = buffer[1]
        BY <3>3, <4>1
      <4> QED
        BY <1>3, <3>4, <4>2
    <3> QED
      BY <1>1, <2>1, <3>2, <3>4, <3>10, <3>11 DEF rest, Pending
  <2>4. CASE Head(buffer) = 0
    <3>1. Kept' = printed \o Tail(Pending) /\ printed' = printed
      BY <2>1, <2>3, <2>4 DEF Kept
    <3>2. Growing(Kept') /\ ToSet(Kept) = ToSet(Kept') \cup {0}
      <4>1. Growing(printed \o Pending)
        BY <1>1 DEF InOrder, Kept
      <4> QED
        BY <2>2, <2>3, <2>4, <3>1, <4>1, DropZero DEF Kept
    <3> QED
      BY <1>1, <2>1, <2>2, <3>1, <3>2 DEF IInv, ITypeOK, InOrder
  <2>5. CASE Head(buffer) # 0
    <3>1. printed' = Append(printed, Head(buffer))
      BY <2>1, <2>5
    <3>2. Kept' = Kept
      BY <2>2, <2>3, <3>1, MoveHead DEF Kept
    <3>3. ToSet(printed') = ToSet(printed) \cup {Head(buffer)} /\ printed' \in Seq(Nat)
      BY <2>2, <3>1, ToSetAppend, AppendProperties
    <3> QED
      BY <1>1, <2>1, <2>2, <2>5, <3>2, <3>3 DEF IInv, ITypeOK, InOrder
  <2> QED
    BY <2>4, <2>5
<1> QED
  BY <1>2, <1>3

\* The other steps touch no event.
LEMMA OthersKeep ==
    IInv /\ (Inotify!Main \/ Inotify!AddWatch \/ Inotify!TestStopped \/ Inotify!Stop) => IInv'
<1> SUFFICES ASSUME IInv, Inotify!Main \/ Inotify!AddWatch \/ Inotify!TestStopped \/ Inotify!Stop
             PROVE  IInv'
  OBVIOUS
<1>1. UNCHANGED <<buffer, printed, events, happened, overflown>>
  BY DEF Inotify!Main, Inotify!AddWatch, Inotify!TestStopped, Inotify!Stop, Inotify!kernelState
<1>2. /\ at' \in {"main", "init", "test", "read", "dump", "closed", "failed"}
      /\ at' # "dump" => at # "dump"
  BY DEF Inotify!Main, Inotify!AddWatch, Inotify!TestStopped, Inotify!Stop, Inotify!Blocked,
         IInv, ITypeOK
<1> QED
  BY <1>1, <1>2 DEF IInv, ITypeOK, InOrder, Kept, Pending

\* Every step of inotify-watcher or of the kernel keeps the invariant.
LEMMA IStep == IInv /\ [Inotify!Next]_inotifyVars => IInv'
<1> SUFFICES ASSUME IInv, [Inotify!Next]_inotifyVars PROVE IInv'
  OBVIOUS
<1>1. CASE UNCHANGED inotifyVars
  BY <1>1 DEF IInv, ITypeOK, InOrder, Kept, Pending, inotifyVars
<1> QED
  BY <1>1, HappenKeeps, ReadKeeps, DumpEventKeeps, OthersKeep
     DEF Inotify!Next, Inotify!Program

\* The invariant of inotify-watcher holds throughout, whichever tool runs.
LEMMA IInvariance == WSpec => []IInv
<1>1. WInit => IInv
  BY IInit DEF WInit
<1>2. IInv /\ [WNext]_<<tool, vars, inotifyVars>> => IInv'
  BY IStep DEF WNext, UEventRuns
<1> QED
  BY <1>1, <1>2, PTL DEF WSpec

\* For a queue of any size, inotify-watcher (inotify-watcher.c:88) prints every named
\* event it has read once and in the order of the events, though a signal may come at
\* any time; none is missing unless the queue has overflown.
THEOREM ReadIsPrinted == WSpec => []PrintsWhatItRead
<1>1. IInv => PrintsWhatItRead
  <2> SUFFICES ASSUME IInv PROVE PrintsWhatItRead
    OBVIOUS
  <2>1. ITypeOK /\ InOrder
    BY DEF IInv
  <2>2. (printed \o buffer) \o events = Kept
    BY <2>1, ConcatAssociative DEF ITypeOK, Kept, Pending
  <2>3. DOMAIN Kept = 1..Len(Kept)
    BY <2>1, KeptOld, LenProperties
  <2> HIDE DEF Kept
  <2> QED
    BY <2>1, <2>2, <2>3 DEF InOrder, Growing, PrintsWhatItRead
<1> QED
  BY <1>1, IInvariance, PTL
=============================================================================

------------------------ MODULE MultiThreadQueueProof ------------------------
(***************************************************************************)
(* Proofs about MultiThreadQueue, for any number of consumers and nodes.   *)
(*                                                                         *)
(* Linked says pointer by pointer what Holds says of the ring.  The list   *)
(* operations are lemmas about Linked; the invariant then needs, besides   *)
(* the types, who can be where while main fills the queue.                 *)
(***************************************************************************)
EXTENDS MultiThreadQueue, SequenceTheorems, FiniteSetTheorems, TLAPS

Heaps == [next : [Nodes -> Nodes \cup {NULL}], prev : [Nodes -> Nodes \cup {NULL}],
          data : [Nodes -> Nat \cup {NULL}]]

\* Following next from l goes through s and back to l, prev the other way.
Linked(hp, l, s) ==
    /\ \A j, k \in 1..Len(s) : s[j] = s[k] => j = k
    /\ hp.next[l] = IF s = <<>> THEN l ELSE s[1]
    /\ hp.prev[l] = IF s = <<>> THEN l ELSE s[Len(s)]
    /\ \A k \in 1..Len(s) :
         /\ hp.next[s[k]] = IF k = Len(s) THEN l ELSE s[k + 1]
         /\ hp.prev[s[k]] = IF k = 1 THEN l ELSE s[k - 1]

-----------------------------------------------------------------------------
(* The list                                                                *)

\* A heap holds the ring of s if and only if its pointers are those of s.
LEMMA HoldsIsLinked ==
    ASSUME NEW hp, NEW s \in Seq(Addresses)
    PROVE  Holds(hp, QHead, s) <=> Linked(hp, QHead, s)
<1> DEFINE ring == <<QHead>> \o s
           n == Len(ring)
           succ(k) == IF k = n THEN 1 ELSE k + 1
<1>1. n = Len(s) + 1 /\ n \in Nat \ {0}
  OBVIOUS
<1>2. ring[1] = QHead
  OBVIOUS
<1>3. \A k \in 1..Len(s) : ring[k + 1] = s[k] /\ s[k] \in Addresses
  OBVIOUS
<1>4. \A k \in 2..n : ring[k] = s[k - 1] /\ k - 1 \in 1..Len(s)
  BY <1>1, <1>3
<1>5. s = <<>> <=> Len(s) = 0
  OBVIOUS
<1>6. QHead \notin Addresses
  BY HeapAssumption
<1> HIDE DEF ring
<1>7. ASSUME Holds(hp, QHead, s) PROVE Linked(hp, QHead, s)
  <2>1. /\ \A j, k \in 1..n : ring[j] = ring[k] => j = k
        /\ \A k \in 1..n : /\ hp.next[ring[k]] = ring[succ(k)]
                           /\ hp.prev[ring[succ(k)]] = ring[k]
    BY <1>7 DEF Holds, ring
  <2>2. \A j, k \in 1..Len(s) : s[j] = s[k] => j = k
    BY <1>1, <1>3, <2>1
  <2>3. hp.next[QHead] = IF s = <<>> THEN QHead ELSE s[1]
    BY <1>1, <1>2, <1>3, <1>5, <2>1
  <2>4. hp.prev[QHead] = IF s = <<>> THEN QHead ELSE s[Len(s)]
    BY <1>1, <1>2, <1>3, <1>5, <2>1
  <2>5. ASSUME NEW k \in 1..Len(s)
        PROVE  /\ hp.next[s[k]] = IF k = Len(s) THEN QHead ELSE s[k + 1]
               /\ hp.prev[s[k]] = IF k = 1 THEN QHead ELSE s[k - 1]
    <3>1. hp.next[ring[k + 1]] = ring[succ(k + 1)]
      BY <1>1, <2>1
    <3>2. hp.prev[ring[k + 1]] = ring[k]
      BY <1>1, <2>1
    <3>3. ring[k] = IF k = 1 THEN QHead ELSE s[k - 1]
      BY <1>1, <1>2, <1>4
    <3>4. ring[succ(k + 1)] = IF k = Len(s) THEN QHead ELSE s[k + 1]
      BY <1>1, <1>2, <1>3
    <3> QED
      BY <1>3, <3>1, <3>2, <3>3, <3>4
  <2> QED
    BY <2>2, <2>3, <2>4, <2>5 DEF Linked
<1>8. ASSUME Linked(hp, QHead, s) PROVE Holds(hp, QHead, s)
  <2>1. \A j, k \in 1..n : ring[j] = ring[k] => j = k
    <3> SUFFICES ASSUME NEW j \in 1..n, NEW k \in 1..n, ring[j] = ring[k] PROVE j = k
      OBVIOUS
    <3>1. CASE j = 1 \/ k = 1
      BY <1>1, <1>2, <1>3, <1>4, <1>6, <3>1
    <3>2. CASE j # 1 /\ k # 1
      BY <1>1, <1>4, <1>8, <3>2 DEF Linked
    <3> QED
      BY <3>1, <3>2
  <2>2. ASSUME NEW k \in 1..n
        PROVE  hp.next[ring[k]] = ring[succ(k)] /\ hp.prev[ring[succ(k)]] = ring[k]
    <3>1. CASE k = 1
      <4>1. CASE s = <<>>
        BY <1>1, <1>2, <1>5, <1>8, <3>1, <4>1 DEF Linked
      <4>2. CASE s # <<>>
        <5>1. 1 \in 1..Len(s) /\ succ(k) = 2 /\ ring[2] = s[1]
          BY <1>1, <1>3, <1>5, <3>1, <4>2
        <5> QED
          BY <1>2, <1>8, <3>1, <4>2, <5>1 DEF Linked
      <4> QED
        BY <4>1, <4>2
    <3>2. CASE k = n /\ k # 1
      BY <1>1, <1>2, <1>4, <1>5, <1>8, <3>2 DEF Linked
    <3>3. CASE k # n /\ k # 1
      <4>1. k - 1 \in 1..Len(s) /\ k \in 1..Len(s) /\ k - 1 # Len(s)
        BY <1>1, <3>3
      <4>2. hp.next[s[k - 1]] = s[k]
        BY <1>8, <4>1 DEF Linked
      <4>3. hp.prev[s[k]] = s[k - 1]
        BY <1>8, <3>3, <4>1 DEF Linked
      <4>4. ring[k] = s[k - 1] /\ ring[succ(k)] = s[k]
        BY <1>1, <1>3, <1>4, <3>3, <4>1
      <4> QED
        BY <4>2, <4>3, <4>4
    <3> QED
      BY <3>1, <3>2, <3>3
  <2> QED
    BY <2>1, <2>2 DEF Holds, ring
<1> QED
  BY <1>7, <1>8

\* LIST_IS_EMPTY says whether the ring has no node.
LEMMA EmptyIsEmpty ==
    ASSUME NEW hp, NEW s \in Seq(Addresses), Linked(hp, QHead, s)
    PROVE  /\ ListIsEmpty(hp, QHead) <=> s = <<>>
           /\ s # <<>> => Len(s) \in Nat \ {0} /\ hp.next[QHead] = s[1] /\ s[1] \in Addresses
<1>1. QHead \notin Addresses
  BY HeapAssumption
<1>2. s # <<>> => Len(s) \in Nat \ {0} /\ s[1] \in Addresses
  OBVIOUS
<1> QED
  BY <1>1, <1>2 DEF Linked, ListIsEmpty

\* list_init makes an empty ring.
LEMMA InitLinks ==
    ASSUME NEW hp \in Heaps
    PROVE  ListInit(hp, QHead) \in Heaps /\ Linked(ListInit(hp, QHead), QHead, <<>>)
<1>1. QHead \in Nodes
  BY DEF Nodes
<1>2. ListInit(hp, QHead) \in Heaps
  BY <1>1 DEF ListInit, Heaps
<1>3. ListInit(hp, QHead).next[QHead] = QHead /\ ListInit(hp, QHead).prev[QHead] = QHead
  BY <1>1 DEF ListInit, Heaps
<1> QED
  BY <1>2, <1>3 DEF Linked

\* What list_add of a new node writes.
LEMMA AddWrites ==
    ASSUME NEW hp \in Heaps, NEW n \in Addresses, NEW v \in Nat, NEW t \in Nodes,
           hp.prev[QHead] = t, t # n
    PROVE  LET hq == ListAdd(ListNew(hp, n, v), QHead, n)
           IN  /\ hq \in Heaps
               /\ \A m \in Nodes : hq.next[m] = IF m = n THEN QHead ELSE IF m = t THEN n ELSE hp.next[m]
               /\ \A m \in Nodes : hq.prev[m] = IF m = QHead THEN n ELSE IF m = n THEN t ELSE hp.prev[m]
               /\ \A m \in Nodes : hq.data[m] = IF m = n THEN v ELSE hp.data[m]
<1>1. n \in Nodes /\ QHead \in Nodes /\ n # QHead
  BY HeapAssumption DEF Nodes
<1> DEFINE hn == ListNew(hp, n, v)
<1>2. /\ hn \in Heaps
      /\ hn.next = [hp.next EXCEPT ![n] = n] /\ hn.prev = [hp.prev EXCEPT ![n] = n]
      /\ \A m \in Nodes : hn.data[m] = IF m = n THEN v ELSE hp.data[m]
  BY <1>1 DEF ListNew, ListInit, Heaps
<1>3. hn.prev[QHead] = t
  BY <1>1, <1>2 DEF Heaps
<1> HIDE DEF hn
<1> DEFINE hq == ListAdd(hn, QHead, n)
<1>4. /\ hq.next = [[hn.next EXCEPT ![t] = n] EXCEPT ![n] = QHead]
      /\ hq.prev = [[hn.prev EXCEPT ![n] = t] EXCEPT ![QHead] = n]
      /\ hq.data = hn.data
      /\ hq \in Heaps
  BY <1>1, <1>2, <1>3 DEF ListAdd, Heaps
<1>5. \A m \in Nodes : hq.next[m] = IF m = n THEN QHead ELSE IF m = t THEN n ELSE hp.next[m]
  BY <1>1, <1>2, <1>4 DEF Heaps
<1>6. \A m \in Nodes : hq.prev[m] = IF m = QHead THEN n ELSE IF m = n THEN t ELSE hp.prev[m]
  BY <1>1, <1>2, <1>4 DEF Heaps
<1> QED
  BY <1>2, <1>4, <1>5, <1>6 DEF hn

\* list_add puts a new node at the end of the ring.
LEMMA AddLinks ==
    ASSUME NEW hp \in Heaps, NEW s \in Seq(Addresses), Linked(hp, QHead, s),
           NEW n \in Addresses, \A k \in 1..Len(s) : s[k] # n, NEW v \in Nat
    PROVE  LET hq == ListAdd(ListNew(hp, n, v), QHead, n)
           IN  /\ hq \in Heaps
               /\ Linked(hq, QHead, Append(s, n))
               /\ \A m \in Nodes : hq.data[m] = IF m = n THEN v ELSE hp.data[m]
<1> DEFINE t == hp.prev[QHead]
           hq == ListAdd(ListNew(hp, n, v), QHead, n)
           u == Append(s, n)
<1>1. /\ Len(u) = Len(s) + 1 /\ u # <<>> /\ u[Len(u)] = n
      /\ \A k \in 1..Len(s) : u[k] = s[k] /\ s[k] \in Addresses
      /\ Len(s) \in Nat /\ (s = <<>> <=> Len(s) = 0)
  OBVIOUS
<1>2. QHead \notin Addresses /\ QHead # n /\ n \in Nodes /\ QHead \in Nodes
  BY HeapAssumption DEF Nodes
<1>3. t = IF s = <<>> THEN QHead ELSE s[Len(s)]
  BY DEF Linked
<1>4. t \in Nodes /\ t # n
  BY <1>1, <1>2, <1>3 DEF Nodes
<1>5. /\ hq \in Heaps
      /\ \A m \in Nodes : hq.next[m] = IF m = n THEN QHead ELSE IF m = t THEN n ELSE hp.next[m]
      /\ \A m \in Nodes : hq.prev[m] = IF m = QHead THEN n ELSE IF m = n THEN t ELSE hp.prev[m]
      /\ \A m \in Nodes : hq.data[m] = IF m = n THEN v ELSE hp.data[m]
  BY <1>4, AddWrites
<1> HIDE DEF hq, t, u
<1>6. \A j, k \in 1..Len(u) : u[j] = u[k] => j = k
  BY <1>1 DEF Linked
<1>7. hq.next[QHead] = u[1] /\ hq.prev[QHead] = u[Len(u)]
  <2>1. CASE s = <<>>
    BY <1>1, <1>2, <1>3, <1>5, <2>1
  <2>2. CASE s # <<>>
    <3>1. 1 \in 1..Len(s) /\ Len(s) \in 1..Len(s) /\ t = s[Len(s)]
      BY <1>1, <1>3, <2>2
    <3>2. t # QHead
      BY <1>1, <1>2, <3>1
    <3> QED
      BY <1>1, <1>2, <1>5, <2>2, <3>1, <3>2 DEF Linked
  <2> QED
    BY <2>1, <2>2
<1>8. ASSUME NEW k \in 1..Len(u)
      PROVE  /\ hq.next[u[k]] = IF k = Len(u) THEN QHead ELSE u[k + 1]
             /\ hq.prev[u[k]] = IF k = 1 THEN QHead ELSE u[k - 1]
  <2>1. CASE k = Len(u)
    <3>1. hq.next[u[k]] = QHead /\ hq.prev[u[k]] = t
      BY <1>1, <1>2, <1>5, <2>1
    <3>2. t = IF k = 1 THEN QHead ELSE u[k - 1]
      BY <1>1, <1>3, <2>1
    <3> QED
      BY <2>1, <3>1, <3>2
  <2>2. CASE k # Len(u)
    <3>1. k \in 1..Len(s) /\ u[k] = s[k] /\ s[k] \in Nodes /\ s[k] # n /\ s[k] # QHead
      BY <1>1, <1>2, <2>2 DEF Nodes
    <3>2. hq.prev[u[k]] = hp.prev[s[k]]
      BY <1>5, <3>1
    <3>3. hq.next[u[k]] = IF s[k] = t THEN n ELSE hp.next[s[k]]
      BY <1>5, <3>1
    <3>4. s[k] = t <=> k = Len(s)
      BY <1>1, <1>3, <3>1 DEF Linked
    <3>5. u[k + 1] = IF k = Len(s) THEN n ELSE s[k + 1]
      BY <1>1, <3>1
    <3>6. k # 1 => u[k - 1] = s[k - 1]
      BY <1>1, <3>1
    <3> QED
      BY <2>2, <3>1, <3>2, <3>3, <3>4, <3>5, <3>6 DEF Linked
  <2> QED
    BY <2>1, <2>2
<1>9. Linked(hq, QHead, u)
  BY <1>1, <1>6, <1>7, <1>8 DEF Linked
<1> QED
  BY <1>5, <1>9 DEF hq, u

\* What list_remove and list_free of the first node write.
LEMMA RemoveWrites ==
    ASSUME NEW hp \in Heaps, NEW n \in Addresses, NEW r \in Nodes,
           hp.prev[n] = QHead, hp.next[n] = r, r # n, ~ListIsEmpty(hp, QHead)
    PROVE  LET hq == ListFree(ListRemove(hp, QHead, n), n)
           IN  /\ hq \in Heaps
               /\ \A m \in Nodes : hq.next[m] = IF m = n THEN NULL ELSE IF m = QHead THEN r ELSE hp.next[m]
               /\ \A m \in Nodes : hq.prev[m] = IF m = n THEN NULL ELSE IF m = r THEN QHead ELSE hp.prev[m]
               /\ \A m \in Nodes : hq.data[m] = IF m = n THEN NULL ELSE hp.data[m]
<1>1. n \in Nodes /\ QHead \in Nodes /\ n # QHead
  BY HeapAssumption DEF Nodes
<1> DEFINE hr == ListRemove(hp, QHead, n)
<1>2. /\ hr.next = [[hp.next EXCEPT ![QHead] = r] EXCEPT ![n] = n]
      /\ hr.prev = [[hp.prev EXCEPT ![r] = QHead] EXCEPT ![n] = n]
      /\ hr.data = hp.data
      /\ hr \in Heaps
  BY <1>1 DEF ListRemove, Heaps
<1> HIDE DEF hr
<1> DEFINE hq == ListFree(hr, n)
<1>3. /\ hq.next = [hr.next EXCEPT ![n] = NULL] /\ hq.prev = [hr.prev EXCEPT ![n] = NULL]
      /\ hq.data = [hr.data EXCEPT ![n] = NULL] /\ hq \in Heaps
  BY <1>1, <1>2 DEF ListFree, Heaps
<1>4. /\ \A m \in Nodes : hq.next[m] = IF m = n THEN NULL ELSE IF m = QHead THEN r ELSE hp.next[m]
      /\ \A m \in Nodes : hq.data[m] = IF m = n THEN NULL ELSE hp.data[m]
  BY <1>1, <1>2, <1>3 DEF Heaps
<1>5. \A m \in Nodes : hq.prev[m] = IF m = n THEN NULL ELSE IF m = r THEN QHead ELSE hp.prev[m]
  BY <1>1, <1>2, <1>3 DEF Heaps
<1> QED
  BY <1>3, <1>4, <1>5 DEF hr

\* list_remove of the first node leaves the ring of the others.
LEMMA RemoveLinks ==
    ASSUME NEW hp \in Heaps, NEW s \in Seq(Addresses), Linked(hp, QHead, s), s # <<>>
    PROVE  LET hq == ListFree(ListRemove(hp, QHead, s[1]), s[1])
           IN  /\ hq \in Heaps
               /\ Linked(hq, QHead, Tail(s))
               /\ \A m \in Nodes : hq.data[m] = IF m = s[1] THEN NULL ELSE hp.data[m]
<1> DEFINE n == s[1]
           r == IF Len(s) = 1 THEN QHead ELSE s[2]
           hq == ListFree(ListRemove(hp, QHead, n), n)
           u == Tail(s)
<1>1. /\ Len(s) \in Nat \ {0} /\ Len(u) = Len(s) - 1 /\ (u = <<>> <=> Len(s) = 1)
      /\ \A k \in 1..Len(s) : s[k] \in Addresses
      /\ \A k \in 1..Len(u) : u[k] = s[k + 1]
  <2>1. u \in Seq(Addresses) /\ Len(u) = Len(s) - 1 /\ \A k \in 1..Len(u) : u[k] = s[k + 1]
    BY HeadTailProperties
  <2>2. Len(s) \in Nat /\ Len(s) # 0
    BY EmptySeq, LenProperties
  <2>3. u = <<>> <=> Len(u) = 0
    BY <2>1, EmptySeq
  <2>4. \A k \in 1..Len(s) : s[k] \in Addresses
    BY ElementOfSeq
  <2> HIDE DEF u
  <2> QED
    BY <2>1, <2>2, <2>3, <2>4
<1>2. QHead \notin Addresses /\ QHead \in Nodes /\ Addresses \subseteq Nodes
  BY HeapAssumption DEF Nodes
<1>3. n \in Addresses /\ r \in Nodes /\ r # n
  <2>1. 1 \in 1..Len(s) /\ (Len(s) # 1 => 2 \in 1..Len(s))
    BY <1>1
  <2>2. Len(s) # 1 => s[2] # s[1]
    BY <2>1 DEF Linked
  <2> QED
    BY <1>1, <1>2, <2>1, <2>2
<1>4. hp.prev[n] = QHead /\ hp.next[n] = r /\ ~ListIsEmpty(hp, QHead)
  <2>1. 1 \in 1..Len(s)
    BY <1>1
  <2>2. \A k \in 1..Len(s) :
          /\ hp.next[s[k]] = IF k = Len(s) THEN QHead ELSE s[k + 1]
          /\ hp.prev[s[k]] = IF k = 1 THEN QHead ELSE s[k - 1]
    BY DEF Linked
  <2>3. hp.prev[s[1]] = QHead
    BY <2>1, <2>2
  <2>4. hp.next[s[1]] = IF 1 = Len(s) THEN QHead ELSE s[1 + 1]
    BY <2>1, <2>2
  <2>5. ~ListIsEmpty(hp, QHead)
    BY EmptyIsEmpty
  <2> QED
    BY <2>3, <2>4, <2>5
<1>5. /\ hq \in Heaps
      /\ \A m \in Nodes : hq.next[m] = IF m = n THEN NULL ELSE IF m = QHead THEN r ELSE hp.next[m]
      /\ \A m \in Nodes : hq.prev[m] = IF m = n THEN NULL ELSE IF m = r THEN QHead ELSE hp.prev[m]
      /\ \A m \in Nodes : hq.data[m] = IF m = n THEN NULL ELSE hp.data[m]
  <2> HIDE DEF n, r
  <2> QED
    BY <1>3, <1>4, RemoveWrites
<1> HIDE DEF hq, u
<1>6. \A j, k \in 1..Len(u) : u[j] = u[k] => j = k
  BY <1>1 DEF Linked
<1>7. hq.next[QHead] = IF u = <<>> THEN QHead ELSE u[1]
  BY <1>1, <1>2, <1>3, <1>5
<1>8. hq.prev[QHead] = IF u = <<>> THEN QHead ELSE u[Len(u)]
  <2>1. CASE Len(s) = 1
    BY <1>1, <1>2, <1>3, <1>5, <2>1
  <2>2. CASE Len(s) # 1
    <3>1. r # QHead
      BY <1>1, <1>2, <2>2
    <3>2. hq.prev[QHead] = s[Len(s)]
      BY <1>1, <1>2, <1>3, <1>5, <3>1 DEF Linked
    <3> QED
      BY <1>1, <2>2, <3>2
  <2> QED
    BY <2>1, <2>2
<1>9. ASSUME NEW k \in 1..Len(u)
      PROVE  /\ hq.next[u[k]] = IF k = Len(u) THEN QHead ELSE u[k + 1]
             /\ hq.prev[u[k]] = IF k = 1 THEN QHead ELSE u[k - 1]
  <2>1. k + 1 \in 1..Len(s) /\ k + 1 # 1 /\ u[k] = s[k + 1] /\ 2 \in 1..Len(s) /\ 1 \in 1..Len(s)
    BY <1>1
  <2>2. u[k] \in Nodes /\ u[k] # n /\ u[k] # QHead
    BY <1>1, <1>2, <2>1 DEF Linked
  <2>3. hq.next[u[k]] = IF k + 1 = Len(s) THEN QHead ELSE s[k + 2]
    BY <1>5, <2>1, <2>2 DEF Linked
  <2>4. hq.prev[u[k]] = IF u[k] = r THEN QHead ELSE s[k]
    BY <1>5, <2>1, <2>2 DEF Linked
  <2>5. u[k] = r <=> k = 1
    BY <1>1, <2>1 DEF Linked
  <2>6. k # Len(u) => u[k + 1] = s[k + 2]
    BY <1>1
  <2>7. k # 1 => u[k - 1] = s[k]
    BY <1>1
  <2>8. k = Len(u) <=> k + 1 = Len(s)
    BY <1>1
  <2> QED
    BY <2>3, <2>4, <2>5, <2>6, <2>7, <2>8
<1>10. Linked(hq, QHead, u)
  BY <1>1, <1>6, <1>7, <1>8, <1>9 DEF Linked
<1> QED
  BY <1>5, <1>10 DEF hq, u

\* What is left without the first of distinct elements is the tail.
LEMMA WithoutFirst ==
    ASSUME NEW s \in Seq(Addresses), s # <<>>, \A j, k \in 1..Len(s) : s[j] = s[k] => j = k
    PROVE  Without(s, s[1]) = Tail(s)
<1>1. (CHOOSE k \in DOMAIN s : s[k] = s[1]) = 1
  BY ElementOfSeq
<1>2. SubSeq(s, 1, 0) = <<>> /\ SubSeq(s, 2, Len(s)) = Tail(s)
  BY SubSeqEmpty, TailIsSubSeq
<1>3. RemoveAt(s, 1) = <<>> \o Tail(s)
  BY <1>2 DEF RemoveAt
<1>4. Tail(s) \in Seq(Addresses)
  BY HeadTailProperties
<1> QED
  BY <1>1, <1>3, <1>4, ConcatEmptySeq DEF Without

-----------------------------------------------------------------------------
(* The invariant                                                           *)

\* Where a thread can be.
Places == {"unborn", "start", "gate", "asleep", "drain", "poll", "open",
           "init", "fill", "clean", "done"}

TypeOK ==
    /\ pc \in [Threads -> Places]
    /\ pc[Main] \in {"init", "fill", "clean", "done"}
    /\ pc[Provider] \in {"poll", "open", "done"}
    /\ \A c \in Consumers : pc[c] \in {"unborn", "start", "gate", "asleep", "drain", "done"}
    /\ h \in Heaps
    /\ mem \in SUBSET Addresses
    /\ i \in 0..NodeNums
    /\ qlock \in {"none", "usable", "destroyed"}
    /\ chain \in Seq(Addresses)
    /\ removed \in Seq(Nat \cup {NULL})

\* Consumers run only when the queue is filled, and main goes on when they are over.
Control ==
    /\ qlock = "none" <=> pc[Main] = "init"
    /\ qlock = "destroyed" <=> pc[Main] = "done"
    /\ \A c \in Consumers : pc[c] # "unborn" => i = NodeNums /\ pc[Main] # "init"
    /\ pc[Main] \in {"clean", "done"} => i = NodeNums /\ \A c \in Consumers : pc[c] = "done"

InRing == {chain[k] : k \in 1..Len(chain)}

Ring ==
    /\ qlock = "none" => chain = <<>> /\ mem = {}
    /\ qlock # "none" => Linked(h, QHead, chain) /\ mem = InRing

Drained ==
    /\ Finished # {} => chain = <<>>
    /\ qlock = "destroyed" => chain = <<>>

Inv == TypeOK /\ Control /\ Ring /\ Drained

\* The three threads of main.c are different.
LEMMA ThreadsDiffer ==
    /\ Main \in Threads /\ Provider \in Threads /\ Consumers \subseteq Threads
    /\ Main # Provider /\ Main \notin Consumers /\ Provider \notin Consumers
BY ThreadsAssumption DEF Threads

\* What q_dequeue does on a queue that is not empty.
LEMMA DequeueEffect ==
    ASSUME TypeOK, Ring, qlock # "none", QDequeue
    PROVE  /\ chain # <<>> /\ chain' = Tail(chain) /\ chain' \in Seq(Addresses)
           /\ chain[1] \in Addresses
           /\ removed' = Append(removed, h.data[chain[1]])
           /\ removed' \in Seq(Nat \cup {NULL})
           /\ h' \in Heaps
           /\ \A m \in Nodes : m # chain[1] => h'.data[m] = h.data[m]
           /\ Ring'
           /\ qlock' = qlock
           /\ mem' \in SUBSET Addresses
<1> DEFINE n == h.next[QHead]
<1>1. Linked(h, QHead, chain) /\ mem = InRing /\ chain \in Seq(Addresses) /\ h \in Heaps
  BY DEF Ring, TypeOK
<1>2. chain # <<>> /\ n = chain[1] /\ n \in Addresses /\ Len(chain) \in Nat \ {0}
  BY <1>1, EmptyIsEmpty DEF QDequeue, QIsEmpty
<1>3. /\ h' = ListFree(ListRemove(h, QHead, chain[1]), chain[1])
      /\ chain' = Without(chain, chain[1])
      /\ mem' = mem \ {chain[1]}
      /\ removed' = Append(removed, h.data[chain[1]])
      /\ qlock' = qlock
  BY <1>2 DEF QDequeue
<1>4. /\ h' \in Heaps /\ Linked(h', QHead, Tail(chain))
      /\ \A m \in Nodes : h'.data[m] = IF m = chain[1] THEN NULL ELSE h.data[m]
  BY <1>1, <1>2, <1>3, RemoveLinks
<1>5. \A j, k \in 1..Len(chain) : chain[j] = chain[k] => j = k
  BY <1>1 DEF Linked
<1>6. chain' = Tail(chain)
  BY <1>1, <1>2, <1>3, <1>5, WithoutFirst
<1>7. /\ chain' \in Seq(Addresses) /\ Len(chain') = Len(chain) - 1
      /\ \A k \in 1..Len(chain') : chain'[k] = chain[k + 1]
  BY <1>1, <1>2, <1>6, HeadTailProperties
<1>8. mem' = InRing'
  <2> DEFINE w == chain'
  <2>1. InRing' = {w[k] : k \in 1..Len(w)}
    BY DEF InRing
  <2>2. /\ Len(w) = Len(chain) - 1
        /\ \A k \in 1..Len(w) : w[k] = chain[k + 1] /\ k + 1 \in 1..Len(chain) /\ k + 1 # 1
    BY <1>2, <1>7
  <2>3. \A k \in 1..Len(chain) : k # 1 => k - 1 \in 1..Len(w) /\ w[k - 1] = chain[k]
    BY <1>2, <1>7
  <2>4. \A k \in 1..Len(chain) : chain[k] = chain[1] <=> k = 1
    BY <1>2, <1>5
  <2> HIDE DEF w
  <2>5. ASSUME NEW a \in InRing \ {chain[1]} PROVE a \in {w[k] : k \in 1..Len(w)}
    <3>1. PICK k \in 1..Len(chain) : a = chain[k]
      BY DEF InRing
    <3> QED
      BY <2>3, <3>1
  <2>6. ASSUME NEW k \in 1..Len(w) PROVE w[k] \in InRing \ {chain[1]}
    BY <2>2, <2>4 DEF InRing
  <2> QED
    BY <1>1, <1>3, <2>1, <2>5, <2>6
<1>9. h.data[chain[1]] \in Nat \cup {NULL}
  BY <1>1, <1>2 DEF Heaps, Nodes
<1>10. removed' \in Seq(Nat \cup {NULL})
  BY <1>3, <1>9, AppendProperties DEF TypeOK
<1>11. Ring'
  BY <1>3, <1>4, <1>6, <1>8 DEF Ring
<1> QED
  BY <1>1, <1>2, <1>3, <1>4, <1>6, <1>7, <1>10, <1>11 DEF TypeOK

\* What q_enqueue does when malloc succeeds.
LEMMA EnqueueEffect ==
    ASSUME TypeOK, Ring, qlock # "none", NEW v \in Nat, QEnqueue(v)
    PROVE  \E n \in Addresses :
             /\ chain' = Append(chain, n) /\ chain' \in Seq(Addresses)
             /\ removed' = removed
             /\ h' \in Heaps
             /\ h'.data[n] = v
             /\ \A k \in 1..Len(chain) : h'.data[chain[k]] = h.data[chain[k]]
             /\ Ring'
             /\ qlock' = qlock
             /\ mem' \in SUBSET Addresses
<1>1. Linked(h, QHead, chain) /\ mem = InRing /\ chain \in Seq(Addresses) /\ h \in Heaps
  BY DEF Ring, TypeOK
<1>2. PICK n \in Addresses \ mem :
        /\ h' = ListAdd(ListNew(h, n, v), QHead, n)
        /\ mem' = mem \cup {n}
        /\ chain' = Append(chain, n)
        /\ UNCHANGED <<qlock, removed>>
  BY DEF QEnqueue
<1>3. \A k \in 1..Len(chain) : chain[k] # n
  BY <1>1, <1>2 DEF InRing
<1>4. /\ h' \in Heaps /\ Linked(h', QHead, Append(chain, n))
      /\ \A m \in Nodes : h'.data[m] = IF m = n THEN v ELSE h.data[m]
  BY <1>1, <1>2, <1>3, AddLinks
<1>5. /\ chain' \in Seq(Addresses) /\ Len(chain') = Len(chain) + 1 /\ chain'[Len(chain) + 1] = n
      /\ \A k \in 1..Len(chain) : chain'[k] = chain[k] /\ chain[k] \in Addresses
      /\ Len(chain) \in Nat
  BY <1>1, <1>2, AppendProperties
<1>6. mem' = InRing'
  BY <1>1, <1>2, <1>5 DEF InRing
<1>7. Ring'
  BY <1>2, <1>4, <1>6 DEF Ring
<1>8. n \in Nodes /\ \A k \in 1..Len(chain) : chain[k] \in Nodes
  BY <1>5 DEF Nodes
<1> QED
  BY <1>1, <1>2, <1>3, <1>4, <1>5, <1>7, <1>8 DEF TypeOK

-----------------------------------------------------------------------------
(* Every step keeps the invariant                                          *)

\* pc after thread t has gone on.
LEMMA GoEffect ==
    ASSUME TypeOK, NEW t \in Threads, NEW from \in Places, NEW to \in Places, Go(t, from, to)
    PROVE  /\ pc' \in [Threads -> Places]
           /\ pc[t] = from /\ pc'[t] = to
           /\ \A u \in Threads : u # t => pc'[u] = pc[u]
BY DEF TypeOK, Go

\* The parts of the invariant that read the queue hold on while it is left alone.
LEMMA QueueAlone ==
    ASSUME TypeOK, Ring, UNCHANGED queue
    PROVE  /\ Ring'
           /\ h' \in Heaps /\ mem' \in SUBSET Addresses
           /\ qlock' \in {"none", "usable", "destroyed"} /\ qlock' = qlock
           /\ chain' \in Seq(Addresses) /\ chain' = chain
           /\ removed' \in Seq(Nat \cup {NULL}) /\ removed' = removed
BY DEF TypeOK, Ring, InRing, queue

\* The initial states satisfy the invariant.
LEMMA InitInv == Init => Inv
<1> SUFFICES ASSUME Init PROVE Inv
  OBVIOUS
<1> USE ThreadsDiffer, HeapAssumption
<1>1. pc \in [Threads -> Places] /\ pc[Main] = "init" /\ pc[Provider] = "poll"
  BY DEF Init, Places
<1>2. \A c \in Consumers : pc[c] = "unborn"
  BY DEF Init
<1>3. h \in Heaps
  BY DEF Init, Heaps
<1>4. TypeOK
  BY <1>1, <1>2, <1>3 DEF Init, TypeOK
<1>5. Control
  BY <1>1, <1>2 DEF Init, Control
<1>6. Ring /\ Drained
  BY <1>2 DEF Init, Ring, Drained, Finished
<1> QED
  BY <1>4, <1>5, <1>6 DEF Inv

\* A consumer that only goes on, without touching the queue or finishing.
LEMMA ConsumerGoes ==
    ASSUME Inv, NEW c \in Consumers, pc[c] \in {"start", "gate", "asleep"},
           NEW from \in Places, NEW to \in {"gate", "asleep", "drain"},
           Go(c, from, to), UNCHANGED <<i, queue>>
    PROVE  Inv'
<1> USE ThreadsDiffer
<1>1. TypeOK /\ Control /\ Ring /\ Drained
  BY DEF Inv
<1>2. to \in Places
  BY DEF Places
<1>3. /\ pc' \in [Threads -> Places] /\ pc'[c] = to
      /\ \A u \in Threads : u # c => pc'[u] = pc[u]
  BY <1>1, <1>2, GoEffect
<1>4. TypeOK'
  BY <1>1, <1>3, QueueAlone DEF TypeOK
<1>5. Control'
  BY <1>1, <1>3, QueueAlone DEF Control
<1>6. Finished' = Finished
  BY <1>3 DEF Finished
<1>7. Drained'
  BY <1>1, <1>6, QueueAlone DEF Drained
<1> QED
  BY <1>1, <1>4, <1>5, <1>7, QueueAlone DEF Inv

\* The provider's step: consumers asleep are woken, or nobody else moves.
LEMMA ProviderGoes ==
    ASSUME Inv, Provide
    PROVE  Inv'
<1> USE ThreadsDiffer
<1>1. TypeOK /\ Control /\ Ring /\ Drained
  BY DEF Inv
<1>2. UNCHANGED <<i, queue>>
  BY DEF Provide, SeeAll, OpenGate
<1>3. /\ pc' \in [Threads -> Places] /\ pc'[Main] = pc[Main]
      /\ pc'[Provider] \in {"open", "done"}
      /\ \A c \in Consumers : pc'[c] = pc[c] \/ (pc[c] = "asleep" /\ pc'[c] = "drain")
  <2>1. CASE SeeAll
    <3>1. Go(Provider, "poll", "open") /\ "poll" \in Places /\ "open" \in Places
      BY <2>1 DEF SeeAll, Places
    <3> QED
      BY <1>1, <3>1, GoEffect
  <2>2. CASE OpenGate
    <3>1. pc' = [t \in Threads |-> IF pc[t] = "asleep" THEN "drain"
                                   ELSE IF t = Provider THEN "done" ELSE pc[t]]
      BY <2>2 DEF OpenGate
    <3>2. pc[Provider] = "open" /\ pc[Main] # "asleep"
      BY <1>1, <2>2 DEF OpenGate, TypeOK
    <3> QED
      BY <1>1, <3>1, <3>2 DEF TypeOK, Places
  <2> QED
    BY <2>1, <2>2 DEF Provide
<1>4. TypeOK'
  BY <1>1, <1>2, <1>3, QueueAlone DEF TypeOK
<1>5. Control'
  BY <1>1, <1>2, <1>3, QueueAlone DEF Control
<1>6. Finished' = Finished
  BY <1>3 DEF Finished
<1>7. Drained'
  BY <1>1, <1>2, <1>6, QueueAlone DEF Drained
<1> QED
  BY <1>1, <1>2, <1>4, <1>5, <1>7, QueueAlone DEF Inv

\* A turn of a consumer's loop: a node is removed, or the consumer is over.
LEMMA ConsumerDrains ==
    ASSUME Inv, NEW c \in Consumers, Drain(c)
    PROVE  Inv'
<1> USE ThreadsDiffer
<1>1. TypeOK /\ Control /\ Ring /\ Drained
  BY DEF Inv
<1>2. pc[c] = "drain" /\ i' = i /\ i = NodeNums /\ qlock = "usable"
  BY <1>1 DEF Drain, Control, TypeOK
<1>3. CASE QDequeue /\ UNCHANGED pc
  <2>1. Finished' = Finished /\ chain # <<>>
    BY <1>1, <1>2, <1>3, DequeueEffect DEF Finished
  <2>2. TypeOK'
    BY <1>1, <1>2, <1>3, DequeueEffect DEF TypeOK
  <2>3. Control'
    BY <1>1, <1>2, <1>3, DequeueEffect DEF Control
  <2>4. Drained'
    BY <1>1, <1>2, <1>3, <2>1, DequeueEffect DEF Drained
  <2> QED
    BY <1>1, <1>2, <1>3, <2>2, <2>3, <2>4, DequeueEffect DEF Inv
<1>4. CASE QIsEmpty /\ Go(c, "drain", "done") /\ UNCHANGED queue
  <2>1. /\ pc' \in [Threads -> Places] /\ pc'[c] = "done"
        /\ \A u \in Threads : u # c => pc'[u] = pc[u]
    <3>1. "drain" \in Places /\ "done" \in Places
      BY DEF Places
    <3> QED
      BY <1>1, <1>4, <3>1, GoEffect
  <2>2. chain' = <<>>
    BY <1>1, <1>2, <1>4, EmptyIsEmpty, QueueAlone DEF Ring, QIsEmpty, TypeOK
  <2>3. TypeOK'
    BY <1>1, <1>2, <1>4, <2>1, QueueAlone DEF TypeOK
  <2>4. Control'
    BY <1>1, <1>2, <1>4, <2>1, QueueAlone DEF Control
  <2>5. Drained'
    BY <2>2 DEF Drained
  <2> QED
    BY <1>1, <1>4, <2>3, <2>4, <2>5, QueueAlone DEF Inv
<1> QED
  BY <1>3, <1>4 DEF Drain

\* main() fills the queue while no consumer exists.
LEMMA MainFilling ==
    ASSUME Inv, MainFills
    PROVE  Inv'
<1> USE ThreadsDiffer
<1>1. TypeOK /\ Control /\ Ring /\ Drained
  BY DEF Inv
<1>2. /\ pc' = pc /\ pc[Main] = "fill" /\ i < NodeNums /\ i' = i + 1
      /\ qlock = "usable" /\ i \in Nat /\ i' \in 0..NodeNums
  BY <1>1, HeapAssumption DEF MainFills, Control, TypeOK
<1>3. \A c \in Consumers : pc[c] = "unborn"
  BY <1>1, <1>2, HeapAssumption DEF Control
<1>4. Finished' = {}
  BY <1>2, <1>3 DEF Finished
<1>5. /\ Ring' /\ qlock' = qlock
      /\ h' \in Heaps /\ mem' \in SUBSET Addresses
      /\ chain' \in Seq(Addresses) /\ removed' \in Seq(Nat \cup {NULL})
  <2>1. CASE QEnqueue(i)
    BY <1>1, <1>2, <2>1, EnqueueEffect DEF TypeOK
  <2>2. CASE QEnqueueFails
    BY <1>1, <2>2, QueueAlone DEF QEnqueueFails
  <2> QED
    BY <2>1, <2>2 DEF MainFills
<1>6. TypeOK'
  BY <1>1, <1>2, <1>5 DEF TypeOK
<1>7. Control' /\ Drained'
  BY <1>1, <1>2, <1>3, <1>4, <1>5 DEF Control, Drained
<1> QED
  BY <1>5, <1>6, <1>7 DEF Inv

\* q_clean: what is left is removed, and the mutex destroyed when nothing is.
LEMMA MainCleaning ==
    ASSUME Inv, MainCleans
    PROVE  Inv'
<1> USE ThreadsDiffer
<1>1. TypeOK /\ Control /\ Ring /\ Drained
  BY DEF Inv
<1>2. pc[Main] = "clean" /\ i' = i /\ qlock = "usable" /\ i = NodeNums
  BY <1>1 DEF MainCleans, Control, TypeOK
<1>3. \A c \in Consumers : pc[c] = "done"
  BY <1>1, <1>2 DEF Control
<1>4. CASE QDequeue /\ UNCHANGED pc
  <2>1. TypeOK'
    BY <1>1, <1>2, <1>4, DequeueEffect DEF TypeOK
  <2>2. Control'
    BY <1>1, <1>2, <1>4, DequeueEffect DEF Control
  <2>3. Finished' = Finished /\ chain # <<>>
    BY <1>1, <1>2, <1>4, DequeueEffect DEF Finished
  <2>4. Drained'
    BY <1>1, <1>2, <1>4, <2>3, DequeueEffect DEF Drained
  <2> QED
    BY <1>1, <1>2, <1>4, <2>1, <2>2, <2>4, DequeueEffect DEF Inv
<1>5. CASE /\ QIsEmpty /\ qlock' = "destroyed" /\ Go(Main, "clean", "done")
           /\ UNCHANGED <<h, mem, chain, removed>>
  <2>1. /\ pc' \in [Threads -> Places] /\ pc'[Main] = "done"
        /\ \A u \in Threads : u # Main => pc'[u] = pc[u]
    <3>1. "clean" \in Places /\ "done" \in Places
      BY DEF Places
    <3> QED
      BY <1>1, <1>5, <3>1, GoEffect
  <2>2. chain = <<>>
    BY <1>1, <1>2, <1>5, EmptyIsEmpty DEF Ring, QIsEmpty, TypeOK
  <2>3. TypeOK'
    BY <1>1, <1>2, <1>5, <2>1 DEF TypeOK
  <2>4. Control'
    BY <1>1, <1>2, <1>3, <1>5, <2>1 DEF Control
  <2>5. Ring' /\ Drained'
    BY <1>1, <1>2, <1>5, <2>2 DEF Ring, InRing, Drained
  <2> QED
    BY <1>5, <2>3, <2>4, <2>5 DEF Inv
<1> QED
  BY <1>4, <1>5 DEF MainCleans

\* The other steps of main().
LEMMA MainGoesOn ==
    ASSUME Inv, MainInit \/ (\E c \in Consumers : MainCreates(c)) \/ MainJoins
    PROVE  Inv'
<1> USE ThreadsDiffer
<1>1. TypeOK /\ Control /\ Ring /\ Drained
  BY DEF Inv
<1>2. {"init", "fill", "clean", "unborn", "start"} \subseteq Places
  BY DEF Places
<1>3. CASE MainInit
  <2>1. /\ pc' \in [Threads -> Places] /\ pc[Main] = "init" /\ pc'[Main] = "fill"
        /\ \A u \in Threads : u # Main => pc'[u] = pc[u]
    BY <1>1, <1>2, <1>3, GoEffect DEF MainInit
  <2>2. /\ i' = i /\ qlock = "none" /\ qlock' = "usable" /\ chain = <<>> /\ chain' = <<>>
        /\ mem' = mem /\ removed' = removed /\ h' = ListInit(h, QHead)
    BY <1>1, <1>3, <2>1 DEF MainInit, QInit, Control, Ring
  <2>3. h' \in Heaps /\ Linked(h', QHead, chain')
    BY <1>1, <2>2, InitLinks DEF TypeOK
  <2>4. \A c \in Consumers : pc[c] = "unborn"
    BY <1>1, <2>1 DEF Control
  <2>5. TypeOK'
    BY <1>1, <2>1, <2>2, <2>3 DEF TypeOK
  <2>6. Control'
    BY <1>1, <2>1, <2>2, <2>4 DEF Control
  <2>7. mem = {}
    BY <1>1, <2>2 DEF Ring
  <2>8. Ring' /\ Drained'
    BY <2>2, <2>3, <2>7 DEF Ring, InRing, Drained
  <2> QED
    BY <2>5, <2>6, <2>8 DEF Inv
<1>4. CASE \E c \in Consumers : MainCreates(c)
  <2>1. PICK c \in Consumers : MainCreates(c)
    BY <1>4
  <2>2. /\ pc' \in [Threads -> Places] /\ pc'[c] = "start"
        /\ \A u \in Threads : u # c => pc'[u] = pc[u]
    BY <1>1, <1>2, <2>1, GoEffect DEF MainCreates
  <2>3. pc[c] = "unborn" /\ pc[Main] = "fill" /\ i = NodeNums /\ UNCHANGED <<i, queue>>
    BY <2>1 DEF MainCreates, Go
  <2>4. TypeOK'
    BY <1>1, <2>2, <2>3, QueueAlone DEF TypeOK
  <2>5. Control'
    BY <1>1, <2>2, <2>3, QueueAlone DEF Control
  <2>6. Finished' = Finished
    BY <2>2, <2>3 DEF Finished
  <2>7. Drained'
    BY <1>1, <2>3, <2>6, QueueAlone DEF Drained
  <2> QED
    BY <1>1, <2>3, <2>4, <2>5, <2>7, QueueAlone DEF Inv
<1>5. CASE MainJoins
  <2>1. /\ pc' \in [Threads -> Places] /\ pc[Main] = "fill" /\ pc'[Main] = "clean"
        /\ \A u \in Threads : u # Main => pc'[u] = pc[u]
    BY <1>1, <1>2, <1>5, GoEffect DEF MainJoins, Go
  <2>2. /\ \A c \in Consumers : pc[c] = "done"
        /\ i = NodeNums /\ UNCHANGED <<i, queue>>
    BY <1>5 DEF MainJoins
  <2>3. TypeOK'
    BY <1>1, <2>1, <2>2, QueueAlone DEF TypeOK
  <2>4. Control'
    BY <1>1, <2>1, <2>2, QueueAlone DEF Control
  <2>5. Finished' = Finished
    BY <2>1 DEF Finished
  <2>6. Drained'
    BY <1>1, <2>2, <2>5, QueueAlone DEF Drained
  <2> QED
    BY <1>1, <2>2, <2>3, <2>4, <2>6, QueueAlone DEF Inv
<1> QED
  BY <1>3, <1>4, <1>5

\* Every step of any thread keeps the invariant.
LEMMA StepInv == Inv /\ [Next]_vars => Inv'
<1> SUFFICES ASSUME Inv, [Next]_vars PROVE Inv'
  OBVIOUS
<1>1. ASSUME NEW c \in Consumers, Announce(c) PROVE Inv'
  BY <1>1, ConsumerGoes DEF Announce, Go, Places
<1>2. ASSUME NEW c \in Consumers, GateWait(c) PROVE Inv'
  BY <1>2, ConsumerGoes DEF GateWait, Go, Places
<1>3. ASSUME NEW c \in Consumers, SpuriousWakeup(c) PROVE Inv'
  BY <1>3, ConsumerGoes DEF SpuriousWakeup, Go, Places
<1>4. ASSUME NEW c \in Consumers, Drain(c) PROVE Inv'
  BY <1>4, ConsumerDrains
<1>5. CASE Provide
  BY <1>5, ProviderGoes
<1>6. CASE MainThread
  BY <1>6, MainGoesOn, MainFilling, MainCleaning DEF MainThread
<1>7. CASE UNCHANGED vars
  <2>1. UNCHANGED <<pc, i>> /\ UNCHANGED queue
    BY <1>7 DEF vars
  <2> QED
    BY <2>1 DEF Inv, TypeOK, Control, Ring, InRing, Drained, Finished, queue
<1> QED
  BY <1>1, <1>2, <1>3, <1>4, <1>5, <1>6, <1>7 DEF Next, Consumer

-----------------------------------------------------------------------------
(* Theorems                                                                *)

\* The invariant holds throughout.
THEOREM Invariance == Spec => []Inv
<1>1. Init => Inv
  BY InitInv
<1>2. Inv /\ [Next]_vars => Inv'
  BY StepInv
<1> QED
  BY <1>1, <1>2, PTL DEF Spec

\* The pointers form one ring through exactly the allocated nodes, in whatever
\* order the threads add (queue.c:42) and remove (queue.c:60) them.
THEOREM RingIntact == Spec => []ListIntact
<1>1. Inv => ListIntact
  BY HoldsIsLinked DEF Inv, TypeOK, Ring, InRing, ListIntact
<1> QED
  BY <1>1, Invariance, PTL

-----------------------------------------------------------------------------
(* What the consumers count                                                *)

Counted ==
    /\ count \in [Consumers -> Nat]
    /\ IsFiniteSet(Turns)
    /\ CountsRemovals

\* The initial counts are 0.
LEMMA InitCounted == Init => Counted
<1> SUFFICES ASSUME Init PROVE Counted
  OBVIOUS
<1>1. count \in [Consumers -> Nat] /\ \A c \in Consumers : count[c] = 0
  BY DEF Init
<1>2. Turns = {}
  BY <1>1 DEF Turns
<1>3. Finished = {}
  BY ThreadsDiffer DEF Init, Finished
<1>4. Len(removed) = 0
  BY DEF Init
<1> QED
  BY <1>1, <1>2, <1>3, <1>4, FS_EmptySet DEF Counted, CountsRemovals

\* A turn adds one to the count, and a node to those removed or c to those finished.
LEMMA DrainCounts ==
    ASSUME Inv, Counted, NEW c \in Consumers, Drain(c)
    PROVE  Counted'
<1>1. TypeOK /\ Control /\ Ring /\ IsFiniteSet(Turns) /\ count \in [Consumers -> Nat]
  BY DEF Inv, Counted
<1>2. /\ count' = [count EXCEPT ![c] = count[c] + 1] /\ pc[c] = "drain" /\ qlock # "none"
      /\ Cardinality(Turns) = Len(removed) + Cardinality(Finished)
  BY <1>1 DEF Drain, Control, Counted, CountsRemovals
<1>3. /\ count' \in [Consumers -> Nat] /\ count[c] \in Nat /\ count'[c] = count[c] + 1
      /\ \A d \in Consumers : d # c => count'[d] = count[d]
  BY <1>1, <1>2
<1>4. Turns' = Turns \cup {<<c, count[c] + 1>>}
  <2>1. 1..count'[c] = (1..count[c]) \cup {count[c] + 1}
    BY <1>3
  <2> QED
    BY <1>3, <2>1 DEF Turns
<1>5. <<c, count[c] + 1>> \notin Turns
  BY <1>3 DEF Turns
<1>6. IsFiniteSet(Turns') /\ Cardinality(Turns') = Cardinality(Turns) + 1
  BY <1>1, <1>4, <1>5, FS_AddElement
<1>7. IsFiniteSet(Finished) /\ c \notin Finished /\ Cardinality(Finished) \in Nat
  BY <1>2, ThreadsAssumption, FS_Subset, FS_CardinalityType DEF Finished
<1>8. Len(removed) \in Nat
  BY <1>1, LenProperties DEF TypeOK
<1>9. CASE QDequeue /\ UNCHANGED pc
  <2>1. removed' = Append(removed, h.data[chain[1]]) /\ h.data[chain[1]] \in Nat \cup {NULL}
    <3>1. removed' = Append(removed, h.data[chain[1]]) /\ chain[1] \in Addresses
      BY <1>1, <1>2, <1>9, DequeueEffect
    <3> QED
      BY <1>1, <3>1 DEF TypeOK, Heaps, Nodes
  <2>2. Len(removed') = Len(removed) + 1
    BY <1>1, <2>1, AppendProperties DEF TypeOK
  <2>3. Finished' = Finished
    BY <1>9 DEF Finished
  <2> QED
    BY <1>2, <1>3, <1>6, <1>7, <1>8, <2>2, <2>3 DEF Counted, CountsRemovals
<1>10. CASE QIsEmpty /\ Go(c, "drain", "done") /\ UNCHANGED queue
  <2>1. pc'[c] = "done" /\ \A d \in Consumers : d # c => pc'[d] = pc[d]
    BY <1>1, <1>10, GoEffect, ThreadsDiffer DEF Places
  <2>2. Finished' = Finished \cup {c}
    BY <2>1 DEF Finished
  <2>3. Cardinality(Finished') = Cardinality(Finished) + 1
    BY <1>7, <2>2, FS_AddElement
  <2>4. removed' = removed
    BY <1>10 DEF queue
  <2> QED
    BY <1>2, <1>3, <1>6, <1>7, <1>8, <2>3, <2>4 DEF Counted, CountsRemovals
<1> QED
  BY <1>9, <1>10 DEF Drain

\* Where nobody counts, nothing is removed and nobody finishes.
LEMMA OthersCount ==
    ASSUME Inv, Counted, count' = count,
           Consumers # {} => removed' = removed /\ Finished' = Finished
    PROVE  Counted'
BY DEF Counted, CountsRemovals, Turns

\* Every step of any thread keeps the counts.
LEMMA StepCounted == Inv /\ Counted /\ [Next]_vars => Counted'
<1> SUFFICES ASSUME Inv, Counted, [Next]_vars PROVE Counted'
  OBVIOUS
<1> USE ThreadsDiffer
<1>1. TypeOK /\ Control /\ Ring /\ Drained
  BY DEF Inv
<1>2. ASSUME NEW c \in Consumers, Announce(c) \/ GateWait(c) \/ SpuriousWakeup(c) PROVE Counted'
  <2>1. pc[c] # "done" /\ pc'[c] # "done" /\ \A d \in Consumers : d # c => pc'[d] = pc[d]
    BY <1>1, <1>2 DEF Announce, GateWait, SpuriousWakeup, Go, TypeOK
  <2>2. Finished' = Finished
    BY <2>1 DEF Finished
  <2>3. UNCHANGED <<count, removed>>
    BY <1>2 DEF Announce, GateWait, SpuriousWakeup, queue
  <2> QED
    BY <2>2, <2>3, OthersCount
<1>3. CASE Provide
  <2>1. \A d \in Consumers : pc'[d] = "done" <=> pc[d] = "done"
    BY <1>1, <1>3 DEF Provide, SeeAll, OpenGate, Go, TypeOK
  <2>2. Finished' = Finished
    BY <2>1 DEF Finished
  <2>3. UNCHANGED <<count, removed>>
    BY <1>3 DEF Provide, SeeAll, OpenGate, queue
  <2> QED
    BY <2>2, <2>3, OthersCount
<1>4. CASE MainInit \/ MainJoins \/ MainFills
  <2>1. \A d \in Consumers : pc'[d] = pc[d]
    BY <1>1, <1>4 DEF MainInit, MainJoins, MainFills, Go, TypeOK
  <2>2. Finished' = Finished
    BY <2>1 DEF Finished
  <2>3. UNCHANGED <<count, removed>>
    BY <1>4 DEF MainInit, QInit, MainJoins, MainFills, QEnqueue, QEnqueueFails, queue
  <2> QED
    BY <2>2, <2>3, OthersCount
<1>5. ASSUME NEW c \in Consumers, MainCreates(c) PROVE Counted'
  <2>1. pc[c] # "done" /\ pc'[c] # "done" /\ \A d \in Consumers : d # c => pc'[d] = pc[d]
    BY <1>1, <1>5 DEF MainCreates, Go, TypeOK
  <2>2. Finished' = Finished
    BY <2>1 DEF Finished
  <2>3. UNCHANGED <<count, removed>>
    BY <1>5 DEF MainCreates, queue
  <2> QED
    BY <2>2, <2>3, OthersCount
<1>6. CASE MainCleans
  <2>1. count' = count /\ pc[Main] = "clean" /\ \A d \in Consumers : pc'[d] = pc[d]
    BY <1>1, <1>6 DEF MainCleans, Go, TypeOK
  <2>2. Finished' = Finished
    BY <2>1 DEF Finished
  <2>3. ASSUME Consumers # {}, QDequeue PROVE FALSE
    <3>1. Finished # {} /\ qlock # "none"
      BY <1>1, <2>1, <2>3 DEF Control, Finished
    <3> QED
      BY <1>1, <2>3, <3>1, DequeueEffect DEF Drained
  <2>4. Consumers # {} => removed' = removed
    BY <1>6, <2>3 DEF MainCleans
  <2> QED
    BY <2>1, <2>2, <2>4, OthersCount
<1>7. CASE UNCHANGED vars
  <2>1. UNCHANGED <<count, removed, pc>>
    BY <1>7 DEF vars, queue
  <2> QED
    BY <2>1, OthersCount DEF Finished
<1> QED
  BY <1>2, <1>3, <1>4, <1>5, <1>6, <1>7, DrainCounts DEF Next, Consumer, MainThread

\* The counts printed at the end of consumer_thread (main.c:48) exceed the nodes removed
\* by one for each consumer: no node is counted twice, whoever competes for it.
THEOREM CountsAreRight == Spec => []CountsRemovals
<1>1. Init => Counted
  BY InitCounted
<1>2. Inv /\ Counted /\ [Next]_vars => Counted'
  BY StepCounted
<1>3. Counted => CountsRemovals
  BY DEF Counted
<1> QED
  BY <1>1, <1>2, <1>3, Invariance, PTL DEF Spec

\* A consumer is over only when the queue is empty for good (main.c:45), q_clean
\* destroys the mutex when nobody needs it and nothing is allocated, and every node was
\* counted by the one consumer that removed it (main.c:43).
THEOREM DrainedFirst == Spec => []DrainedBeforeClean
<1>1. Inv /\ CountsRemovals => DrainedBeforeClean
  <2> SUFFICES ASSUME Inv, CountsRemovals PROVE DrainedBeforeClean
    OBVIOUS
  <2> USE ThreadsDiffer
  <2>1. TypeOK /\ Control /\ Ring /\ Drained
    BY DEF Inv
  <2>2. Finished # {} => chain = <<>> /\ i = NodeNums
    BY <2>1 DEF Drained, Control, Finished
  <2>3. ASSUME qlock = "destroyed" PROVE Finished = Consumers /\ mem = {}
    <3>1. chain = <<>> /\ mem = InRing /\ Len(chain) = 0
      BY <2>1, <2>3 DEF Drained, Ring
    <3>2. Finished = Consumers
      BY <2>1, <2>3 DEF Control, Finished
    <3> QED
      BY <3>1, <3>2 DEF InRing
  <2> QED
    BY <2>2, <2>3 DEF DrainedBeforeClean
<1> QED
  BY <1>1, Invariance, CountsAreRight, PTL

-----------------------------------------------------------------------------
(* The queue implements FifoQueue                                          *)

\* The values in the queue, oldest first.
Values == [k \in 1..Len(chain) |-> h.data[chain[k]]]

\* The values in a list of nodes.
LEMMA ValuesType ==
    ASSUME NEW hp \in Heaps, NEW s \in Seq(Addresses)
    PROVE  [k \in 1..Len(s) |-> hp.data[s[k]]] \in Seq(Nat \cup {NULL})
<1>1. Len(s) \in Nat /\ \A k \in 1..Len(s) : s[k] \in Nodes
  BY ElementOfSeq, LenProperties DEF Nodes
<1>2. \A k \in 1..Len(s) : hp.data[s[k]] \in Nat \cup {NULL}
  BY <1>1 DEF Heaps
<1>3. [k \in 1..Len(s) |-> hp.data[s[k]]] \in [1..Len(s) -> Nat \cup {NULL}]
  BY <1>2
<1> QED
  BY <1>1, <1>3, SeqDef

\* Adding a node adds its value.
LEMMA EnqueueAccepts ==
    ASSUME Inv, qlock # "none", i \in Nat, QEnqueue(i)
    PROVE  Values' = Append(Values, i) /\ removed' = removed
<1>1. TypeOK /\ Ring /\ chain \in Seq(Addresses)
  BY DEF Inv, TypeOK
<1>2. PICK n \in Addresses :
        /\ chain' = Append(chain, n) /\ chain' \in Seq(Addresses)
        /\ removed' = removed
        /\ h' \in Heaps
        /\ h'.data[n] = i
        /\ \A k \in 1..Len(chain) : h'.data[chain[k]] = h.data[chain[k]]
  BY <1>1, EnqueueEffect
<1>3. /\ Len(chain') = Len(chain) + 1 /\ chain'[Len(chain) + 1] = n /\ Len(chain) \in Nat
      /\ \A k \in 1..Len(chain) : chain'[k] = chain[k]
  BY <1>1, <1>2, AppendProperties
<1>4. Len(Values) = Len(chain) /\ Len(Values') = Len(chain') /\ DOMAIN Values = 1..Len(chain)
  BY <1>3 DEF Values
<1>5. \A k \in 1..Len(chain') : Values'[k] = IF k = Len(chain) + 1 THEN i ELSE Values[k]
  BY <1>2, <1>3 DEF Values
<1>6. Values' = [k \in 1..Len(chain') |-> Values'[k]]
  BY DEF Values
<1>7. Values \in Seq(Nat \cup {NULL}) /\ Values' \in Seq(Nat \cup {NULL})
  <2>1. h \in Heaps /\ h' \in Heaps /\ chain' \in Seq(Addresses)
    BY <1>1, <1>2 DEF TypeOK
  <2> QED
    BY <1>1, <2>1, ValuesType DEF Values
<1>8. /\ Append(Values, i) \in Seq(Nat \cup {NULL})
      /\ Len(Append(Values, i)) = Len(chain')
      /\ \A k \in 1..Len(chain') :
           Append(Values, i)[k] = IF k = Len(chain) + 1 THEN i ELSE Values[k]
  BY <1>3, <1>4, <1>7, AppendProperties
<1>9. Values' = Append(Values, i)
  BY <1>4, <1>5, <1>7, <1>8, SeqEqual
<1> QED
  BY <1>2, <1>9

\* Removing the first node removes the oldest value.
LEMMA DequeueRemoves ==
    ASSUME Inv, qlock # "none", QDequeue
    PROVE  /\ Values # <<>>
           /\ Values' = Tail(Values)
           /\ removed' = Append(removed, Head(Values))
<1>1. TypeOK /\ Ring /\ chain \in Seq(Addresses)
  BY DEF Inv, TypeOK
<1>2. /\ chain # <<>> /\ chain' = Tail(chain)
      /\ removed' = Append(removed, h.data[chain[1]])
      /\ \A m \in Nodes : m # chain[1] => h'.data[m] = h.data[m]
  BY <1>1, DequeueEffect
<1>3. /\ Len(chain) \in Nat \ {0} /\ Len(chain') = Len(chain) - 1
      /\ \A k \in 1..Len(chain') : chain'[k] = chain[k + 1]
      /\ \A k \in 1..Len(chain) : chain[k] \in Nodes
  BY <1>1, <1>2, HeadTailProperties, EmptySeq, LenProperties, ElementOfSeq DEF Nodes
<1>4. \A j, k \in 1..Len(chain) : chain[j] = chain[k] => j = k
  BY <1>1 DEF Ring, Linked
<1>5. \A k \in 1..Len(chain') : h'.data[chain'[k]] = h.data[chain[k + 1]]
  BY <1>2, <1>3, <1>4
<1>6. Len(Values) = Len(chain) /\ Values[1] = h.data[chain[1]] /\ Values # <<>>
  BY <1>3 DEF Values
<1>7. Values' = [k \in 1..Len(chain') |-> Values[k + 1]]
  BY <1>3, <1>5 DEF Values
<1>8. Values \in Seq(Nat \cup {NULL}) /\ Values' \in Seq(Nat \cup {NULL})
  <2>1. h \in Heaps /\ h' \in Heaps /\ chain' \in Seq(Addresses)
    BY <1>1, DequeueEffect DEF TypeOK
  <2> QED
    BY <1>1, <2>1, ValuesType DEF Values
<1>9. /\ Tail(Values) \in Seq(Nat \cup {NULL}) /\ Len(Tail(Values)) = Len(chain')
      /\ \A k \in 1..Len(chain') : Tail(Values)[k] = Values[k + 1]
  BY <1>3, <1>6, <1>8, HeadTailProperties
<1>10. Values' = Tail(Values)
  <2>1. Len(Values') = Len(chain')
    BY DEF Values
  <2> QED
    BY <1>7, <1>8, <1>9, <2>1, SeqEqual
<1>11. Head(Values) = Values[1]
  OBVIOUS
<1> QED
  BY <1>2, <1>6, <1>10, <1>11

\* With the sequence of the values in the queue for its contents, the program
\* implements the first-in first-out queue of FifoQueue, whatever its threads do.
THEOREM FifoImplemented == Spec => ImplementsFifo
<1>1. Init => Fifo!AbsInit
  <2> SUFFICES ASSUME Init PROVE Fifo!AbsInit
    OBVIOUS
  <2>1. Len(chain) = 0 /\ i = 0 /\ removed = <<>>
    BY DEF Init
  <2>2. [k \in 1..Len(chain) |-> h.data[chain[k]]] = <<>>
    BY <2>1
  <2> QED
    BY <2>1, <2>2 DEF Fifo!AbsInit
<1>2. Inv /\ [Next]_vars => [Fifo!AbsNext]_Fifo!absVars
  <2> SUFFICES ASSUME Inv, [Next]_vars PROVE [Fifo!AbsNext]_Fifo!absVars
    OBVIOUS
  <2> USE ThreadsDiffer
  <2>1. TypeOK /\ Control /\ Ring
    BY DEF Inv
  <2>2. ASSUME UNCHANGED <<h, chain, removed>>, i' = i PROVE UNCHANGED Fifo!absVars
    BY <2>2 DEF Fifo!absVars
  <2>3. ASSUME QDequeue, qlock # "none", i' = i PROVE Fifo!Remove
    BY <2>3, DequeueRemoves DEF Fifo!Remove, Values
  <2>4. ASSUME MainFills PROVE Fifo!Accept \/ Fifo!Refuse
    <3>1. /\ pc[Main] = "fill" /\ i < NodeNums /\ i' = i + 1 /\ i \in Nat /\ qlock # "none"
      BY <2>1, <2>4, HeapAssumption DEF MainFills, Control, TypeOK
    <3>2. CASE QEnqueue(i)
      BY <3>1, <3>2, EnqueueAccepts DEF Fifo!Accept, Values
    <3>3. CASE QEnqueueFails
      BY <3>1, <3>3 DEF QEnqueueFails, queue, Fifo!Refuse
    <3> QED
      BY <2>4, <3>2, <3>3 DEF MainFills
  <2>5. ASSUME NEW c \in Consumers, Drain(c) PROVE [Fifo!AbsNext]_Fifo!absVars
    <3>1. qlock # "none" /\ i' = i
      BY <2>1, <2>5 DEF Drain, Control
    <3>2. CASE QDequeue
      BY <2>3, <3>1, <3>2 DEF Fifo!AbsNext
    <3>3. CASE UNCHANGED queue
      BY <2>2, <3>1, <3>3 DEF queue
    <3> QED
      BY <2>5, <3>2, <3>3 DEF Drain
  <2>6. ASSUME MainCleans PROVE [Fifo!AbsNext]_Fifo!absVars
    <3>1. qlock # "none" /\ i' = i
      BY <2>1, <2>6 DEF MainCleans, Control
    <3>2. CASE QDequeue
      BY <2>3, <3>1, <3>2 DEF Fifo!AbsNext
    <3>3. CASE UNCHANGED <<h, mem, chain, removed>>
      BY <2>2, <3>1, <3>3
    <3> QED
      BY <2>6, <3>2, <3>3 DEF MainCleans
  <2>7. ASSUME MainInit PROVE UNCHANGED Fifo!absVars
    <3>1. i' = i /\ removed' = removed /\ chain = <<>> /\ chain' = <<>>
      BY <2>1, <2>7 DEF MainInit, QInit, Go, Control, Ring
    <3>2. Len(chain) = 0 /\ Len(chain') = 0
      BY <3>1
    <3>3. [k \in 1..Len(chain) |-> h.data[chain[k]]] = <<>>
      BY <3>2
    <3>4. [k \in 1..Len(chain') |-> h'.data[chain'[k]]] = <<>>
      BY <3>2
    <3> QED
      BY <3>1, <3>3, <3>4 DEF Fifo!absVars
  <2>8. ASSUME UNCHANGED <<i, queue>> PROVE UNCHANGED Fifo!absVars
    BY <2>2, <2>8 DEF queue
  <2>9. ASSUME NEW c \in Consumers, Announce(c) \/ GateWait(c) \/ SpuriousWakeup(c)
        PROVE  UNCHANGED <<i, queue>>
    BY <2>9 DEF Announce, GateWait, SpuriousWakeup
  <2>10. Provide \/ MainJoins \/ (\E c \in Consumers : MainCreates(c)) => UNCHANGED <<i, queue>>
    BY DEF Provide, SeeAll, OpenGate, MainJoins, MainCreates
  <2>11. UNCHANGED vars => UNCHANGED <<i, queue>>
    BY DEF vars
  <2> QED
    BY <2>4, <2>5, <2>6, <2>7, <2>8, <2>9, <2>10, <2>11
       DEF Next, Consumer, MainThread, Fifo!AbsNext
<1> QED
  BY <1>1, <1>2, Invariance, PTL DEF Spec, ImplementsFifo, Fifo!AbsSpec
=============================================================================

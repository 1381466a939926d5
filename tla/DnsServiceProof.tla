--------------------------- MODULE DnsServiceProof ---------------------------
(***************************************************************************)
(* Proofs about DnsService, for any number of requests, domains, entities  *)
(* and administrators, and any lives of the cache.                         *)
(***************************************************************************)
EXTENDS DnsService, FiniteSetTheorems, WellFoundedInduction, TLAPS

-----------------------------------------------------------------------------
(* Numbers and sets                                                        *)

\* A query returns a least match.
LEMMA LeastExists ==
    ASSUME NEW S \in SUBSET Nat, S # {}
    PROVE  \E k \in S : \A l \in S : k <= l
<1>1. \E k \in S : \A l \in S : ~(<<l, k>> \in OpToRel(<, Nat))
  BY NatLessThanWellFounded, WFMin
<1>2. PICK k \in S : \A l \in S : ~(<<l, k>> \in OpToRel(<, Nat))
  BY <1>1
<1>3. ASSUME NEW l \in S PROVE k <= l
  <2>1. ~(l < k)
    BY <1>2 DEF OpToRel
  <2> QED
    BY <2>1
<1> QED
  BY <1>3

\* What holds of 0, and of each next number, holds of all: P is the set of the numbers
\* it is shown for.
LEMMA AllNat ==
    ASSUME NEW P, 0 \in P, \A n \in Nat : n \in P => n + 1 \in P
    PROVE  Nat \subseteq P
<1>1. SUFFICES ASSUME Nat \ P # {} PROVE FALSE
  OBVIOUS
<1>2. Nat \ P \in SUBSET Nat
  OBVIOUS
<1>3. PICK k \in Nat \ P : \A l \in Nat \ P : k <= l
  BY <1>1, <1>2, LeastExists
<1>4. k # 0 /\ k - 1 \in Nat /\ ~(k <= k - 1)
  BY <1>3
<1>5. k - 1 \in P
  BY <1>3, <1>4
<1>6. (k - 1) + 1 \in P
  BY <1>4, <1>5
<1> QED
  BY <1>3, <1>6

\* A function on numbers may be defined by its first value and by the step from each value
\* to the next.
Steps(V) == [Nat \X V -> V]

LEMMA Recursion ==
    ASSUME NEW V, NEW v0 \in V, NEW step \in Steps(V)
    PROVE  \E f \in [Nat -> V] : f[0] = v0 /\ \A n \in Nat : f[n + 1] = step[<<n, f[n]>>]
<1> USE DEF Steps
<1> DEFINE Starts(n, g) == g[0] = v0 /\ \A k \in 0..(n - 1) : g[k + 1] = step[<<k, g[k]>>]
           P == {n \in Nat : \E g \in [0..n -> V] : Starts(n, g)}
           Q(n) == {m \in Nat : m <= n => \A g, h : Starts(n, g) /\ Starts(n, h) => g[m] = h[m]}
<1>1. Nat \subseteq P
  <2>1. 0 \in P
    <3>1. [i \in 0..0 |-> v0] \in [0..0 -> V] /\ Starts(0, [i \in 0..0 |-> v0])
      OBVIOUS
    <3> QED
      BY <3>1
  <2>2. ASSUME NEW n \in Nat, n \in P PROVE n + 1 \in P
    <3>1. PICK g \in [0..n -> V] : Starts(n, g)
      BY <2>2
    <3> DEFINE h == [i \in 0..(n + 1) |-> IF i = n + 1 THEN step[<<n, g[n]>>] ELSE g[i]]
    <3>2. h \in [0..(n + 1) -> V] /\ h[0] = v0 /\ h[n + 1] = step[<<n, g[n]>>] /\ h[n] = g[n]
      BY <3>1
    <3>3. ASSUME NEW k \in 0..((n + 1) - 1) PROVE h[k + 1] = step[<<k, h[k]>>]
      <4>1. CASE k = n
        BY <3>2, <4>1
      <4>2. CASE k # n
        BY <3>1, <4>2
      <4> QED
        BY <4>1, <4>2
    <3>4. Starts(n + 1, h)
      BY <3>2, <3>3
    <3> HIDE DEF Starts, h
    <3> QED
      BY <3>2, <3>4
  <2> HIDE DEF P
  <2> QED
    BY <2>1, <2>2, AllNat
<1>2. ASSUME NEW n \in Nat PROVE Nat \subseteq Q(n)
  <2>1. 0 \in Q(n)
    OBVIOUS
  <2>2. ASSUME NEW m \in Nat, m \in Q(n) PROVE m + 1 \in Q(n)
    <3>1. ASSUME m + 1 <= n, NEW g, NEW h, Starts(n, g), Starts(n, h) PROVE g[m + 1] = h[m + 1]
      <4>1. g[m] = h[m] /\ m \in 0..(n - 1)
        BY <2>2, <3>1
      <4> QED
        BY <3>1, <4>1
    <3> QED
      BY <3>1
  <2> HIDE DEF Q
  <2> QED
    BY <2>1, <2>2, AllNat
<1> DEFINE G(n) == CHOOSE g \in [0..n -> V] : Starts(n, g)
           f == [n \in Nat |-> G(n)[n]]
<1>3. ASSUME NEW n \in Nat PROVE G(n) \in [0..n -> V] /\ Starts(n, G(n))
  <2>1. \E g \in [0..n -> V] : Starts(n, g)
    BY <1>1
  <2> HIDE DEF Starts
  <2> QED
    BY <2>1
<1>4. ASSUME NEW n \in Nat PROVE f[n + 1] = step[<<n, f[n]>>]
  <2> DEFINE g == G(n)
             h == G(n + 1)
  <2> HIDE DEF Starts
  <2>1. Starts(n, g) /\ Starts(n + 1, h)
    BY <1>3
  <2> USE DEF Starts
  <2> HIDE DEF g, h
  <2>2. Starts(n, h)
    BY <2>1
  <2>3. n \in Q(n)
    BY <1>2
  <2>4. g[n] = h[n]
    BY <2>1, <2>2, <2>3
  <2>5. h[n + 1] = step[<<n, h[n]>>]
    BY <2>1
  <2>6. f[n] = g[n] /\ f[n + 1] = h[n + 1]
    <3> HIDE DEF G
    <3> QED
      BY DEF g, h
  <2> HIDE DEF f
  <2> QED
    BY <2>4, <2>5, <2>6
<1>5. f \in [Nat -> V] /\ f[0] = v0
  <2>1. G(0)[0] = v0
    BY <1>3
  <2>2. ASSUME NEW n \in Nat PROVE G(n)[n] \in V
    <3> HIDE DEF Starts, G
    <3>1. G(n) \in [0..n -> V] /\ n \in 0..n
      BY <1>3
    <3> QED
      BY <3>1
  <2> HIDE DEF G
  <2> QED
    BY <2>1, <2>2
<1> QED
  BY <1>4, <1>5

\* timedelta.seconds is the age where it is less than a day.
LEMMA SecondsOfAge ==
    ASSUME NEW a \in Nat, NEW d \in Nat, a < d
    PROVE  a % d = a
OBVIOUS

\* The lookups counted, P, and those under way, Q, are within the number started, u.
Within(P, Q, u) ==
    /\ IsFiniteSet(P) /\ IsFiniteSet(Q) /\ u \in Nat
    /\ Cardinality(P) + Cardinality(Q) <= u

\* Counting less leaves them within.
LEMMA WithinLess ==
    ASSUME NEW P, NEW Q, NEW u, Within(P, Q, u), NEW P2 \in SUBSET P, NEW Q2 \in SUBSET Q
    PROVE  Within(P2, Q2, u)
<1>1. IsFiniteSet(P) /\ IsFiniteSet(Q) /\ u \in Nat /\ Cardinality(P) + Cardinality(Q) <= u
  BY DEF Within
<1>2. /\ IsFiniteSet(P2) /\ Cardinality(P2) <= Cardinality(P)
      /\ IsFiniteSet(Q2) /\ Cardinality(Q2) <= Cardinality(Q)
  BY <1>1, FS_Subset
<1>3. /\ Cardinality(P) \in Nat /\ Cardinality(Q) \in Nat
      /\ Cardinality(P2) \in Nat /\ Cardinality(Q2) \in Nat
  BY <1>1, <1>2, FS_CardinalityType
<1> QED
  BY <1>1, <1>2, <1>3 DEF Within

\* One more is under way, and one more was started.
LEMMA WithinStarted ==
    ASSUME NEW P, NEW Q, NEW u, Within(P, Q, u), NEW r
    PROVE  Within(P, Q \cup {r}, u + 1)
<1>1. IsFiniteSet(P) /\ IsFiniteSet(Q) /\ u \in Nat /\ Cardinality(P) + Cardinality(Q) <= u
  BY DEF Within
<1>2. IsFiniteSet(Q \cup {r})
      /\ Cardinality(Q \cup {r}) = IF r \in Q THEN Cardinality(Q) ELSE Cardinality(Q) + 1
  BY <1>1, FS_AddElement
<1>3. Cardinality(P) \in Nat /\ Cardinality(Q) \in Nat
  BY <1>1, FS_CardinalityType
<1> QED
  BY <1>1, <1>2, <1>3 DEF Within

\* One that was under way is counted.
LEMMA WithinCounted ==
    ASSUME NEW P, NEW Q, NEW u, Within(P, Q, u), NEW x, NEW r \in Q
    PROVE  Within(P \cup {x}, Q \ {r}, u)
<1>1. IsFiniteSet(P) /\ IsFiniteSet(Q) /\ u \in Nat /\ Cardinality(P) + Cardinality(Q) <= u
  BY DEF Within
<1>2. IsFiniteSet(P \cup {x})
      /\ Cardinality(P \cup {x}) = IF x \in P THEN Cardinality(P) ELSE Cardinality(P) + 1
  BY <1>1, FS_AddElement
<1>3. IsFiniteSet(Q \ {r}) /\ Cardinality(Q \ {r}) = Cardinality(Q) - 1
  BY <1>1, FS_RemoveElement
<1>4. Cardinality(P) \in Nat /\ Cardinality(Q) \in Nat
  BY <1>1, FS_CardinalityType
<1> QED
  BY <1>1, <1>2, <1>3, <1>4 DEF Within

-----------------------------------------------------------------------------
(* The invariant of the requests                                           *)

Addresses == Ips \cup {CANT_RESOLVE}
Rets == Addresses \cup {Unbound}

\* Entities whose dates are past; without a failed lookup since, update_date is when
\* the address was obtained.
Hosts ==
    {x \in [domain : Domains, ip : Addresses, date : Nat, obtained : Nat,
            hit : Nat, failed : Nat, failure : BOOLEAN] :
        /\ x.date <= now /\ x.obtained <= now
        /\ ~x.failure => x.date = x.obtained}

Entities == {NoEntity} \cup [key : Keys, host : Hosts]

Places == {"idle", "hosts", "cache", "web1", "web2", "read", "put", "done"}
ReqLocals == [domain : Domains \cup {BadName}, uc : BOOLEAN, ret : Rets, ip : Addresses,
              hit : BOOLEAN, entity : Entities, back : {"done", "cache", "web1"}]

RTypeOK ==
    /\ conf \in Configs /\ now \in Nat
    /\ DOMAIN cache \subseteq Keys /\ cache \in [DOMAIN cache -> Hosts]
    /\ pc \in [Requests -> Places]
    /\ req \in [Requests -> ReqLocals]
    /\ answer \in [Requests -> Rets \cup {"error"}]
    /\ updates \in [hit : Nat, failed : Nat]

\* A request at work has a domain; it holds an entity at the put of update() only.
Working ==
    \A r \in Requests :
        /\ pc[r] \notin {"idle", "done"} => req[r].domain \in Domains
        /\ pc[r] # "put" => req[r].entity = NoEntity

\* ret is not assigned yet at the web services only with both switches off.
Assigned ==
    \A r \in Requests :
        /\ pc[r] \in {"web1", "web2"} /\ req[r].ret = Unbound => ~conf.useCache /\ ~conf.useHosts
        /\ pc[r] \in {"read", "put"} =>
             IF req[r].back = "done" THEN answer[r] # Unbound ELSE req[r].ret # Unbound
        /\ pc[r] = "done" /\ answer[r] = Unbound => ~conf.useCache /\ ~conf.useHosts

\* What requests that hold an entity may still write over what the entities count.
Holding == {r \in Requests : req[r].entity.key # NoKey}
HeldHits == UNION {{req[r].entity.key} \X (1..req[r].entity.host.hit) : r \in Holding}
HeldFailures == UNION {{req[r].entity.key} \X (1..req[r].entity.host.failed) : r \in Holding}

Updating(hit) == {r \in Requests : pc[r] \in {"read", "put"} /\ req[r].hit = hit}

Tallies ==
    /\ Within(Hits \cup HeldHits, Updating(TRUE), updates.hit)
    /\ Within(Failures \cup HeldFailures, Updating(FALSE), updates.failed)

RInv == RTypeOK /\ Working /\ Assigned /\ StaleOnlyIf /\ Tallies

-----------------------------------------------------------------------------
(* What the steps of a request make of the datastore and its locals        *)

\* A query returns an entity of the datastore, or none.
LEMMA QueryFinds ==
    ASSUME RTypeOK, NEW d
    PROVE  /\ Query(d) \in Entities
           /\ \/ Query(d) = NoEntity
              \/ \E k \in DOMAIN cache : Query(d) = [key |-> k, host |-> cache[k]]
<1>1. CASE Matching(d) = {}
  BY <1>1 DEF Query, Entities
<1>2. CASE Matching(d) # {}
  <2> DEFINE k == CHOOSE x \in Matching(d) : \A y \in Matching(d) : x <= y
  <2>1. Matching(d) \in SUBSET Nat /\ Matching(d) \subseteq DOMAIN cache
    BY DnsAssumption DEF Matching, RTypeOK
  <2>2. k \in Matching(d)
    BY <1>2, <2>1, LeastExists
  <2>3. Query(d) = [key |-> k, host |-> cache[k]]
    BY <1>2 DEF Query
  <2>4. k \in Keys /\ k \in DOMAIN cache /\ cache[k] \in Hosts
    BY <2>1, <2>2 DEF RTypeOK
  <2> HIDE DEF k
  <2> QED
    BY <2>3, <2>4 DEF Entities
<1> QED
  BY <1>1, <1>2

\* An entity is held, or none.
LEMMA EntityCases ==
    ASSUME NEW e \in Entities
    PROVE  IF e.key = NoKey THEN e = NoEntity
           ELSE e.key \in Keys /\ e.host \in Hosts /\ e = [key |-> e.key, host |-> e.host]
BY DnsAssumption DEF Entities, NoEntity

\* What update() puts over an entity it has read.
LEMMA TouchedHost ==
    ASSUME now \in Nat, NEW x \in Hosts, NEW y \in ReqLocals
    PROVE  LET z == Touched(x, y)
           IN  /\ z \in Hosts
               /\ z.hit = IF y.hit THEN x.hit + 1 ELSE x.hit
               /\ z.failed = IF y.hit THEN x.failed ELSE x.failed + 1
<1> DEFINE z == Touched(x, y)
           Rec == [domain : Domains, ip : Addresses, date : Nat, obtained : Nat,
                   hit : Nat, failed : Nat, failure : BOOLEAN]
<1>1. /\ x \in Rec /\ x.date <= now /\ x.obtained <= now /\ y.ip \in Addresses /\ y.hit \in BOOLEAN
  BY DEF Hosts, ReqLocals
<1>2. CASE y.hit
  <2> DEFINE x1 == [x EXCEPT !.hit = x.hit + 1, !.ip = y.ip]
             x2 == [x1 EXCEPT !.date = now, !.obtained = now]
  <2>1. x1 \in Rec /\ x1.hit = x.hit + 1 /\ x1.failed = x.failed
    <3>1. x.hit + 1 \in Nat
      BY <1>1
    <3>2. x1 \in Rec
      BY <1>1, <3>1
    <3> QED
      BY <1>1, <3>2
  <2>2. z = [x2 EXCEPT !.failure = FALSE]
    BY <1>2 DEF Touched
  <2> HIDE DEF x1
  <2>3. /\ x2 \in Rec /\ x2.hit = x.hit + 1 /\ x2.failed = x.failed
        /\ x2.date = now /\ x2.obtained = now
    BY <2>1
  <2> HIDE DEF x2, z
  <2>4. /\ z \in Rec /\ z.hit = x.hit + 1 /\ z.failed = x.failed
        /\ z.date = now /\ z.obtained = now
    BY <2>2, <2>3
  <2>5. z \in Hosts
    BY <2>4 DEF Hosts
  <2> QED
    BY <1>2, <2>4, <2>5 DEF z
<1>3. CASE ~y.hit
  <2> DEFINE x1 == [x EXCEPT !.failed = x.failed + 1, !.date = now]
  <2>1. /\ x1 \in Rec /\ x1.hit = x.hit /\ x1.failed = x.failed + 1
        /\ x1.date = now /\ x1.obtained <= now
    <3>1. x.failed + 1 \in Nat
      BY <1>1
    <3>2. x1 \in Rec
      BY <1>1, <3>1
    <3>3. x1.hit = x.hit /\ x1.failed = x.failed + 1 /\ x1.date = now /\ x1.obtained = x.obtained
      BY <1>1
    <3> QED
      BY <1>1, <3>2, <3>3
  <2>2. z = [x1 EXCEPT !.failure = TRUE]
    BY <1>3 DEF Touched
  <2> HIDE DEF x1, z
  <2>3. /\ z \in Rec /\ z.hit = x.hit /\ z.failed = x.failed + 1
        /\ z.date = now /\ z.obtained <= now /\ z.failure
    BY <2>1, <2>2
  <2>4. z \in Hosts
    BY <2>3 DEF Hosts
  <2> QED
    BY <1>3, <2>3, <2>4 DEF z
<1> QED
  BY <1>2, <1>3

\* What update() adds.
LEMMA FreshHost ==
    ASSUME now \in Nat, NEW y \in ReqLocals, y.domain \in Domains
    PROVE  LET z == Fresh(y)
           IN  /\ z \in Hosts
               /\ z.hit = IF y.hit THEN 1 ELSE 0
               /\ z.failed = IF y.hit THEN 0 ELSE 1
BY DEF Fresh, Hosts, ReqLocals

\* The state of one request changes to place `to', locals y and answer a.
Moves(r, to, y, a) ==
    /\ pc' = [pc EXCEPT ![r] = to]
    /\ req' = [req EXCEPT ![r] = y]
    /\ answer' = [answer EXCEPT ![r] = a]
    /\ UNCHANGED <<conf, now>>

\* A step of one request keeps the types, and what is said of a request where it is.
LEMMA MovesKeepTypes ==
    ASSUME RInv, NEW r \in Requests, NEW to \in Places, NEW y \in ReqLocals,
           NEW a \in Rets \cup {"error"}, Moves(r, to, y, a),
           to \notin {"idle", "done"} => y.domain \in Domains,
           to # "put" => y.entity = NoEntity,
           (to \in {"web1", "web2"} /\ y.ret = Unbound) \/ (to = "done" /\ a = Unbound)
             => ~conf.useCache /\ ~conf.useHosts,
           to \in {"read", "put"} => IF y.back = "done" THEN a # Unbound ELSE y.ret # Unbound,
           DOMAIN cache' \subseteq Keys, cache' \in [DOMAIN cache' -> Hosts],
           updates' \in [hit : Nat, failed : Nat]
    PROVE  RTypeOK' /\ Working' /\ Assigned'
<1>1. RTypeOK /\ Working /\ Assigned
  BY DEF RInv
<1>2. /\ pc' \in [Requests -> Places] /\ pc'[r] = to
      /\ req' \in [Requests -> ReqLocals] /\ req'[r] = y
      /\ answer' \in [Requests -> Rets \cup {"error"}] /\ answer'[r] = a
      /\ \A q \in Requests : q # r => pc'[q] = pc[q] /\ req'[q] = req[q] /\ answer'[q] = answer[q]
      /\ conf' = conf /\ now' = now
  BY <1>1 DEF RTypeOK, Moves
<1>3. Hosts' = Hosts /\ Entities' = Entities /\ ReqLocals' = ReqLocals
  BY <1>2 DEF Hosts, Entities, ReqLocals
<1>4. RTypeOK'
  BY <1>1, <1>2, <1>3 DEF RTypeOK
<1>5. Working'
  BY <1>1, <1>2 DEF Working
<1>6. ASSUME NEW q \in Requests
      PROVE  /\ pc'[q] \in {"web1", "web2"} /\ req'[q].ret = Unbound => ~conf.useCache /\ ~conf.useHosts
             /\ pc'[q] \in {"read", "put"} =>
                  IF req'[q].back = "done" THEN answer'[q] # Unbound ELSE req'[q].ret # Unbound
             /\ pc'[q] = "done" /\ answer'[q] = Unbound => ~conf.useCache /\ ~conf.useHosts
  <2>1. CASE q = r
    BY <1>2, <2>1
  <2>2. CASE q # r
    BY <1>1, <1>2, <2>2 DEF Assigned
  <2> QED
    BY <2>1, <2>2
<1>7. Assigned'
  BY <1>2, <1>6 DEF Assigned
<1> QED
  BY <1>4, <1>5, <1>7

\* A request is under way with its update while it is at "read" or "put".
LEMMA MovesUpdating ==
    ASSUME RTypeOK, NEW r \in Requests, NEW to, NEW y, NEW a, Moves(r, to, y, a), NEW hit
    PROVE  Updating(hit)' = IF to \in {"read", "put"} /\ y.hit = hit THEN Updating(hit) \cup {r}
                            ELSE Updating(hit) \ {r}
<1>1. /\ pc'[r] = to /\ req'[r] = y
      /\ \A q \in Requests : q # r => pc'[q] = pc[q] /\ req'[q] = req[q]
  BY DEF RTypeOK, Moves
<1> QED
  BY <1>1 DEF Updating

\* What may be counted does not grow when a request comes to hold nothing, what it held
\* or what is in the datastore.
LEMMA MovesHeld ==
    ASSUME RTypeOK, NEW r \in Requests, NEW to, NEW y, NEW a, Moves(r, to, y, a),
           cache' = cache,
           \/ y.entity = NoEntity
           \/ y.entity = req[r].entity
           \/ \E k \in DOMAIN cache : y.entity = [key |-> k, host |-> cache[k]]
    PROVE  /\ (Hits \cup HeldHits)' \subseteq Hits \cup HeldHits
           /\ (Failures \cup HeldFailures)' \subseteq Failures \cup HeldFailures
<1>1. req'[r] = y /\ \A q \in Requests : q # r => req'[q] = req[q]
  BY DEF RTypeOK, Moves
<1>2. Hits' = Hits /\ Failures' = Failures
  BY DEF Hits, Failures
<1>3. HeldHits' \subseteq Hits \cup HeldHits
  <2> SUFFICES ASSUME NEW q \in Holding', NEW z \in {req'[q].entity.key} \X (1..req'[q].entity.host.hit)
               PROVE  z \in Hits \cup HeldHits
    BY DEF HeldHits
  <2>1. q \in Requests /\ req'[q].entity.key # NoKey
    BY DEF Holding
  <2>2. CASE req'[q].entity = req[q].entity
    <3>1. q \in Holding /\ z \in {req[q].entity.key} \X (1..req[q].entity.host.hit)
      BY <2>1, <2>2 DEF Holding
    <3> QED
      BY <3>1 DEF HeldHits
  <2>3. CASE req'[q].entity # req[q].entity
    <3>1. q = r
      BY <1>1, <2>1, <2>3
    <3>2. PICK k \in DOMAIN cache : req'[q].entity = [key |-> k, host |-> cache[k]]
      BY <1>1, <2>1, <2>3, <3>1 DEF NoEntity
    <3>3. z \in {k} \X (1..cache[k].hit)
      BY <3>2
    <3> QED
      BY <3>3 DEF Hits
  <2> QED
    BY <2>2, <2>3
<1>4. HeldFailures' \subseteq Failures \cup HeldFailures
  <2> SUFFICES ASSUME NEW q \in Holding', NEW z \in {req'[q].entity.key} \X (1..req'[q].entity.host.failed)
               PROVE  z \in Failures \cup HeldFailures
    BY DEF HeldFailures
  <2>1. q \in Requests /\ req'[q].entity.key # NoKey
    BY DEF Holding
  <2>2. CASE req'[q].entity = req[q].entity
    <3>1. q \in Holding /\ z \in {req[q].entity.key} \X (1..req[q].entity.host.failed)
      BY <2>1, <2>2 DEF Holding
    <3> QED
      BY <3>1 DEF HeldFailures
  <2>3. CASE req'[q].entity # req[q].entity
    <3>1. q = r
      BY <1>1, <2>1, <2>3
    <3>2. PICK k \in DOMAIN cache : req'[q].entity = [key |-> k, host |-> cache[k]]
      BY <1>1, <2>1, <2>3, <3>1 DEF NoEntity
    <3>3. z \in {k} \X (1..cache[k].failed)
      BY <3>2
    <3> QED
      BY <3>3 DEF Failures
  <2> QED
    BY <2>2, <2>3
<1> QED
  BY <1>2, <1>3, <1>4

\* A put adds one to the hits or to the failures that may be counted.
LEMMA PutCounts ==
    ASSUME RTypeOK, NEW r \in Requests, NEW to, NEW y, NEW a, Moves(r, to, y, a),
           y.entity = NoEntity, NEW k, NEW host, Store(k, host),
           NEW m \in Nat, {k} \X (1..m) \subseteq Hits \cup HeldHits, host.hit \in {m, m + 1},
           NEW n \in Nat, {k} \X (1..n) \subseteq Failures \cup HeldFailures,
           host.failed \in {n, n + 1}
    PROVE  /\ (Hits \cup HeldHits)' \subseteq (Hits \cup HeldHits) \cup {<<k, m + 1>>}
           /\ host.hit = m => (Hits \cup HeldHits)' \subseteq Hits \cup HeldHits
           /\ (Failures \cup HeldFailures)' \subseteq (Failures \cup HeldFailures) \cup {<<k, n + 1>>}
           /\ host.failed = n => (Failures \cup HeldFailures)' \subseteq Failures \cup HeldFailures
<1>1. req'[r] = y /\ \A q \in Requests : q # r => req'[q] = req[q]
  BY DEF RTypeOK, Moves
<1>2. Holding' \subseteq Holding /\ \A q \in Holding' : req'[q] = req[q]
  BY <1>1 DEF Holding, NoEntity
<1>3. HeldHits' \subseteq HeldHits /\ HeldFailures' \subseteq HeldFailures
  BY <1>2 DEF HeldHits, HeldFailures
<1>4. /\ DOMAIN cache' = DOMAIN cache \cup {k} /\ cache'[k] = host
      /\ \A l \in DOMAIN cache : l # k => cache'[l] = cache[l]
  BY DEF Store
<1>5. \A l \in DOMAIN cache' : l = k \/ (l \in DOMAIN cache /\ cache'[l] = cache[l])
  BY <1>4
<1>6. Hits' \subseteq Hits \cup ({k} \X (1..host.hit))
  BY <1>4, <1>5 DEF Hits
<1>7. Failures' \subseteq Failures \cup ({k} \X (1..host.failed))
  BY <1>4, <1>5 DEF Failures
<1>8. /\ 1..m + 1 = (1..m) \cup {m + 1} /\ 1..n + 1 = (1..n) \cup {n + 1}
  OBVIOUS
<1>9. {k} \X (1..host.hit) \subseteq ({k} \X (1..m)) \cup {<<k, m + 1>>}
  BY <1>8
<1>10. {k} \X (1..host.failed) \subseteq ({k} \X (1..n)) \cup {<<k, n + 1>>}
  BY <1>8
<1> QED
  BY <1>3, <1>6, <1>7, <1>9, <1>10

-----------------------------------------------------------------------------
(* The steps of a request                                                  *)

\* A step that leaves the datastore and the number of updates as they are.
LEMMA QuietMove ==
    ASSUME RInv, NEW r \in Requests, NEW to \in Places, NEW y \in ReqLocals,
           NEW a \in Rets \cup {"error"}, Moves(r, to, y, a),
           cache' = cache, updates' = updates, StaleOnlyIf',
           to \notin {"idle", "done"} => y.domain \in Domains,
           to # "put" => y.entity = NoEntity,
           \/ y.entity = NoEntity
           \/ y.entity = req[r].entity
           \/ \E k \in DOMAIN cache : y.entity = [key |-> k, host |-> cache[k]],
           (to \in {"web1", "web2"} /\ y.ret = Unbound) \/ (to = "done" /\ a = Unbound)
             => ~conf.useCache /\ ~conf.useHosts,
           to \in {"read", "put"} => /\ pc[r] \in {"read", "put"} /\ y.hit = req[r].hit
                                     /\ IF y.back = "done" THEN a # Unbound ELSE y.ret # Unbound
    PROVE  RInv'
<1>1. RTypeOK /\ Tallies
  BY DEF RInv
<1>2. RTypeOK' /\ Working' /\ Assigned'
  <2>1. DOMAIN cache' \subseteq Keys /\ cache' \in [DOMAIN cache' -> Hosts]
        /\ updates' \in [hit : Nat, failed : Nat]
    BY <1>1 DEF RTypeOK
  <2> QED
    BY <2>1, MovesKeepTypes
<1>3. /\ (Hits \cup HeldHits)' \subseteq Hits \cup HeldHits
      /\ (Failures \cup HeldFailures)' \subseteq Failures \cup HeldFailures
  BY <1>1, MovesHeld
<1>4. ASSUME NEW hit \in BOOLEAN PROVE Updating(hit)' \subseteq Updating(hit)
  <2>1. Updating(hit)' = IF to \in {"read", "put"} /\ y.hit = hit THEN Updating(hit) \cup {r}
                         ELSE Updating(hit) \ {r}
    BY <1>1, MovesUpdating
  <2>2. to \in {"read", "put"} /\ y.hit = hit => r \in Updating(hit)
    BY DEF Updating
  <2> QED
    BY <2>1, <2>2
<1>5. Tallies'
  <2>1. Within((Hits \cup HeldHits)', Updating(TRUE)', updates.hit)
    BY <1>1, <1>3, <1>4, WithinLess DEF Tallies
  <2>2. Within((Failures \cup HeldFailures)', Updating(FALSE)', updates.failed)
    BY <1>1, <1>3, <1>4, WithinLess DEF Tallies
  <2> QED
    BY <2>1, <2>2 DEF Tallies
<1> QED
  BY <1>2, <1>5 DEF RInv

\* A step that calls update().
LEMMA CallingMove ==
    ASSUME RInv, NEW r \in Requests, NEW x \in ReqLocals, NEW ip \in Addresses, NEW hit \in BOOLEAN,
           NEW back \in {"done", "cache", "web1"}, NEW a \in Rets \cup {"error"},
           CallUpdate(r, x, ip, hit, back), answer' = [answer EXCEPT ![r] = a],
           UNCHANGED <<conf, now, cache, served>>,
           x.domain \in Domains, x.entity = NoEntity,
           pc[r] \notin {"read", "put"},
           IF back = "done" THEN a # Unbound ELSE x.ret # Unbound
    PROVE  RInv'
<1> DEFINE y == [x EXCEPT !.ip = ip, !.hit = hit, !.back = back]
<1>1. RTypeOK /\ Tallies /\ StaleOnlyIf
  BY DEF RInv
<1>2. /\ Moves(r, "read", y, a)
      /\ updates' = IF hit THEN [updates EXCEPT !.hit = @ + 1] ELSE [updates EXCEPT !.failed = @ + 1]
  BY DEF CallUpdate, Moves
<1>3. /\ y \in ReqLocals /\ y.entity = NoEntity /\ y.hit = hit /\ y.back = back
      /\ y.ret = x.ret /\ y.domain = x.domain
  BY DEF ReqLocals
<1>4. updates' \in [hit : Nat, failed : Nat]
  BY <1>1, <1>2 DEF RTypeOK
<1> HIDE DEF y
<1>5. RTypeOK' /\ Working' /\ Assigned'
  <2>1. "read" \in Places
    BY DEF Places
  <2>2. DOMAIN cache' \subseteq Keys /\ cache' \in [DOMAIN cache' -> Hosts]
    BY <1>1 DEF RTypeOK
  <2> QED
    BY <1>2, <1>3, <1>4, <2>1, <2>2, MovesKeepTypes
<1>6. /\ (Hits \cup HeldHits)' \subseteq Hits \cup HeldHits
      /\ (Failures \cup HeldFailures)' \subseteq Failures \cup HeldFailures
  BY <1>1, <1>2, <1>3, MovesHeld
<1>7. \A g : Updating(g)' = IF hit = g THEN Updating(g) \cup {r} ELSE Updating(g) \ {r}
  BY <1>1, <1>2, <1>3, MovesUpdating
<1>8. CASE hit
  <2>1. /\ updates'.hit = updates.hit + 1 /\ updates'.failed = updates.failed
        /\ Updating(TRUE)' = Updating(TRUE) \cup {r} /\ Updating(FALSE)' \subseteq Updating(FALSE)
    BY <1>1, <1>2, <1>7, <1>8 DEF RTypeOK
  <2>2. Within(Hits \cup HeldHits, Updating(TRUE) \cup {r}, updates.hit + 1)
    BY <1>1, WithinStarted DEF Tallies
  <2>3. Within((Hits \cup HeldHits)', Updating(TRUE)', updates'.hit)
    <3>1. (Hits \cup HeldHits)' \in SUBSET (Hits \cup HeldHits) /\ Updating(TRUE)' \in SUBSET (Updating(TRUE) \cup {r})
      BY <1>6, <2>1
    <3>2. Within((Hits \cup HeldHits)', Updating(TRUE)', updates.hit + 1)
      BY <2>2, <3>1, WithinLess
    <3> QED
      BY <2>1, <3>2
  <2>4. Within((Failures \cup HeldFailures)', Updating(FALSE)', updates'.failed)
    BY <1>1, <1>6, <2>1, WithinLess DEF Tallies
  <2> QED
    BY <1>1, <1>5, <2>3, <2>4 DEF RInv, Tallies, StaleOnlyIf
<1>9. CASE ~hit
  <2>1. /\ updates'.failed = updates.failed + 1 /\ updates'.hit = updates.hit
        /\ Updating(FALSE)' = Updating(FALSE) \cup {r} /\ Updating(TRUE)' \subseteq Updating(TRUE)
    BY <1>1, <1>2, <1>7, <1>9 DEF RTypeOK
  <2>2. Within(Failures \cup HeldFailures, Updating(FALSE) \cup {r}, updates.failed + 1)
    BY <1>1, WithinStarted DEF Tallies
  <2>3. Within((Failures \cup HeldFailures)', Updating(FALSE)', updates'.failed)
    <3>1. (Failures \cup HeldFailures)' \in SUBSET (Failures \cup HeldFailures) /\ Updating(FALSE)' \in SUBSET (Updating(FALSE) \cup {r})
      BY <1>6, <2>1
    <3>2. Within((Failures \cup HeldFailures)', Updating(FALSE)', updates.failed + 1)
      BY <2>2, <3>1, WithinLess
    <3> QED
      BY <2>1, <3>2
  <2>4. Within((Hits \cup HeldHits)', Updating(TRUE)', updates'.hit)
    BY <1>1, <1>6, <2>1, WithinLess DEF Tallies
  <2> QED
    BY <1>1, <1>5, <2>3, <2>4 DEF RInv, Tallies, StaleOnlyIf
<1> QED
  BY <1>8, <1>9

\* A step that ends a request, with nothing stored.
LEMMA EndingMove ==
    ASSUME RInv, NEW r \in Requests, NEW a \in Rets \cup {"error"}, Answer(r, a),
           UNCHANGED <<conf, now, cache, updates>>, StaleOnlyIf',
           a = Unbound => ~conf.useCache /\ ~conf.useHosts
    PROVE  RInv'
<1>1. Moves(r, "done", IdleReq, a)
  BY DEF Answer, Moves
<1>2. "done" \in Places /\ IdleReq \in ReqLocals /\ IdleReq.entity = NoEntity
  BY DEF Places, IdleReq, ReqLocals, Rets, Addresses, Entities
<1> QED
  BY <1>1, <1>2, QuietMove

\* The host name is known and valid.
LEMMA StartStep ==
    ASSUME RInv, NEW r \in Requests, Start(r) PROVE RInv'
<1>1. RTypeOK /\ StaleOnlyIf /\ conf.useHosts \in BOOLEAN /\ conf.useCache \in BOOLEAN
  BY DnsAssumption DEF RInv, RTypeOK
<1>2. PICK d \in Domains, uh \in BOOLEAN, uc \in BOOLEAN :
        LET x == [IdleReq EXCEPT !.domain = d, !.uc = uc]
        IN  /\ req' = [req EXCEPT ![r] = x]
            /\ pc' = [pc EXCEPT ![r] = IF conf.useHosts \/ uh THEN "hosts" ELSE AfterHosts(x)]
  BY DEF Start
<1> DEFINE x == [IdleReq EXCEPT !.domain = d, !.uc = uc]
           to == IF conf.useHosts \/ uh THEN "hosts" ELSE AfterHosts(x)
<1>3. x \in ReqLocals /\ x.domain = d /\ x.entity = NoEntity
  BY DEF IdleReq, ReqLocals, Rets, Addresses, Entities
<1>4. to \in {"hosts", "cache", "web1"} /\ (to = "web1" => ~conf.useCache /\ ~conf.useHosts)
  BY <1>1 DEF AfterHosts
<1>5. Moves(r, to, x, answer[r])
  BY <1>1, <1>2 DEF Moves, Start, RTypeOK
<1>6. answer[r] \in Rets \cup {"error"} /\ to \in Places
  BY <1>1, <1>4 DEF RTypeOK, Places
<1>7. cache' = cache /\ updates' = updates /\ StaleOnlyIf'
  BY <1>1 DEF Start, StaleOnlyIf
<1> HIDE DEF x, to
<1> QED
  BY <1>3, <1>4, <1>5, <1>6, <1>7, QuietMove

\* There is no valid host name.
LEMMA RefuseStep ==
    ASSUME RInv, NEW r \in Requests, Refuse(r) PROVE RInv'
<1>1. StaleOnlyIf' /\ CANT_RESOLVE \in Rets /\ CANT_RESOLVE # Unbound
  BY DnsAssumption DEF RInv, Refuse, StaleOnlyIf, Rets, Addresses
<1> QED
  BY <1>1, EndingMove DEF Refuse

\* The hosts list has been asked.
LEMMA LookupHostsStep ==
    ASSUME RInv, NEW r \in Requests, LookupHosts(r) PROVE RInv'
<1>1. /\ RTypeOK /\ pc[r] = "hosts" /\ req[r] \in ReqLocals /\ answer[r] \in Rets \cup {"error"}
      /\ req[r].domain \in Domains /\ req[r].entity = NoEntity
      /\ UNCHANGED <<conf, now, cache, served>>
  BY DEF RInv, RTypeOK, Working, LookupHosts
<1>2. PICK ret \in Ips \cup {CANT_RESOLVE} :
        LET x == [req[r] EXCEPT !.ret = ret]
        IN  IF ret # CANT_RESOLVE
            THEN /\ CallUpdate(r, x, ret, TRUE, "done")
                 /\ answer' = [answer EXCEPT ![r] = ret]
            ELSE /\ CallUpdate(r, x, ret, FALSE, AfterHosts(x))
                 /\ UNCHANGED answer
  BY DEF LookupHosts
<1> DEFINE x == [req[r] EXCEPT !.ret = ret]
<1>3. ret \in Addresses /\ ret \in Rets /\ ret # Unbound
  BY DnsAssumption DEF Addresses, Rets
<1>4. x \in ReqLocals /\ x.domain \in Domains /\ x.entity = NoEntity /\ x.ret = ret
  BY <1>1, <1>3 DEF ReqLocals
<1>5. AfterHosts(x) \in {"cache", "web1"}
  BY DEF AfterHosts
<1> HIDE DEF x
<1>6. CASE ret # CANT_RESOLVE
  <2>1. CallUpdate(r, x, ret, TRUE, "done") /\ answer' = [answer EXCEPT ![r] = ret]
    BY <1>2, <1>6 DEF x
  <2> QED
    BY <1>1, <1>3, <1>4, <2>1, CallingMove
<1>7. CASE ret = CANT_RESOLVE
  <2>1. CallUpdate(r, x, ret, FALSE, AfterHosts(x)) /\ answer' = [answer EXCEPT ![r] = answer[r]]
    BY <1>1, <1>2, <1>7 DEF x, RTypeOK
  <2> QED
    <3>1. answer[r] \in Rets \cup {"error"} /\ pc[r] \notin {"read", "put"}
      BY <1>1
    <3>2. /\ AfterHosts(x) \in {"done", "cache", "web1"} /\ AfterHosts(x) # "done"
          /\ FALSE \in BOOLEAN /\ x.ret # Unbound
      BY <1>3, <1>4, <1>5
    <3> QED
      <4>1. PICK back \in {"done", "cache", "web1"} : back = AfterHosts(x)
        BY <3>2
      <4>2. PICK a \in Rets \cup {"error"} : a = answer[r]
        BY <3>1
      <4>3. PICK hit \in BOOLEAN : hit = FALSE
        OBVIOUS
      <4>4. /\ CallUpdate(r, x, ret, hit, back) /\ answer' = [answer EXCEPT ![r] = a]
            /\ UNCHANGED <<conf, now, cache, served>>
        BY <1>1, <2>1, <4>1, <4>2, <4>3
      <4>5. IF back = "done" THEN a # Unbound ELSE x.ret # Unbound
        BY <3>2, <4>1
      <4>6. pc[r] \notin {"read", "put"} /\ x \in ReqLocals /\ x.domain \in Domains
            /\ x.entity = NoEntity /\ ret \in Addresses
        BY <1>3, <1>4, <3>1
      <4> QED
        BY <4>4, <4>5, <4>6, CallingMove
<1> QED
  BY <1>6, <1>7

\* The cache has been asked.  What it answers with is old only in the ways of StaleOnlyIf.
LEMMA LookupCacheStep ==
    ASSUME RInv, NEW r \in Requests, LookupCache(r) PROVE RInv'
<1> DEFINE cached == Query(req[r].domain)
           usable == cached.key # NoKey /\ Usable(cached.host)
<1>1. /\ RTypeOK /\ StaleOnlyIf /\ pc[r] = "cache" /\ req[r] \in ReqLocals
      /\ answer[r] \in Rets \cup {"error"} /\ now \in Nat
      /\ req[r].domain \in Domains /\ req[r].entity = NoEntity
      /\ UNCHANGED <<conf, now, cache, updates>>
  BY DEF RInv, RTypeOK, Working, LookupCache
<1>2. cached \in Entities
  BY <1>1, QueryFinds
<1>3. CASE /\ usable
           /\ Answer(r, cached.host.ip)
           /\ served' = [served EXCEPT ![r] = [since |-> now - cached.host.date,
                                               old |-> now - cached.host.obtained,
                                               failure |-> cached.host.failure]]
  <2> DEFINE h == cached.host
  <2>1. cached.key # NoKey /\ Usable(h)
    BY <1>3
  <2>2. h \in Hosts
    BY <1>2, <2>1, EntityCases
  <2>3. h.ip \in Rets /\ h.ip # Unbound
    BY <2>2, DnsAssumption DEF Hosts, Rets, Addresses
  <2>4. /\ h.date \in Nat /\ h.obtained \in Nat /\ h.date <= now
        /\ h.failure \in BOOLEAN /\ (~h.failure => h.date = h.obtained)
    BY <2>2 DEF Hosts
  <2>5. (now - h.date) % Day < Life
    BY <2>1 DEF Usable
  <2> HIDE DEF cached
  <2>6. now - h.obtained < Life \/ now - h.date >= Day \/ h.failure
    <3>1. CASE ~h.failure /\ now - h.date < Day
      <4>1. now - h.date \in Nat /\ Day \in Nat
        BY <1>1, <2>4, DnsAssumption
      <4>2. (now - h.date) % Day = now - h.date
        BY <3>1, <4>1, SecondsOfAge
      <4> QED
        BY <2>4, <2>5, <3>1, <4>2
    <3> QED
      BY <1>1, <2>4, <3>1, DnsAssumption
  <2>7. StaleOnlyIf'
    <3> SUFFICES ASSUME NEW q \in Requests
                 PROVE  \/ served'[q].old < Life
                        \/ served'[q].since >= Day
                        \/ served'[q].failure
      BY DEF StaleOnlyIf
    <3>1. CASE q = r /\ r \in DOMAIN served
      BY <1>3, <2>6, <3>1
    <3>2. CASE q # r \/ r \notin DOMAIN served
      <4>1. served'[q] = served[q]
        BY <1>3, <3>2
      <4> QED
        BY <1>1, <4>1 DEF StaleOnlyIf
    <3> QED
      BY <3>1, <3>2
  <2>8. Answer(r, h.ip)
    BY <1>3
  <2> HIDE DEF h
  <2> QED
    BY <1>1, <2>3, <2>7, <2>8, EndingMove
<1>4. CASE /\ ~usable
           /\ pc' = [pc EXCEPT ![r] = "web1"]
           /\ req' = [req EXCEPT ![r].ret = CANT_RESOLVE]
           /\ UNCHANGED <<answer, served>>
  <2> DEFINE y == [req[r] EXCEPT !.ret = CANT_RESOLVE]
  <2>1. /\ y \in ReqLocals /\ y.domain \in Domains /\ y.entity = NoEntity /\ y.ret # Unbound
    BY <1>1, DnsAssumption DEF ReqLocals, Rets, Addresses
  <2>2. Moves(r, "web1", y, answer[r])
    BY <1>1, <1>4 DEF Moves, RTypeOK
  <2>3. StaleOnlyIf' /\ "web1" \in Places
    BY <1>1, <1>4 DEF StaleOnlyIf, Places
  <2> HIDE DEF y
  <2> QED
    BY <1>1, <2>1, <2>2, <2>3, QuietMove
<1> QED
  BY <1>3, <1>4 DEF LookupCache

\* A web service has an address.
LEMMA WebFindsStep ==
    ASSUME RInv, NEW r \in Requests, WebFinds(r) PROVE RInv'
<1>1. /\ RTypeOK /\ pc[r] \in {"web1", "web2"} /\ req[r] \in ReqLocals
      /\ req[r].domain \in Domains /\ req[r].entity = NoEntity
      /\ UNCHANGED <<conf, now, cache, served>> /\ StaleOnlyIf'
  BY DEF RInv, RTypeOK, Working, WebFinds, StaleOnlyIf
<1>2. PICK ret \in Ips :
        IF conf.cacheWeb
        THEN /\ CallUpdate(r, [req[r] EXCEPT !.ret = ret], ret, TRUE, "done")
             /\ answer' = [answer EXCEPT ![r] = ret]
        ELSE Answer(r, ret) /\ UNCHANGED updates
  BY DEF WebFinds
<1> DEFINE x == [req[r] EXCEPT !.ret = ret]
<1>3. ret \in Addresses /\ ret \in Rets /\ ret # Unbound
  BY DnsAssumption DEF Addresses, Rets
<1>4. x \in ReqLocals /\ x.domain \in Domains /\ x.entity = NoEntity
  BY <1>1, <1>3 DEF ReqLocals
<1> HIDE DEF x
<1>5. CASE conf.cacheWeb
  <2>1. CallUpdate(r, x, ret, TRUE, "done") /\ answer' = [answer EXCEPT ![r] = ret]
    BY <1>2, <1>5 DEF x
  <2> QED
    BY <1>1, <1>3, <1>4, <2>1, CallingMove
<1>6. CASE ~conf.cacheWeb
  BY <1>1, <1>2, <1>3, <1>6, EndingMove
<1> QED
  BY <1>5, <1>6

\* The first web service has none.
LEMMA Web1MissesStep ==
    ASSUME RInv, NEW r \in Requests, Web1Misses(r) PROVE RInv'
<1>1. /\ RTypeOK /\ pc[r] = "web1" /\ req[r] \in ReqLocals /\ answer[r] \in Rets \cup {"error"}
      /\ req[r].domain \in Domains /\ req[r].entity = NoEntity
      /\ req[r].ret = Unbound => ~conf.useCache /\ ~conf.useHosts
      /\ UNCHANGED <<conf, now, cache, answer, served, updates>> /\ StaleOnlyIf'
  BY DEF RInv, RTypeOK, Working, Assigned, Web1Misses, StaleOnlyIf
<1>2. PICK ret \in WebMiss(r) : req' = [req EXCEPT ![r].ret = ret]
  BY DEF Web1Misses
<1> DEFINE y == [req[r] EXCEPT !.ret = ret]
<1>3. ret \in Rets /\ (ret = Unbound => req[r].ret = Unbound)
  BY <1>1, DnsAssumption DEF WebMiss, ReqLocals, Rets, Addresses
<1>4. y \in ReqLocals /\ y.domain \in Domains /\ y.entity = NoEntity /\ y.ret = ret
  BY <1>1, <1>3 DEF ReqLocals
<1>5. Moves(r, "web2", y, answer[r]) /\ "web2" \in Places
  BY <1>1, <1>2 DEF Moves, Web1Misses, RTypeOK, Places
<1> HIDE DEF y
<1> QED
  BY <1>1, <1>3, <1>4, <1>5, QuietMove

\* Nor has the second.
LEMMA Web2MissesStep ==
    ASSUME RInv, NEW r \in Requests, Web2Misses(r) PROVE RInv'
<1>1. /\ RTypeOK /\ pc[r] = "web2" /\ req[r] \in ReqLocals
      /\ req[r].domain \in Domains /\ req[r].entity = NoEntity
      /\ req[r].ret = Unbound => ~conf.useCache /\ ~conf.useHosts
      /\ UNCHANGED <<conf, now, cache, served>> /\ StaleOnlyIf'
  BY DEF RInv, RTypeOK, Working, Assigned, Web2Misses, StaleOnlyIf
<1>2. PICK ret \in WebMiss(r) :
        IF conf.cacheWeb /\ ret # Unbound
        THEN /\ CallUpdate(r, [req[r] EXCEPT !.ret = ret], ret, FALSE, "done")
             /\ answer' = [answer EXCEPT ![r] = CANT_RESOLVE]
        ELSE /\ Answer(r, IF conf.cacheWeb THEN Unbound ELSE CANT_RESOLVE)
             /\ UNCHANGED updates
  BY DEF Web2Misses
<1> DEFINE x == [req[r] EXCEPT !.ret = ret]
<1>3. /\ ret \in Rets /\ (ret = Unbound => req[r].ret = Unbound)
      /\ CANT_RESOLVE \in Rets /\ CANT_RESOLVE # Unbound /\ Unbound \in Rets
  BY <1>1, DnsAssumption DEF WebMiss, ReqLocals, Rets, Addresses
<1>4. x \in ReqLocals /\ x.domain \in Domains /\ x.entity = NoEntity
  BY <1>1, <1>3 DEF ReqLocals
<1> HIDE DEF x
<1>5. CASE conf.cacheWeb /\ ret # Unbound
  <2>1. CallUpdate(r, x, ret, FALSE, "done") /\ answer' = [answer EXCEPT ![r] = CANT_RESOLVE]
    BY <1>2, <1>5 DEF x
  <2>2. ret \in Addresses
    BY <1>3, <1>5 DEF Rets
  <2> QED
    BY <1>1, <1>3, <1>4, <2>1, <2>2, CallingMove
<1>6. CASE conf.cacheWeb /\ ret = Unbound
  <2>1. Answer(r, Unbound) /\ UNCHANGED updates
    BY <1>2, <1>6
  <2> QED
    BY <1>1, <1>3, <1>6, <2>1, EndingMove
<1>7. CASE ~conf.cacheWeb
  <2>1. Answer(r, CANT_RESOLVE) /\ UNCHANGED updates
    BY <1>2, <1>7
  <2> QED
    BY <1>1, <1>3, <2>1, EndingMove
<1> QED
  BY <1>5, <1>6, <1>7

\* The query of update().
LEMMA UpdateReadStep ==
    ASSUME RInv, NEW r \in Requests, UpdateRead(r) PROVE RInv'
<1> DEFINE e == Query(req[r].domain)
           y == [req[r] EXCEPT !.entity = e]
<1>1. /\ RTypeOK /\ pc[r] = "read" /\ req[r] \in ReqLocals /\ answer[r] \in Rets \cup {"error"}
      /\ req[r].domain \in Domains
      /\ IF req[r].back = "done" THEN answer[r] # Unbound ELSE req[r].ret # Unbound
      /\ UNCHANGED <<conf, now, cache, answer, served, updates>> /\ StaleOnlyIf'
  BY DEF RInv, RTypeOK, Working, Assigned, UpdateRead, StaleOnlyIf
<1>2. e \in Entities /\ (e = NoEntity \/ \E k \in DOMAIN cache : e = [key |-> k, host |-> cache[k]])
  BY <1>1, QueryFinds
<1>3. Moves(r, "put", y, answer[r]) /\ "put" \in Places
  BY <1>1 DEF Moves, UpdateRead, RTypeOK, Places
<1> HIDE DEF e
<1>4. /\ y \in ReqLocals /\ y.domain \in Domains /\ y.entity = e /\ y.hit = req[r].hit
      /\ y.back = req[r].back /\ y.ret = req[r].ret
  BY <1>1, <1>2 DEF ReqLocals
<1> HIDE DEF y
<1> QED
  BY <1>1, <1>2, <1>3, <1>4, QuietMove

\* A call of the datastore raises.
LEMMA DatastoreFailsStep ==
    ASSUME RInv, NEW r \in Requests, DatastoreFails(r) PROVE RInv'
<1>1. StaleOnlyIf' /\ Unbound # "error"
  BY DnsAssumption DEF RInv, DatastoreFails, StaleOnlyIf
<1> QED
  BY <1>1, EndingMove DEF DatastoreFails

\* What the put of update() stores, and what it counts over the m hits and n failures
\* that were there or were held.
LEMMA PutStores ==
    ASSUME RInv, NEW r \in Requests, UpdatePut(r)
    PROVE  \E k \in Keys, host \in Hosts, m, n \in Nat :
             /\ Store(k, host)
             /\ {k} \X (1..m) \subseteq Hits \cup HeldHits
             /\ {k} \X (1..n) \subseteq Failures \cup HeldFailures
             /\ host.hit = IF req[r].hit THEN m + 1 ELSE m
             /\ host.failed = IF req[r].hit THEN n ELSE n + 1
<1> DEFINE x == req[r]
           e == x.entity
<1>1. /\ RTypeOK /\ now \in Nat /\ x \in ReqLocals /\ x.domain \in Domains
  BY DEF RInv, RTypeOK, Working, UpdatePut
<1>2. e \in Entities /\ x.hit \in BOOLEAN
  BY <1>1 DEF ReqLocals
<1> HIDE DEF x
<1>3. CASE e.key = NoKey
  <2>1. PICK k \in NewKeys : Store(k, Fresh(x))
    BY <1>3 DEF UpdatePut, x
  <2>2. k \in Keys
    BY DEF NewKeys
  <2>3. /\ Fresh(x) \in Hosts
        /\ Fresh(x).hit = IF x.hit THEN 1 ELSE 0
        /\ Fresh(x).failed = IF x.hit THEN 0 ELSE 1
    BY <1>1, FreshHost
  <2>4. {k} \X (1..0) = {}
    OBVIOUS
  <2>5. /\ {k} \X (1..0) \subseteq Hits \cup HeldHits
        /\ {k} \X (1..0) \subseteq Failures \cup HeldFailures
    BY <2>4
  <2>6. /\ Fresh(x).hit = IF x.hit THEN 0 + 1 ELSE 0
        /\ Fresh(x).failed = IF x.hit THEN 0 ELSE 0 + 1
        /\ 0 \in Nat
    BY <2>3
  <2> QED
    BY <2>1, <2>2, <2>3, <2>5, <2>6 DEF x
<1>4. CASE e.key # NoKey
  <2> DEFINE host == Touched(e.host, x)
             m == e.host.hit
             n == e.host.failed
  <2>1. e.key \in Keys /\ e.host \in Hosts
    BY <1>2, <1>4, EntityCases
  <2>2. Store(e.key, host)
    BY <1>4 DEF UpdatePut, x
  <2>3. /\ host \in Hosts
        /\ host.hit = IF x.hit THEN m + 1 ELSE m
        /\ host.failed = IF x.hit THEN n ELSE n + 1
    BY <1>1, <2>1, TouchedHost
  <2>4. m \in Nat /\ n \in Nat
    BY <2>1 DEF Hosts
  <2>5. r \in Holding
    BY <1>4 DEF Holding, x
  <2>6. {e.key} \X (1..m) \subseteq HeldHits /\ {e.key} \X (1..n) \subseteq HeldFailures
    BY <2>5 DEF HeldHits, HeldFailures, x
  <2> HIDE DEF host, m, n
  <2> QED
    BY <2>1, <2>2, <2>3, <2>4, <2>6 DEF x
<1> QED
  BY <1>3, <1>4

\* The put of update(), whether it returns or raises.
LEMMA UpdatePutStep ==
    ASSUME RInv, NEW r \in Requests, UpdatePut(r) PROVE RInv'
<1>1. /\ RTypeOK /\ Tallies /\ pc[r] = "put" /\ req[r] \in ReqLocals
      /\ answer[r] \in Rets \cup {"error"} /\ req[r].domain \in Domains
      /\ IF req[r].back = "done" THEN answer[r] # Unbound ELSE req[r].ret # Unbound
      /\ UNCHANGED <<conf, now, served, updates>> /\ StaleOnlyIf'
  BY DEF RInv, RTypeOK, Working, Assigned, UpdatePut, StaleOnlyIf
<1>2. req[r].back \in {"done", "cache", "web1"} /\ req[r].hit \in BOOLEAN
  BY <1>1 DEF ReqLocals
<1>3. \E to \in {"done", "cache", "web1"}, y \in ReqLocals, a \in Rets \cup {"error"} :
        /\ Moves(r, to, y, a) /\ y.entity = NoEntity
        /\ to # "done" => y.domain \in Domains
        /\ ~((to \in {"web1", "web2"} /\ y.ret = Unbound) \/ (to = "done" /\ a = Unbound))
  <2>1. IdleReq \in ReqLocals /\ IdleReq.entity = NoEntity /\ Unbound # "error"
    BY DnsAssumption DEF IdleReq, ReqLocals, Rets, Addresses, Entities
  <2>2. CASE Answer(r, "error")
    <3>1. Moves(r, "done", IdleReq, "error")
      BY <1>1, <2>2 DEF Answer, Moves
    <3> QED
      BY <2>1, <3>1
  <2>3. CASE /\ pc' = [pc EXCEPT ![r] = req[r].back]
             /\ req' = [req EXCEPT ![r] = Locals([req[r] EXCEPT !.entity = NoEntity], req[r].back)]
             /\ UNCHANGED answer
    <3> DEFINE y0 == [req[r] EXCEPT !.entity = NoEntity]
               y == Locals(y0, req[r].back)
    <3>1. Moves(r, req[r].back, y, answer[r])
      BY <1>1, <2>3 DEF Moves, RTypeOK
    <3>2. /\ y0 \in ReqLocals /\ y0.entity = NoEntity /\ y0.domain = req[r].domain
          /\ y0.ret = req[r].ret
      BY <1>1 DEF ReqLocals, Entities
    <3> HIDE DEF y0
    <3>3. /\ y \in ReqLocals /\ y.entity = NoEntity
          /\ req[r].back # "done" => y = y0
      BY <2>1, <3>2 DEF Locals
    <3> HIDE DEF y
    <3> QED
      BY <1>1, <1>2, <3>1, <3>2, <3>3
  <2> QED
    BY <2>2, <2>3 DEF UpdatePut
<1>4. PICK to \in {"done", "cache", "web1"}, y \in ReqLocals, a \in Rets \cup {"error"} :
        /\ Moves(r, to, y, a) /\ y.entity = NoEntity
        /\ to # "done" => y.domain \in Domains
        /\ ~((to \in {"web1", "web2"} /\ y.ret = Unbound) \/ (to = "done" /\ a = Unbound))
  BY <1>3
<1>5. PICK k \in Keys, host \in Hosts, m \in Nat, n \in Nat :
        /\ Store(k, host)
        /\ {k} \X (1..m) \subseteq Hits \cup HeldHits
        /\ {k} \X (1..n) \subseteq Failures \cup HeldFailures
        /\ host.hit = IF req[r].hit THEN m + 1 ELSE m
        /\ host.failed = IF req[r].hit THEN n ELSE n + 1
  BY PutStores
<1>6. RTypeOK' /\ Working' /\ Assigned'
  <2>1. DOMAIN cache' \subseteq Keys /\ cache' \in [DOMAIN cache' -> Hosts]
    BY <1>1, <1>5 DEF RTypeOK, Store
  <2>2. to \in Places /\ updates' \in [hit : Nat, failed : Nat]
    BY <1>1 DEF Places, RTypeOK
  <2> QED
    BY <1>4, <2>1, <2>2, MovesKeepTypes
<1>7. /\ (Hits \cup HeldHits)' \subseteq (Hits \cup HeldHits) \cup {<<k, m + 1>>}
      /\ host.hit = m => (Hits \cup HeldHits)' \subseteq Hits \cup HeldHits
      /\ (Failures \cup HeldFailures)' \subseteq (Failures \cup HeldFailures) \cup {<<k, n + 1>>}
      /\ host.failed = n => (Failures \cup HeldFailures)' \subseteq Failures \cup HeldFailures
  <2>1. host.hit \in {m, m + 1} /\ host.failed \in {n, n + 1}
    BY <1>5
  <2> QED
    BY <1>1, <1>4, <1>5, <2>1, PutCounts
<1>8. \A g : Updating(g)' = Updating(g) \ {r}
  BY <1>1, <1>4, MovesUpdating
<1>9. CASE req[r].hit
  <2>1. r \in Updating(TRUE)
    BY <1>1, <1>9 DEF Updating
  <2>2. Within((Hits \cup HeldHits)', Updating(TRUE)', updates.hit)
    <3>1. Within(Hits \cup HeldHits \cup {<<k, m + 1>>}, Updating(TRUE) \ {r}, updates.hit)
      BY <1>1, <2>1, WithinCounted DEF Tallies
    <3>2. /\ (Hits \cup HeldHits)' \in SUBSET (Hits \cup HeldHits \cup {<<k, m + 1>>})
          /\ Updating(TRUE)' \in SUBSET (Updating(TRUE) \ {r})
      BY <1>7, <1>8
    <3> QED
      BY <3>1, <3>2, WithinLess
  <2>3. Within((Failures \cup HeldFailures)', Updating(FALSE)', updates.failed)
    <3>1. /\ (Failures \cup HeldFailures)' \in SUBSET (Failures \cup HeldFailures)
          /\ Updating(FALSE)' \in SUBSET Updating(FALSE)
      BY <1>5, <1>7, <1>8, <1>9
    <3> QED
      BY <1>1, <3>1, WithinLess DEF Tallies
  <2> QED
    BY <1>1, <1>6, <2>2, <2>3 DEF RInv, Tallies
<1>10. CASE ~req[r].hit
  <2>1. r \in Updating(FALSE)
    BY <1>1, <1>2, <1>10 DEF Updating
  <2>2. Within((Failures \cup HeldFailures)', Updating(FALSE)', updates.failed)
    <3>1. Within(Failures \cup HeldFailures \cup {<<k, n + 1>>}, Updating(FALSE) \ {r}, updates.failed)
      BY <1>1, <2>1, WithinCounted DEF Tallies
    <3>2. /\ (Failures \cup HeldFailures)' \in SUBSET (Failures \cup HeldFailures \cup {<<k, n + 1>>})
          /\ Updating(FALSE)' \in SUBSET (Updating(FALSE) \ {r})
      BY <1>7, <1>8
    <3> QED
      BY <3>1, <3>2, WithinLess
  <2>3. Within((Hits \cup HeldHits)', Updating(TRUE)', updates.hit)
    <3>1. /\ (Hits \cup HeldHits)' \in SUBSET (Hits \cup HeldHits)
          /\ Updating(TRUE)' \in SUBSET Updating(TRUE)
      BY <1>5, <1>7, <1>8, <1>10
    <3> QED
      BY <1>1, <3>1, WithinLess DEF Tallies
  <2> QED
    BY <1>1, <1>6, <2>2, <2>3 DEF RInv, Tallies
<1> QED
  BY <1>9, <1>10

-----------------------------------------------------------------------------
(* The cron job, time, and the whole                                       *)

\* A step that no request takes and that stores nothing.
LEMMA OtherMove ==
    ASSUME RInv, UNCHANGED <<conf, pc, req, answer, served, updates>>,
           now' \in Nat, now <= now',
           DOMAIN cache' \subseteq DOMAIN cache, cache' = [k \in DOMAIN cache' |-> cache[k]],
           now' # now => \A r \in Requests : pc[r] \in {"idle", "done"}
    PROVE  RInv'
<1>1. RTypeOK /\ Working /\ Assigned /\ StaleOnlyIf /\ Tallies
  BY DEF RInv
<1>2. Hosts \subseteq Hosts' /\ Entities \subseteq Entities'
  BY <1>1 DEF Hosts, Entities, RTypeOK
<1>3. ReqLocals \subseteq ReqLocals'
  BY <1>2 DEF ReqLocals
<1>4. RTypeOK'
  <2>1. DOMAIN cache' \subseteq Keys /\ cache' \in [DOMAIN cache' -> Hosts]
    BY <1>1 DEF RTypeOK
  <2>2. cache' \in [DOMAIN cache' -> Hosts']
    BY <1>2, <2>1
  <2>3. req' \in [Requests -> ReqLocals']
    BY <1>1, <1>3 DEF RTypeOK
  <2> QED
    BY <1>1, <2>1, <2>2, <2>3 DEF RTypeOK
<1>5. Working' /\ Assigned' /\ StaleOnlyIf'
  BY <1>1 DEF Working, Assigned, StaleOnlyIf
<1>6. Tallies'
  <2>1. Hits' \subseteq Hits /\ Failures' \subseteq Failures
    BY DEF Hits, Failures
  <2>2. HeldHits' = HeldHits /\ HeldFailures' = HeldFailures
    BY DEF HeldHits, HeldFailures, Holding
  <2>3. \A g : Updating(g)' = Updating(g)
    BY DEF Updating
  <2>4. Within((Hits \cup HeldHits)', Updating(TRUE)', updates.hit)
    <3>1. Within(Hits \cup HeldHits, Updating(TRUE), updates.hit)
      BY <1>1 DEF Tallies
    <3>2. (Hits \cup HeldHits)' \in SUBSET (Hits \cup HeldHits) /\ Updating(TRUE) \in SUBSET Updating(TRUE)
      BY <2>1, <2>2
    <3>3. Within((Hits \cup HeldHits)', Updating(TRUE), updates.hit)
      BY <3>1, <3>2, WithinLess
    <3> QED
      BY <2>3, <3>3
  <2>5. Within((Failures \cup HeldFailures)', Updating(FALSE)', updates.failed)
    <3>1. Within(Failures \cup HeldFailures, Updating(FALSE), updates.failed)
      BY <1>1 DEF Tallies
    <3>2. (Failures \cup HeldFailures)' \in SUBSET (Failures \cup HeldFailures) /\ Updating(FALSE) \in SUBSET Updating(FALSE)
      BY <2>1, <2>2
    <3>3. Within((Failures \cup HeldFailures)', Updating(FALSE), updates.failed)
      BY <3>1, <3>2, WithinLess
    <3> QED
      BY <2>3, <3>3
  <2> QED
    BY <2>4, <2>5 DEF Tallies
<1> QED
  BY <1>4, <1>5, <1>6 DEF RInv

\* In the first state.
LEMMA InitRInv ==
    ASSUME Init PROVE RInv
<1>1. RTypeOK
  BY DEF Init, RTypeOK, IdleReq, ReqLocals, Rets, Addresses, Entities, Places
<1>2. Working /\ Assigned
  BY DEF Init, IdleReq, Working, Assigned
<1>3. StaleOnlyIf
  BY DnsAssumption DEF Init, NotServed, StaleOnlyIf
<1>4. Tallies
  <2>1. Hits = {} /\ Failures = {}
    BY DEF Init, Hits, Failures
  <2>2. Holding = {} /\ HeldHits = {} /\ HeldFailures = {}
    BY DEF Init, IdleReq, NoEntity, Holding, HeldHits, HeldFailures
  <2>3. \A g : Updating(g) = {}
    BY DEF Init, Updating
  <2>4. IsFiniteSet({}) /\ Cardinality({}) = 0
    BY FS_EmptySet
  <2>5. Within({}, {}, 0)
    BY <2>4 DEF Within
  <2>6. updates.hit = 0 /\ updates.failed = 0
    BY DEF Init
  <2> QED
    BY <2>1, <2>2, <2>3, <2>5, <2>6 DEF Tallies
<1> QED
  BY <1>1, <1>2, <1>3, <1>4 DEF RInv

\* Each step of the requests and of the cron job.
LEMMA NextRInv ==
    ASSUME RInv, [Next]_vars PROVE RInv'
<1>1. RTypeOK /\ now \in Nat /\ cache = [k \in DOMAIN cache |-> cache[k]]
  BY DEF RInv, RTypeOK
<1>2. CASE Tick
  BY <1>1, <1>2, OtherMove DEF Tick
<1>3. CASE CronStarts
  BY <1>1, <1>3, OtherMove DEF CronStarts
<1>4. CASE CronFetches
  BY <1>1, <1>4, OtherMove DEF CronFetches
<1>5. CASE CronDeletes
  <2>1. DOMAIN cache' = DOMAIN cache \ batch /\ cache' = [k \in DOMAIN cache' |-> cache[k]]
    BY <1>5 DEF CronDeletes
  <2> QED
    BY <1>1, <1>5, <2>1, OtherMove DEF CronDeletes
<1>8. CASE CronRaises
  <2>1. PICK gone \in SUBSET batch : cache' = [k \in DOMAIN cache \ gone |-> cache[k]]
    BY <1>8 DEF CronRaises
  <2>2. DOMAIN cache' = DOMAIN cache \ gone /\ cache' = [k \in DOMAIN cache' |-> cache[k]]
    BY <2>1
  <2> QED
    BY <1>1, <1>8, <2>2, OtherMove DEF CronRaises
<1>6. ASSUME NEW r \in Requests, Request(r) PROVE RInv'
  BY <1>6, StartStep, RefuseStep, LookupHostsStep, LookupCacheStep, WebFindsStep, Web1MissesStep,
     Web2MissesStep, UpdateReadStep, UpdatePutStep, DatastoreFailsStep DEF Request
<1>7. CASE UNCHANGED vars
  BY <1>1, <1>7, OtherMove DEF vars
<1> QED
  BY <1>2, <1>3, <1>4, <1>5, <1>6, <1>7, <1>8 DEF Next, Cron

\* The invariant implies that the entries never count more than the lookups.
LEMMA TalliesBound ==
    ASSUME Tallies PROVE NeverOvercounts
<1>1. Hits \in SUBSET (Hits \cup HeldHits) /\ Failures \in SUBSET (Failures \cup HeldFailures)
  OBVIOUS
<1>2. \A g : {} \in SUBSET Updating(g)
  OBVIOUS
<1>3. Within(Hits, {}, updates.hit) /\ Within(Failures, {}, updates.failed)
  BY <1>1, <1>2, WithinLess DEF Tallies
<1>4. Cardinality({}) = 0
  BY FS_EmptySet
<1>5. Cardinality(Hits) \in Nat /\ Cardinality(Failures) \in Nat
  BY <1>3, FS_CardinalityType DEF Within
<1> QED
  BY <1>3, <1>4, <1>5 DEF Within, NeverOvercounts

\* The invariant of the requests, in the whole application.
THEOREM RequestsInvariance == SSpec => []RInv
<1>1. SInit => RInv
  BY InitRInv DEF SInit
<1>2. RInv /\ [SNext]_<<part, vars, hostVars>> => RInv'
  BY NextRInv DEF SNext
<1> QED
  BY <1>1, <1>2, PTL DEF SSpec

\* Only a whole day, or a failed lookup, makes DNSCacheManager.lookup answer with an address
\* older than cache_life (dnscache.py).
THEOREM StaleAnswers == SSpec => []StaleOnlyIf
<1>1. RInv => StaleOnlyIf
  BY DEF RInv
<1> QED
  BY <1>1, RequestsInvariance, PTL

\* The counters of the entries stay within the lookups, whatever DNSCacheManager.update loses.
THEOREM CountsBounded == SSpec => []NeverOvercounts
<1>1. RInv => NeverOvercounts
  BY TalliesBound DEF RInv
<1> QED
  BY <1>1, RequestsInvariance, PTL

\* MainHandler.get reads `ret' before it is assigned only with both switches off.
THEOREM UnboundAnswers == SSpec => []UnboundOnlyIf
<1>1. RInv => UnboundOnlyIf
  BY DEF RInv, Assigned, UnboundOnlyIf
<1> QED
  BY <1>1, RequestsInvariance, PTL

-----------------------------------------------------------------------------
(* The administration of the hosts list                                    *)

HPlaces == {"idle", "query", "put", "loaded", "delete", "emptied"}

HTypeOK ==
    /\ DOMAIN hosts \subseteq HostKeys
    /\ at \in [Admins -> HPlaces]
    /\ found \in [Admins -> HostKeys \cup {0}]
    /\ overlap \in BOOLEAN

\* What the query of add_host has found is still so at its put.
FoundStands ==
    \A a \in Admins : at[a] = "put" =>
        IF found[a] = 0 THEN H!Listed(Head(todo[a]).domain) = {}
        ELSE found[a] \in H!Listed(Head(todo[a]).domain)

OneAtWork == \A a, b \in Admins : at[a] # "idle" /\ at[b] # "idle" => a = b

ListedOnce == \A k, l \in DOMAIN hosts : hosts[k].domain = hosts[l].domain => k = l

HInv == HTypeOK /\ (overlap \/ (OneAtWork /\ ListedOnce /\ FoundStands))

\* A handler begins.
LEMMA BeginStep ==
    ASSUME HInv, NEW a \in Admins, NEW list, NEW page, NEW place \in HPlaces, NEW end \in HPlaces,
           place # "put", end # "put", H!Begin(a, list, page, place, end)
    PROVE  HInv'
<1>1. HTypeOK'
  BY DEF HInv, HTypeOK, H!Begin
<1>2. ASSUME ~overlap' PROVE OneAtWork' /\ ListedOnce' /\ FoundStands'
  <2>1. /\ overlap \in BOOLEAN /\ overlap' = (overlap \/ ~\A b \in Admins : at[b] = "idle")
    BY DEF HInv, HTypeOK, H!Begin
  <2>2. ~overlap /\ \A b \in Admins : at[b] = "idle"
    BY <1>2, <2>1
  <2>3. \A b \in Admins : b # a => at'[b] = "idle"
    BY <2>2 DEF HInv, HTypeOK, H!Begin
  <2>4. at'[a] # "put"
    BY DEF HInv, HTypeOK, H!Begin
  <2>5. OneAtWork' /\ FoundStands'
    BY <2>3, <2>4 DEF OneAtWork, FoundStands
  <2>6. ListedOnce'
    BY <2>2 DEF HInv, ListedOnce, H!Begin
  <2> QED
    BY <2>5, <2>6
<1>3. overlap' \in BOOLEAN
  BY <1>1 DEF HTypeOK
<1> QED
  BY <1>1, <1>2, <1>3 DEF HInv

\* Another step of a handler, after which it is not at its put.
LEMMA HandlerStep ==
    ASSUME HInv, NEW a \in Admins, at[a] # "idle", NEW to \in HPlaces, to # "put",
           at' = [at EXCEPT ![a] = to], found' = [found EXCEPT ![a] = 0], overlap' = overlap,
           DOMAIN hosts' \subseteq HostKeys,
           ~overlap => ListedOnce'
    PROVE  HInv'
<1>1. HTypeOK'
  BY DEF HInv, HTypeOK
<1>2. ASSUME ~overlap PROVE OneAtWork' /\ ListedOnce' /\ FoundStands'
  <2>1. \A b \in Admins : b # a => at[b] = "idle"
    BY <1>2 DEF HInv, OneAtWork
  <2>2. (\A b \in Admins : b # a => at'[b] = "idle") /\ at'[a] = to
    BY <2>1 DEF HInv, HTypeOK
  <2> QED
    BY <1>2, <2>2 DEF OneAtWork, FoundStands
<1>3. overlap \in BOOLEAN
  BY DEF HInv, HTypeOK
<1> QED
  BY <1>1, <1>2, <1>3 DEF HInv

\* The put of add_host lists no domain a second time, unless requests have overlapped.
LEMMA PutListsOnce ==
    ASSUME HInv, NEW a \in Admins, at[a] = "put", H!Put(a, H!Entity(a))
    PROVE  DOMAIN hosts' \subseteq HostKeys /\ (~overlap => ListedOnce')
<1> DEFINE d == Head(todo[a]).domain
<1>1. PICK k \in H!Entity(a) :
        hosts' = [l \in DOMAIN hosts \cup {k} |-> IF l = k THEN Head(todo[a]) ELSE hosts[l]]
  BY DEF H!Put
<1>2. k \in HostKeys /\ (found[a] # 0 => k = found[a])
  BY DEF HInv, HTypeOK, H!Entity, H!NewKeys
<1>3. DOMAIN hosts' \subseteq HostKeys
  BY <1>1, <1>2 DEF HInv, HTypeOK
<1>4. ASSUME ~overlap PROVE ListedOnce'
  <2>1. ListedOnce /\ IF found[a] = 0 THEN H!Listed(d) = {} ELSE found[a] \in H!Listed(d)
    BY <1>4 DEF HInv, FoundStands
  <2>2. /\ DOMAIN hosts' = DOMAIN hosts \cup {k} /\ hosts'[k].domain = d
        /\ \A l \in DOMAIN hosts : l # k => hosts'[l] = hosts[l]
    BY <1>1
  <2>3. \A l \in DOMAIN hosts : l # k => hosts[l].domain # d
    <3>1. CASE found[a] = 0
      BY <2>1, <3>1 DEF H!Listed
    <3>2. CASE found[a] # 0
      BY <1>2, <2>1, <3>2 DEF H!Listed, ListedOnce
    <3> QED
      BY <3>1, <3>2
  <2> HIDE DEF d
  <2>4. ASSUME NEW l \in DOMAIN hosts', NEW m \in DOMAIN hosts', hosts'[l].domain = hosts'[m].domain
        PROVE  l = m
    <3>1. CASE l # k /\ m # k
      BY <2>1, <2>2, <2>4, <3>1 DEF ListedOnce
    <3>2. CASE l = k \/ m = k
      BY <2>2, <2>3, <2>4, <3>2
    <3> QED
      BY <3>1, <3>2
  <2> QED
    BY <2>4 DEF ListedOnce
<1> QED
  BY <1>3, <1>4

\* The query of add_host.
LEMMA AddQueryStep ==
    ASSUME HInv, NEW a \in Admins, H!AddQuery(a) PROVE HInv'
<1> DEFINE d == Head(todo[a]).domain
<1>1. /\ at[a] = "query" /\ at' = [at EXCEPT ![a] = "put"]
      /\ found' = [found EXCEPT ![a] = IF H!Listed(d) = {} THEN 0 ELSE H!Least(H!Listed(d))]
      /\ hosts' = hosts /\ todo' = todo /\ overlap' = overlap
  BY DEF H!AddQuery
<1>2. H!Listed(d) # {} => H!Least(H!Listed(d)) \in H!Listed(d)
  <2>1. H!Listed(d) \in SUBSET Nat
    BY HostsAssumption DEF HInv, HTypeOK, H!Listed
  <2> QED
    BY <2>1, LeastExists DEF H!Least
<1>3. H!Listed(d) \subseteq HostKeys /\ 0 \notin HostKeys
  BY HostsAssumption DEF HInv, HTypeOK, H!Listed
<1>4. HTypeOK'
  BY <1>1, <1>2, <1>3 DEF HInv, HTypeOK, HPlaces
<1>5. ASSUME ~overlap PROVE OneAtWork' /\ ListedOnce' /\ FoundStands'
  <2>1. \A b \in Admins : b # a => at[b] = "idle"
    BY <1>1, <1>5 DEF HInv, OneAtWork
  <2>2. (\A b \in Admins : b # a => at'[b] = "idle") /\ at'[a] = "put"
    BY <1>1, <2>1 DEF HInv, HTypeOK
  <2>3. OneAtWork' /\ ListedOnce'
    BY <1>1, <1>5, <2>2 DEF HInv, OneAtWork, ListedOnce
  <2>4. /\ (H!Listed(d))' = H!Listed(d)
        /\ found'[a] = IF H!Listed(d) = {} THEN 0 ELSE H!Least(H!Listed(d))
    BY <1>1 DEF HInv, HTypeOK, H!Listed
  <2>5. IF found'[a] = 0 THEN (H!Listed(d))' = {} ELSE found'[a] \in (H!Listed(d))'
    BY <1>2, <1>3, <2>4
  <2>6. FoundStands'
    BY <1>1, <2>2, <2>5 DEF FoundStands
  <2> QED
    BY <2>3, <2>6
<1>6. overlap \in BOOLEAN
  BY DEF HInv, HTypeOK
<1> QED
  BY <1>1, <1>4, <1>5, <1>6 DEF HInv

\* Each step of an administrator's request.
LEMMA AdminStep ==
    ASSUME HInv, NEW a \in Admins, H!Admin(a) PROVE HInv'
<1> USE DEF HPlaces
<1>1. CASE H!Load(a)
  BY <1>1, BeginStep DEF H!Load
<1>2. CASE H!DelAll(a)
  BY <1>2, BeginStep DEF H!DelAll
<1>3. CASE H!AddQuery(a)
  BY <1>3, AddQueryStep
<1>4. CASE H!AddPut(a)
  <2>1. at[a] = "put" /\ DOMAIN hosts' \subseteq HostKeys /\ (~overlap => ListedOnce')
    BY <1>4, PutListsOnce DEF H!AddPut
  <2>2. PICK to \in {"query", "loaded"} : at' = [at EXCEPT ![a] = to]
    BY <1>4 DEF H!AddPut, H!Advance
  <2> QED
    BY <1>4, <2>1, <2>2, HandlerStep DEF H!AddPut, H!Advance
<1>5. CASE H!AddDisabled(a)
  <2>1. PICK to \in {"query", "loaded"} : at' = [at EXCEPT ![a] = to]
    BY <1>5 DEF H!AddDisabled, H!Advance
  <2>2. at[a] = "put" /\ DOMAIN hosts' \subseteq HostKeys /\ (~overlap => ListedOnce')
    BY <1>5 DEF H!AddDisabled, HInv, HTypeOK, ListedOnce
  <2> QED
    BY <1>5, <2>1, <2>2, HandlerStep DEF H!AddDisabled, H!Advance
<1>6. CASE H!Delete(a)
  <2>1. PICK to \in {"delete", "emptied"} : at' = [at EXCEPT ![a] = to]
    BY <1>6 DEF H!Delete, H!Advance
  <2>2. at[a] = "delete" /\ DOMAIN hosts' \subseteq HostKeys /\ (~overlap => ListedOnce')
    BY <1>6 DEF H!Delete, HInv, HTypeOK, ListedOnce
  <2> QED
    BY <1>6, <2>1, <2>2, HandlerStep DEF H!Delete, H!Advance
<1>7. CASE H!Raises(a) \/ H!Count(a)
  <2>1. at[a] # "idle" /\ DOMAIN hosts' \subseteq HostKeys /\ (~overlap => ListedOnce') /\ H!Over(a)
    BY <1>7 DEF H!Raises, H!Count, HInv, HTypeOK, ListedOnce
  <2> QED
    BY <2>1, HandlerStep DEF H!Over
<1>8. CASE H!PutRaises(a)
  <2>1. at[a] = "put" /\ DOMAIN hosts' \subseteq HostKeys /\ (~overlap => ListedOnce')
    BY <1>8, PutListsOnce DEF H!PutRaises
  <2> QED
    BY <1>8, <2>1, HandlerStep DEF H!PutRaises, H!Over
<1> QED
  BY <1>1, <1>2, <1>3, <1>4, <1>5, <1>6, <1>7, <1>8 DEF H!Admin

\* The invariant of the hosts list, in the whole application.
THEOREM HostsInvariance == SSpec => []HInv
<1>1. SInit => HInv
  BY DEF SInit, H!Init, HInv, HTypeOK, HPlaces, OneAtWork, ListedOnce, FoundStands
<1>2. HInv /\ [SNext]_<<part, vars, hostVars>> => HInv'
  <2> SUFFICES ASSUME HInv, [SNext]_<<part, vars, hostVars>> PROVE HInv'
    OBVIOUS
  <2>1. CASE H!Next
    BY <2>1, AdminStep DEF H!Next
  <2>2. CASE UNCHANGED hostVars
    BY <2>2 DEF hostVars, HInv, HTypeOK, OneAtWork, ListedOnce, FoundStands, H!Listed
  <2> QED
    BY <2>1, <2>2 DEF SNext
<1> QED
  BY <1>1, <1>2, PTL DEF SSpec

\* A domain comes to have two entities only when administrators' requests overlap: between
\* the query and the put of add_host (dnshosts.py), nothing else may add or delete it.
THEOREM ListedTwice == SSpec => []TwiceOnlyIfOverlapped
<1>1. HInv => TwiceOnlyIfOverlapped
  BY DEF HInv, ListedOnce, TwiceOnlyIfOverlapped
<1> QED
  BY <1>1, HostsInvariance, PTL

-----------------------------------------------------------------------------
(* What a request that runs alone leaves                                   *)

\* F is the first n rows of s, flattened; row says which row each element is from.
IsRowMap(s, n, F, row) ==
    /\ row \in [1..Len(F) -> 1..n]
    /\ \A j, k \in 1..Len(F) : j <= k => row[j] <= row[k]
    /\ \A k \in 1..Len(F) : \E m \in 1..Len(s[row[k]]) : F[k] = s[row[k]][m]
    /\ \A i \in 1..n : \A m \in 1..Len(s[i]) :
          \E k \in 1..Len(F) : row[k] = i /\ F[k] = s[i][m]

\* One more row.
LEMMA RowMapNext ==
    ASSUME NEW T, NEW s, NEW n \in Nat, NEW F \in Seq(T), s[n + 1] \in Seq(T),
           NEW row, IsRowMap(s, n, F, row)
    PROVE  \E r : IsRowMap(s, n + 1, F \o s[n + 1], r)
<1> DEFINE t == s[n + 1]
           L == Len(F)
           G == F \o t
           r == [k \in 1..Len(G) |-> IF k <= L THEN row[k] ELSE n + 1]
<1>1. /\ L \in Nat /\ Len(t) \in Nat /\ Len(G) = L + Len(t)
      /\ \A k \in 1..L : G[k] = F[k]
      /\ \A k \in 1..Len(t) : G[L + k] = t[k]
  OBVIOUS
<1>2. \A k \in 1..L : row[k] \in 1..n
  BY DEF IsRowMap
<1> HIDE DEF t, L, G
<1>3. r \in [1..Len(G) -> 1..(n + 1)]
  BY <1>1, <1>2
<1>4. \A j, k \in 1..Len(G) : j <= k => r[j] <= r[k]
  BY <1>1, <1>2 DEF IsRowMap, L
<1>5. ASSUME NEW k \in 1..Len(G) PROVE \E m \in 1..Len(s[r[k]]) : G[k] = s[r[k]][m]
  <2>1. CASE k <= L
    <3>1. k \in 1..L
      BY <1>1, <2>1
    <3>2. PICK m \in 1..Len(s[row[k]]) : F[k] = s[row[k]][m]
      BY <3>1 DEF IsRowMap, L
    <3>3. r[k] = row[k] /\ G[k] = F[k]
      BY <1>1, <1>2, <2>1, <3>1
    <3> QED
      BY <3>2, <3>3
  <2>2. CASE ~(k <= L)
    <3>1. k - L \in 1..Len(t) /\ k = L + (k - L)
      BY <1>1, <2>2
    <3>2. G[k] = t[k - L] /\ r[k] = n + 1
      BY <1>1, <2>2, <3>1
    <3> QED
      BY <3>1, <3>2 DEF t
  <2> QED
    BY <2>1, <2>2
<1>6. ASSUME NEW i \in 1..(n + 1), NEW m \in 1..Len(s[i])
      PROVE  \E k \in 1..Len(G) : r[k] = i /\ G[k] = s[i][m]
  <2>1. CASE i <= n
    <3>1. i \in 1..n
      BY <2>1
    <3>2. PICK k \in 1..L : row[k] = i /\ F[k] = s[i][m]
      BY <3>1 DEF IsRowMap, L
    <3>3. k \in 1..Len(G) /\ r[k] = i /\ G[k] = F[k]
      BY <1>1, <3>2
    <3> QED
      BY <3>2, <3>3
  <2>2. CASE ~(i <= n)
    <3>1. i = n + 1 /\ m \in 1..Len(t)
      BY <2>2 DEF t
    <3>2. L + m \in 1..Len(G) /\ r[L + m] = i /\ G[L + m] = t[m]
      BY <1>1, <3>1
    <3> QED
      BY <3>1, <3>2 DEF t
  <2> QED
    BY <2>1, <2>2
<1>7. IsRowMap(s, n + 1, G, r)
  BY <1>3, <1>4, <1>5, <1>6 DEF IsRowMap
<1> QED
  BY <1>7 DEF G, t

\* The elements of the flattened sequence are those of its rows, in their order.
LEMMA Flattened ==
    ASSUME NEW T, NEW s \in Seq(Seq(T))
    PROVE  H!FlattenSeq(s) \in Seq(T) /\ \E row : IsRowMap(s, Len(s), H!FlattenSeq(s), row)
<1> DEFINE n == Len(s)
<1>0. n \in Nat /\ \A i \in 1..n : s[i] \in Seq(T)
  OBVIOUS
<1>1. CASE n = 0
  <2>1. s = <<>> /\ H!FlattenSeq(s) = s
    BY <1>1 DEF H!FlattenSeq
  <2>2. <<>> \in Seq(T) /\ Len(<<>>) = 0
    OBVIOUS
  <2>3. IsRowMap(s, 0, <<>>, <<>>)
    BY <2>2 DEF IsRowMap
  <2> QED
    BY <2>1, <2>2, <2>3
<1>2. CASE n # 0
  <2> DEFINE step == [p \in Nat \X Seq(T) |-> IF p[1] < n THEN p[2] \o s[p[1] + 1] ELSE p[2]]
  <2>1. step \in [Nat \X Seq(T) -> Seq(T)] /\ <<>> \in Seq(T)
    <3>1. ASSUME NEW p \in Nat \X Seq(T), p[1] < n PROVE p[2] \o s[p[1] + 1] \in Seq(T)
      <4>1. p[1] + 1 \in 1..n
        BY <3>1
      <4>2. s[p[1] + 1] \in Seq(T)
        BY <4>1
      <4> QED
        BY <4>2
    <3> QED
      BY <3>1
  <2> HIDE DEF step, n
  <2>2. PICK f \in [Nat -> Seq(T)] : f[0] = <<>> /\ \A k \in Nat : f[k + 1] = step[<<k, f[k]>>]
    <3> DEFINE V == Seq(T)
               v0 == <<>>
    <3>1. v0 \in V /\ step \in Steps(V)
      BY <2>1 DEF Steps
    <3> HIDE DEF V, v0
    <3>2. \E f \in [Nat -> V] : f[0] = v0 /\ \A k \in Nat : f[k + 1] = step[<<k, f[k]>>]
      BY <3>1, Recursion
    <3> QED
      BY <3>2 DEF V, v0
  <2>3. ASSUME NEW k \in 0..(n - 1) PROVE f[k + 1] = f[k] \o s[k + 1]
    <3>1. k \in Nat /\ k < n
      BY <1>0
    <3>2. f[k + 1] = step[<<k, f[k]>>] /\ <<k, f[k]>> \in Nat \X Seq(T)
      BY <2>2, <3>1
    <3> QED
      BY <3>1, <3>2 DEF step
  <2> DEFINE Eq(g) == g = [i \in 1..n |-> IF i = 1 THEN s[i] ELSE g[i - 1] \o s[i]]
             g0 == [i \in 1..n |-> f[i]]
  <2>4. Eq(g0)
    <3>1. ASSUME NEW i \in 1..n PROVE g0[i] = IF i = 1 THEN s[i] ELSE g0[i - 1] \o s[i]
      <4>0. i - 1 \in 0..(n - 1) /\ (i - 1) + 1 = i
        BY <1>0
      <4>1. f[i] = f[i - 1] \o s[i] /\ s[i] \in Seq(T)
        BY <1>0, <2>3, <4>0
      <4>2. CASE i = 1
        <5>1. f[1] = <<>> \o s[1] /\ s[1] \in Seq(T)
          BY <2>2, <4>1, <4>2, 1 - 1 = 0
        <5>2. <<>> \o s[1] = s[1]
          BY <5>1
        <5> QED
          BY <4>2, <5>1, <5>2
      <4>3. CASE i # 1
        <5>1. i - 1 \in 1..n /\ g0[i - 1] = f[i - 1]
          BY <1>0, <4>3
        <5> QED
          BY <4>1, <4>3, <5>1
      <4> QED
        BY <4>2, <4>3
    <3> QED
      BY <3>1
  <2> DEFINE g == CHOOSE h : Eq(h)
  <2>5. Eq(g)
    <3> HIDE DEF Eq, g0
    <3> QED
      BY <2>4
  <2>6. H!FlattenSeq(s) = g[n]
    BY <1>2 DEF H!FlattenSeq, n
  <2> HIDE DEF g
  <2>7. g[1] = s[1] /\ \A k \in 1..(n - 1) : g[k + 1] = g[k] \o s[k + 1]
    <3>1. 1 \in 1..n /\ \A k \in 1..(n - 1) : k + 1 \in 1..n /\ k + 1 # 1 /\ (k + 1) - 1 = k
      BY <1>0, <1>2
    <3>2. ASSUME NEW i \in 1..n PROVE g[i] = IF i = 1 THEN s[i] ELSE g[i - 1] \o s[i]
      BY <2>5
    <3>3. g[1] = s[1]
      BY <3>1, <3>2
    <3>4. ASSUME NEW k \in 1..(n - 1) PROVE g[k + 1] = g[k] \o s[k + 1]
      <4>1. k + 1 \in 1..n /\ k + 1 # 1 /\ (k + 1) - 1 = k
        BY <3>1
      <4>2. g[k + 1] = g[(k + 1) - 1] \o s[k + 1]
        BY <3>2, <4>1
      <4> QED
        BY <4>1, <4>2
    <3> QED
      BY <3>3, <3>4
  <2> DEFINE Done(k) == g[k] \in Seq(T) /\ \E row : IsRowMap(s, k, g[k], row)
             P == {k \in Nat : k + 1 <= n => Done(k + 1)}
  <2>8. Done(1)
    <3>0. 1 \in 1..n /\ s[1] \in Seq(T)
      BY <1>0, <1>2
    <3>a. g[1] = <<>> \o s[1]
      <4>1. <<>> \o s[1] = s[1]
        BY <3>0
      <4> QED
        BY <2>7, <4>1
    <3>1. <<>> \in Seq(T) /\ Len(<<>>) = 0
      OBVIOUS
    <3>2. IsRowMap(s, 0, <<>>, <<>>)
      BY <3>1 DEF IsRowMap
    <3>3. s[0 + 1] \in Seq(T) /\ 0 + 1 = 1
      BY <3>0
    <3>4. \E r : IsRowMap(s, 0 + 1, <<>> \o s[0 + 1], r)
      <4> DEFINE F == <<>>
      <4>1. F \in Seq(T) /\ IsRowMap(s, 0, F, <<>>) /\ 0 \in Nat
        BY <3>1, <3>2
      <4> HIDE DEF F
      <4>2. \E r : IsRowMap(s, 0 + 1, F \o s[0 + 1], r)
        BY <3>3, <4>1, RowMapNext
      <4> QED
        BY <4>2 DEF F
    <3>5. g[1] \in Seq(T)
      BY <2>7, <3>0
    <3> QED
      BY <3>a, <3>3, <3>4, <3>5
  <2>9. ASSUME NEW k \in 1..(n - 1), Done(k) PROVE Done(k + 1)
    <3>0. k \in Nat /\ k + 1 \in 1..n /\ k <= Len(s)
      BY <1>0 DEF n
    <3>1. s[k + 1] \in Seq(T)
      BY <1>0, <3>0
    <3>2. PICK row : IsRowMap(s, k, g[k], row)
      BY <2>9
    <3>3. \E r : IsRowMap(s, k + 1, g[k] \o s[k + 1], r)
      BY <2>9, <3>0, <3>1, <3>2, RowMapNext
    <3>4. g[k] \o s[k + 1] \in Seq(T)
      BY <2>9, <3>1
    <3> QED
      BY <2>7, <3>3, <3>4
  <2> HIDE DEF Done
  <2>10. 0 \in P
    BY <2>8
  <2>11. ASSUME NEW k \in Nat, k \in P PROVE k + 1 \in P
    <3>1. (k + 1) + 1 <= n => k + 1 \in 1..(n - 1) /\ k + 1 <= n
      BY <1>0
    <3> QED
      BY <2>9, <2>11, <3>1
  <2>12. Nat \subseteq P
    <3> HIDE DEF P
    <3> QED
      BY <2>10, <2>11, AllNat
  <2>13. Done(n)
    <3>1. n - 1 \in Nat /\ (n - 1) + 1 = n
      BY <1>0, <1>2
    <3>2. n - 1 \in P
      BY <2>12, <3>1
    <3> QED
      BY <3>1, <3>2
  <2> QED
    BY <2>6, <2>13 DEF Done, n
<1> QED
  BY <1>1, <1>2

\* The hosts F are those of the lines of a page, in their order; row says which line each
\* is from.
FromLines(F, page, row) ==
    LET Rows == {n \in DOMAIN page : page[n].ip # Localhost}
    IN  /\ \A k \in 1..Len(F) :
             /\ row[k] \in Rows /\ F[k].ip = page[row[k]].ip
             /\ F[k].domain \in Names(page[row[k]])
        /\ \A j, k \in 1..Len(F) : j <= k => row[j] <= row[k]
        /\ \A n \in Rows : \A d \in Names(page[n]) :
             \E k \in 1..Len(F) : row[k] = n /\ F[k].domain = d

\* What is parsed from a page.
LEMMA Parsed ==
    ASSUME NEW page \in Pages
    PROVE  /\ \E T : H!Parse(page) \in Seq(T)
           /\ \E row : FromLines(H!Parse(page), page, row)
<1> DEFINE F == H!Parse(page)
           Rows == {n \in DOMAIN page : page[n].ip # Localhost}
           T == [ip : {page[n].ip : n \in DOMAIN page},
                 domain : UNION {Names(page[n]) : n \in DOMAIN page}]
           Of(n) == [m \in DOMAIN page[n].doms |->
                       [ip |-> page[n].ip, domain |-> page[n].doms[m]]]
           s == [n \in DOMAIN page |-> IF page[n].ip = Localhost THEN <<>> ELSE Of(n)]
<1>1. Len(page) \in Nat /\ DOMAIN page = 1..Len(page)
  BY PagesAssumption
<1>2. ASSUME NEW n \in DOMAIN page
      PROVE  Len(page[n].doms) \in Nat /\ DOMAIN page[n].doms = 1..Len(page[n].doms)
  BY PagesAssumption
<1>3. ASSUME NEW n \in DOMAIN page PROVE s[n] \in Seq(T)
  <2>1. ASSUME NEW m \in DOMAIN page[n].doms
        PROVE  [ip |-> page[n].ip, domain |-> page[n].doms[m]] \in T
    BY DEF Names
  <2>2. Of(n) \in Seq(T)
    <3> HIDE DEF T
    <3> QED
      BY <1>2, <2>1
  <2> HIDE DEF T, Of
  <2> QED
    BY <2>2
<1>4. s \in Seq(Seq(T)) /\ Len(s) = Len(page)
  <2> DEFINE V == Seq(T)
  <2>1. \A n \in DOMAIN page : s[n] \in V
    BY <1>3
  <2> HIDE DEF T, V
  <2>2. s \in Seq(V) /\ Len(s) = Len(page)
    BY <1>1, <2>1
  <2> QED
    BY <2>2 DEF V
<1>5. F = H!FlattenSeq(s)
  BY DEF H!Parse
<1>6. \A n \in Rows : Len(s[n]) = Len(page[n].doms) /\ \A m \in 1..Len(page[n].doms) :
         s[n][m] = [ip |-> page[n].ip, domain |-> page[n].doms[m]]
  BY <1>2
<1>7. \A n \in DOMAIN page : n \notin Rows => s[n] = <<>>
  OBVIOUS
<1> HIDE DEF T, s, F
<1>8. F \in Seq(T) /\ \E row : IsRowMap(s, Len(s), F, row)
  BY <1>4, <1>5, Flattened
<1>9. PICK row : IsRowMap(s, Len(page), F, row)
  BY <1>4, <1>8
<1>10. ASSUME NEW k \in 1..Len(F)
       PROVE  /\ row[k] \in Rows /\ F[k].ip = page[row[k]].ip
              /\ F[k].domain \in Names(page[row[k]])
  <2>1. row[k] \in DOMAIN page
    BY <1>1, <1>9 DEF IsRowMap
  <2>2. PICK m \in 1..Len(s[row[k]]) : F[k] = s[row[k]][m]
    BY <1>9 DEF IsRowMap
  <2>3. row[k] \in Rows
    <3> HIDE DEF Rows
    <3> QED
      BY <1>7, <2>1, <2>2
  <2>4. m \in DOMAIN page[row[k]].doms
    BY <1>2, <1>6, <2>2, <2>3
  <2>5. F[k] = [ip |-> page[row[k]].ip, domain |-> page[row[k]].doms[m]]
    BY <1>6, <2>2, <2>3
  <2> QED
    BY <2>3, <2>4, <2>5 DEF Names
<1>11. ASSUME NEW n \in Rows, NEW d \in Names(page[n])
       PROVE  \E k \in 1..Len(F) : row[k] = n /\ F[k].domain = d
  <2>1. PICK m \in DOMAIN page[n].doms : d = page[n].doms[m]
    BY DEF Names
  <2>2. n \in 1..Len(page) /\ m \in 1..Len(s[n])
    BY <1>1, <1>2, <1>6
  <2>3. PICK k \in 1..Len(F) : row[k] = n /\ F[k] = s[n][m]
    BY <1>9, <2>2 DEF IsRowMap
  <2>4. s[n][m] = [ip |-> page[n].ip, domain |-> page[n].doms[m]]
    BY <1>2, <1>6
  <2> QED
    BY <2>1, <2>3, <2>4
<1>12. \A j, k \in 1..Len(F) : j <= k => row[j] <= row[k]
  BY <1>9 DEF IsRowMap
<1>13. FromLines(F, page, row)
  BY <1>10, <1>11, <1>12 DEF FromLines
<1> QED
  BY <1>8, <1>13 DEF F

\* The keys of a delall are all that are listed.
LEMMA KeysQueried ==
    ASSUME NEW S, IsFiniteSet(S)
    PROVE  /\ H!SetToSeq(S) \in Seq(S)
           /\ \A k \in S : \E i \in 1..Len(H!SetToSeq(S)) : H!SetToSeq(S)[i] = k
<1> DEFINE n == Cardinality(S)
           f == H!SetToSeq(S)
<1>1. n \in Nat /\ ExistsBijection(1..n, S)
  BY FS_CardinalityType
<1>2. \E g \in [1..n -> S] : H!IsInjective(g)
  BY <1>1 DEF ExistsBijection, Bijection, Injection, H!IsInjective, IsInjective
<1>3. f \in [1..n -> S] /\ H!IsInjective(f)
  <2>1. H!Cardinality(S) = Cardinality(S)
    BY DEF H!Cardinality, Cardinality
  <2> QED
    BY <1>2, <2>1 DEF H!SetToSeq
<1> HIDE DEF n, f
<1>4. f \in Injection(1..n, S)
  BY <1>3 DEF Injection, H!IsInjective, IsInjective
<1>5. IsFiniteSet(1..n) /\ Cardinality(1..n) = n
  BY <1>1, FS_Interval
<1>6. f \in Surjection(1..n, S)
  BY <1>4, <1>5, FS_Injection DEF n
<1>7. f \in Seq(S) /\ Len(f) = n
  BY <1>1, <1>3
<1>8. \A k \in S : \E i \in 1..Len(f) : f[i] = k
  BY <1>6, <1>7 DEF Surjection
<1> QED
  BY <1>7, <1>8 DEF f

\* Lookup and the query of add_host, of any list.
ListedIn(hs, d) == {k \in DOMAIN hs : hs[k].domain = d}
LookupIn(hs, d) ==
    IF ListedIn(hs, d) = {} THEN CANT_RESOLVE ELSE hs[H!Least(ListedIn(hs, d))].ip

\* The first n hosts of F are looked up as the last of their domain among them.
ExactUpTo(hs, F, n) ==
    \A k \in 1..n : (\A j \in (k + 1)..n : F[j].domain # F[k].domain) =>
        LookupIn(hs, F[k].domain) = F[k].ip

\* A load of F has some of the hosts in the list, and those of `list' yet to do.
Loading(hs, place, list, F) ==
    \E n \in 0..Len(F) :
        /\ ExactUpTo(hs, F, n)
        /\ Len(list) = Len(F) - n /\ \A i \in 1..Len(list) : list[i] = F[n + i]
        /\ IF place = "loaded" THEN n = Len(F) ELSE n < Len(F)

\* What a request that runs alone has done so far.
SoFar(a) ==
    /\ \A b \in Admins : b # a => at[b] = "idle"
    /\ at[a] \in {"query", "put", "loaded"} =>
         asked[a] \in Pages /\ Loading(hosts, at[a], todo[a], H!Parse(asked[a]))
    /\ at[a] = "put" =>
         LET L == ListedIn(hosts, Head(todo[a]).domain)
         IN  found[a] = IF L = {} THEN 0 ELSE H!Least(L)
    /\ at[a] = "delete" => \A k \in DOMAIN hosts : \E i \in 1..Len(todo[a]) : todo[a][i] = k
    /\ at[a] = "emptied" => DOMAIN hosts = {}

TodoOK ==
    /\ todo = [a \in Admins |-> todo[a]] /\ asked = [a \in Admins |-> asked[a]]
    /\ alone \in [Admins -> BOOLEAN]
    /\ \A a \in Admins : \E T : todo[a] \in Seq(T)
    /\ \A a \in Admins : at[a] \in {"query", "put", "delete"} => todo[a] # <<>>
    /\ IsFiniteSet(DOMAIN hosts)

AInv == TodoOK /\ \A a \in Admins : alone[a] /\ at[a] # "idle" => SoFar(a)

\* The entity k of hs that a put of a host of d goes to, and the list after it.
Slot(hs, d, k) ==
    LET L == ListedIn(hs, d)
    IN  IF L = {} THEN k \notin DOMAIN hs ELSE k = H!Least(L)
Stored(hs, k, h) == [l \in DOMAIN hs \cup {k} |-> IF l = k THEN h ELSE hs[l]]

\* A put changes what its domain is looked up as, and no other.
LEMMA PutLooksUp ==
    ASSUME NEW hs, NEW h, NEW k, NEW new,
           DOMAIN hs \subseteq HostKeys, Slot(hs, h.domain, k), new = Stored(hs, k, h)
    PROVE  /\ LookupIn(new, h.domain) = h.ip
           /\ \A d : d # h.domain => LookupIn(new, d) = LookupIn(hs, d)
<1> USE DEF Slot, Stored
<1> DEFINE L == ListedIn(hs, h.domain)
<1>1. \A S \in SUBSET HostKeys : S # {} => H!Least(S) \in S
  BY HostsAssumption, LeastExists DEF H!Least
<1>2. L \subseteq HostKeys
  BY DEF ListedIn
<1>3. L # {} => k \in L
  BY <1>1, <1>2
<1>4. ListedIn(new, h.domain) = L \cup {k}
  BY <1>3 DEF ListedIn
<1>5. LookupIn(new, h.domain) = h.ip
  <2>1. H!Least({k}) = k
    <3>1. CASE L = {}
      BY DEF H!Least
    <3> QED
      BY DEF H!Least
  <2>2. H!Least(L \cup {k}) = k
    <3>1. CASE L = {}
      <4>1. L \cup {k} = {k}
        BY <3>1
      <4> QED
        BY <2>1, <4>1
    <3>2. CASE L # {}
      <4>1. L \cup {k} = L
        BY <1>3, <3>2
      <4> QED
        BY <3>2, <4>1
    <3> QED
      BY <3>1, <3>2
  <2>3. new[k] = h
    OBVIOUS
  <2> HIDE DEF L
  <2> QED
    BY <1>4, <2>2, <2>3 DEF LookupIn
<1>6. ASSUME NEW d, d # h.domain PROVE LookupIn(new, d) = LookupIn(hs, d)
  <2>1. ListedIn(new, d) = ListedIn(hs, d) /\ k \notin ListedIn(hs, d)
    BY <1>3, <1>6 DEF ListedIn
  <2>2. ListedIn(hs, d) # {} => H!Least(ListedIn(hs, d)) \in ListedIn(hs, d)
    BY <1>1 DEF ListedIn
  <2>3. \A l \in ListedIn(hs, d) : new[l] = hs[l]
    BY <2>1 DEF ListedIn
  <2> QED
    BY <2>1, <2>2, <2>3 DEF LookupIn
<1> QED
  BY <1>5, <1>6

\* A put of the next host of a load.
LEMMA PutLoads ==
    ASSUME NEW T, NEW F \in Seq(T), NEW U, NEW list \in Seq(U), list # <<>>,
           NEW hs, NEW k, NEW new,
           Loading(hs, "put", list, F),
           DOMAIN hs \subseteq HostKeys, Slot(hs, Head(list).domain, k),
           new = Stored(hs, k, Head(list))
    PROVE  Loading(new, IF Len(list) = 1 THEN "loaded" ELSE "query", Tail(list), F)
<1>1. PICK n \in 0..Len(F) :
        /\ ExactUpTo(hs, F, n) /\ n < Len(F)
        /\ Len(list) = Len(F) - n /\ \A i \in 1..Len(list) : list[i] = F[n + i]
  BY DEF Loading
<1>2. Len(F) \in Nat /\ n + 1 \in 0..Len(F) /\ 1 \in 1..Len(list)
  BY <1>1
<1> DEFINE h == Head(list)
<1>3. h = F[n + 1]
  BY <1>1, <1>2
<1>4. /\ LookupIn(new, h.domain) = h.ip
      /\ \A d : d # h.domain => LookupIn(new, d) = LookupIn(hs, d)
  <2>1. new = Stored(hs, k, h) /\ Slot(hs, h.domain, k)
    OBVIOUS
  <2> HIDE DEF h
  <2> QED
    BY <2>1, PutLooksUp
<1>5. ExactUpTo(new, F, n + 1)
  <2> SUFFICES ASSUME NEW m \in 1..(n + 1),
                      \A j \in (m + 1)..(n + 1) : F[j].domain # F[m].domain
               PROVE  LookupIn(new, F[m].domain) = F[m].ip
    BY DEF ExactUpTo
  <2>1. CASE m = n + 1
    BY <1>3, <1>4, <2>1
  <2>2. CASE m # n + 1
    <3>1. m \in 1..n /\ n + 1 \in (m + 1)..(n + 1)
      BY <1>1, <2>2
    <3>2. F[m].domain # h.domain /\ \A j \in (m + 1)..n : F[j].domain # F[m].domain
      BY <1>1, <1>3, <3>1
    <3>3. LookupIn(hs, F[m].domain) = F[m].ip
      BY <1>1, <3>1, <3>2 DEF ExactUpTo
    <3> QED
      BY <1>4, <3>2, <3>3
  <2> QED
    BY <2>1, <2>2
<1>6. Len(Tail(list)) = Len(F) - (n + 1)
  BY <1>1
<1>7. ASSUME NEW i \in 1..Len(Tail(list)) PROVE Tail(list)[i] = F[(n + 1) + i]
  <2>1. i + 1 \in 1..Len(list) /\ n + (i + 1) = (n + 1) + i /\ Tail(list)[i] = list[i + 1]
    BY <1>1, <1>6
  <2> QED
    BY <1>1, <2>1
<1>8. IF Len(list) = 1 THEN n + 1 = Len(F) ELSE n + 1 < Len(F)
  BY <1>1
<1> QED
  BY <1>2, <1>5, <1>6, <1>7, <1>8 DEF Loading

\* The list of a request and its place agree in each step.
LEMMA TodoStep ==
    ASSUME HTypeOK, TodoOK, NEW a \in Admins, NEW T, NEW list \in Seq(T), NEW to, NEW page,
           at' = [at EXCEPT ![a] = to], todo' = [todo EXCEPT ![a] = list],
           asked' = [asked EXCEPT ![a] = page], alone' \in [Admins -> BOOLEAN],
           to \in {"query", "put", "delete"} => list # <<>>,
           IsFiniteSet(DOMAIN hosts')
    PROVE  TodoOK'
<1>1. /\ at'[a] = to /\ todo'[a] = list
      /\ \A b \in Admins : b # a => at'[b] = at[b] /\ todo'[b] = todo[b]
  BY DEF HTypeOK, TodoOK
<1>2. todo' = [b \in Admins |-> todo'[b]] /\ asked' = [b \in Admins |-> asked'[b]]
  BY DEF TodoOK
<1>3. ASSUME NEW b \in Admins PROVE \E U : todo'[b] \in Seq(U)
  BY <1>1 DEF TodoOK
<1>4. ASSUME NEW b \in Admins, at'[b] \in {"query", "put", "delete"} PROVE todo'[b] # <<>>
  BY <1>1, <1>4 DEF TodoOK
<1> QED
  BY <1>2, <1>3, <1>4 DEF TodoOK

\* A step of a handler that is not idle, or that nobody else who is alone is at work besides,
\* concerns it alone.
LEMMA AloneStep ==
    ASSUME AInv, TodoOK', NEW a \in Admins,
           \A b \in Admins : b # a => at'[b] = at[b] /\ (alone'[b] => alone[b]),
           \/ at[a] # "idle"
           \/ \A b \in Admins : b # a /\ alone'[b] => at[b] = "idle",
           alone'[a] /\ at'[a] # "idle" => SoFar(a)'
    PROVE  AInv'
<1>1. ASSUME NEW b \in Admins, b # a, alone'[b], at'[b] # "idle" PROVE FALSE
  <2>1. alone[b] /\ at[b] # "idle"
    BY <1>1
  <2>2. at[a] = "idle"
    BY <1>1, <2>1 DEF AInv, SoFar
  <2> QED
    BY <1>1, <2>1, <2>2
<1>2. \A b \in Admins : alone'[b] /\ at'[b] # "idle" => SoFar(b)'
  BY <1>1
<1> QED
  BY <1>2 DEF AInv

\* A handler begins.
LEMMA BeginAlone ==
    ASSUME HTypeOK, AInv, NEW a \in Admins, NEW T, NEW list \in Seq(T), NEW page,
           NEW place \in HPlaces, NEW end \in {"loaded", "emptied"},
           H!Begin(a, list, page, place, end),
           (\A b \in Admins : b # a => at'[b] = "idle") /\ todo'[a] = list /\ asked'[a] = page
              /\ at'[a] = (IF list = <<>> THEN end ELSE place) => SoFar(a)'
    PROVE  AInv'
<1>1. /\ at[a] = "idle" /\ hosts' = hosts
      /\ at' = [at EXCEPT ![a] = IF list = <<>> THEN end ELSE place]
      /\ todo' = [todo EXCEPT ![a] = list] /\ asked' = [asked EXCEPT ![a] = page]
      /\ alone' = [b \in Admins |-> IF b = a THEN \A c \in Admins : at[c] = "idle"
                                    ELSE at[b] = "idle"]
  BY DEF H!Begin
<1>2. alone' \in [Admins -> BOOLEAN]
  BY <1>1
<1>3. TodoOK'
  <2>1. IsFiniteSet(DOMAIN hosts')
    BY <1>1 DEF AInv, TodoOK
  <2>2. PICK to : to = IF list = <<>> THEN end ELSE place
    OBVIOUS
  <2>3. to \in {"query", "put", "delete"} => list # <<>>
    BY <2>2
  <2>4. at' = [at EXCEPT ![a] = to]
    BY <1>1, <2>2
  <2> QED
    BY <1>1, <1>2, <2>1, <2>3, <2>4, TodoStep DEF AInv
<1>4. \A b \in Admins : b # a => at'[b] = at[b] /\ (alone'[b] => at[b] = "idle")
  BY <1>1 DEF HTypeOK
<1>5. ASSUME NEW b \in Admins, b # a, alone'[b] PROVE alone[b] \/ at'[b] = "idle"
  BY <1>4, <1>5
<1>6. ASSUME alone'[a] PROVE SoFar(a)'
  <2>1. \A b \in Admins : at[b] = "idle"
    BY <1>1, <1>6
  <2>2. \A b \in Admins : b # a => at'[b] = "idle"
    BY <1>4, <2>1
  <2>3. todo'[a] = list /\ asked'[a] = page /\ at'[a] = IF list = <<>> THEN end ELSE place
    BY <1>1 DEF AInv, TodoOK, HTypeOK
  <2> QED
    BY <2>2, <2>3
<1>7. \A b \in Admins : b # a /\ alone'[b] => at'[b] = "idle"
  BY <1>4
<1> QED
  BY <1>3, <1>6, <1>7 DEF AInv

\* op=load.
LEMMA LoadAlone ==
    ASSUME HTypeOK, AInv, NEW a \in Admins, H!Load(a) PROVE AInv'
<1>1. PICK page \in Pages : H!Begin(a, H!Parse(page), page, "query", "loaded")
  BY DEF H!Load
<1> DEFINE F == H!Parse(page)
<1>2. PICK T : F \in Seq(T)
  BY Parsed
<1>3. ASSUME \A b \in Admins : b # a => at'[b] = "idle",
             todo'[a] = F, asked'[a] = page, at'[a] = IF F = <<>> THEN "loaded" ELSE "query"
      PROVE  SoFar(a)'
  <2>1. Loading(hosts', at'[a], F, F)
    <3> HIDE DEF F
    <3>1. ExactUpTo(hosts', F, 0)
      BY DEF ExactUpTo
    <3>2. Len(F) \in Nat /\ (F = <<>> <=> Len(F) = 0)
      BY <1>2
    <3>3. /\ 0 \in 0..Len(F) /\ Len(F) = Len(F) - 0 /\ \A i \in 1..Len(F) : F[i] = F[0 + i]
          /\ IF at'[a] = "loaded" THEN 0 = Len(F) ELSE 0 < Len(F)
      BY <1>3, <3>2
    <3> QED
      BY <3>1, <3>3 DEF Loading
  <2>2. at'[a] \in {"query", "loaded"}
    BY <1>3
  <2> HIDE DEF F
  <2>3. H!Parse(asked'[a]) = F
    BY <1>3 DEF F
  <2> QED
    <3>1. /\ \A b \in Admins : b # a => at'[b] = "idle"
          /\ asked'[a] \in Pages
      BY <1>3
    <3>2. Loading(hosts', at'[a], todo'[a], H!Parse(asked'[a]))
      BY <1>3, <2>1, <2>3
    <3>3. at'[a] # "put" /\ at'[a] # "delete" /\ at'[a] # "emptied"
      BY <2>2
    <3> QED
      BY <3>1, <3>2, <3>3 DEF SoFar
<1> QED
  <2>1. H!Begin(a, F, page, "query", "loaded") /\ "query" \in HPlaces
    BY <1>1 DEF HPlaces
  <2> HIDE DEF F
  <2> QED
    BY <1>2, <1>3, <2>1, BeginAlone

\* op=delall.
LEMMA DelAllAlone ==
    ASSUME HTypeOK, AInv, NEW a \in Admins, H!DelAll(a) PROVE AInv'
<1> DEFINE S == DOMAIN hosts
           list == H!SetToSeq(S)
<1>1. IsFiniteSet(S)
  BY DEF AInv, TodoOK
<1>2. list \in Seq(S) /\ \A k \in S : \E i \in 1..Len(list) : list[i] = k
  BY <1>1, KeysQueried
<1>3. H!Begin(a, list, <<>>, "delete", "emptied") /\ "delete" \in HPlaces /\ hosts' = hosts
  BY DEF H!DelAll, H!Begin, HPlaces
<1>4. ASSUME \A b \in Admins : b # a => at'[b] = "idle",
             todo'[a] = list, asked'[a] = <<>>,
             at'[a] = IF list = <<>> THEN "emptied" ELSE "delete"
      PROVE  SoFar(a)'
  <2> HIDE DEF list
  <2>1. list = <<>> => S = {}
    BY <1>2
  <2>2. at'[a] \in {"delete", "emptied"} /\ (at'[a] = "emptied" => list = <<>>)
    BY <1>4
  <2> QED
    BY <1>2, <1>3, <1>4, <2>1, <2>2 DEF SoFar
<1> QED
  <2> HIDE DEF list
  <2> QED
    BY <1>2, <1>3, <1>4, BeginAlone

\* The query of add_host.
LEMMA QueryAlone ==
    ASSUME HTypeOK, AInv, NEW a \in Admins, H!AddQuery(a) PROVE AInv'
<1> DEFINE L == ListedIn(hosts, Head(todo[a]).domain)
<1>1. /\ at[a] = "query" /\ at' = [at EXCEPT ![a] = "put"]
      /\ found' = [found EXCEPT ![a] = IF L = {} THEN 0 ELSE H!Least(L)]
      /\ hosts' = hosts /\ todo' = todo /\ asked' = asked /\ alone' = alone
  BY DEF H!AddQuery, H!Listed, ListedIn
<1>2. at'[a] = "put" /\ \A b \in Admins : b # a => at'[b] = at[b]
  BY <1>1 DEF HTypeOK
<1>3. TodoOK'
  BY <1>1, <1>2 DEF AInv, TodoOK
<1>4. ASSUME alone'[a] PROVE SoFar(a)'
  <2>1. SoFar(a)
    BY <1>1, <1>4 DEF AInv
  <2>2. asked'[a] \in Pages /\ Loading(hosts', at'[a], todo'[a], H!Parse(asked'[a]))
    BY <1>1, <1>2, <2>1 DEF SoFar, Loading
  <2>3. found'[a] = IF L = {} THEN 0 ELSE H!Least(L)
    BY <1>1 DEF HTypeOK
  <2>4. L = ListedIn(hosts', Head(todo'[a]).domain)
    BY <1>1
  <2>5. \A b \in Admins : b # a => at'[b] = "idle"
    BY <1>2, <2>1 DEF SoFar
  <2> HIDE DEF L
  <2> QED
    BY <1>2, <2>2, <2>3, <2>4, <2>5 DEF SoFar
<1>5. \A b \in Admins : b # a => at'[b] = at[b] /\ (alone'[b] => alone[b])
  BY <1>1, <1>2
<1> QED
  BY <1>1, <1>3, <1>4, <1>5, AloneStep

\* The list stays finite.
LEMMA PutFinite ==
    ASSUME HTypeOK, TodoOK, NEW a \in Admins, H!Put(a, H!Entity(a))
    PROVE  /\ IsFiniteSet(DOMAIN hosts')
           /\ \E k \in H!Entity(a) : hosts' = Stored(hosts, k, Head(todo[a]))
<1>1. PICK k \in H!Entity(a) : hosts' = Stored(hosts, k, Head(todo[a]))
  BY DEF H!Put, Stored
<1>2. DOMAIN hosts' = DOMAIN hosts \cup {k}
  BY <1>1 DEF Stored
<1>3. IsFiniteSet(DOMAIN hosts \cup {k})
  BY FS_AddElement DEF TodoOK
<1> QED
  BY <1>1, <1>2, <1>3

\* On to the rest of the list.
LEMMA AdvanceTodo ==
    ASSUME HTypeOK, TodoOK, NEW a \in Admins, NEW place, NEW end \in {"loaded", "emptied"},
           at[a] \in {"put", "delete"}, H!Advance(a, place, end),
           IsFiniteSet(DOMAIN hosts'), alone' \in [Admins -> BOOLEAN]
    PROVE  /\ TodoOK'
           /\ at'[a] = IF Len(todo[a]) = 1 THEN end ELSE place
           /\ todo'[a] = Tail(todo[a])
           /\ \A b \in Admins : b # a => at'[b] = at[b]
<1>1. /\ todo' = [todo EXCEPT ![a] = Tail(@)] /\ asked' = asked
      /\ at' = [at EXCEPT ![a] = IF Len(todo[a]) = 1 THEN end ELSE place]
  BY DEF H!Advance
<1>2. PICK T : todo[a] \in Seq(T)
  BY DEF TodoOK
<1>3. todo[a] # <<>>
  BY DEF TodoOK
<1>4. Tail(todo[a]) \in Seq(T) /\ (Len(todo[a]) # 1 => Tail(todo[a]) # <<>>)
  <2> DEFINE list == todo[a]
  <2>1. list \in Seq(T) /\ list # <<>>
    BY <1>2, <1>3
  <2> HIDE DEF list
  <2>2. Len(list) \in Nat /\ Len(list) # 0
    BY <2>1
  <2>3. Tail(list) \in Seq(T) /\ Len(Tail(list)) = Len(list) - 1
    BY <2>1, <2>2
  <2>4. Len(list) # 1 => Tail(list) # <<>>
    <3>1. ASSUME Len(list) # 1, Tail(list) = <<>> PROVE FALSE
      <4>0. Len(<<>>) = 0
        OBVIOUS
      <4>1. Len(Tail(list)) = 0
        BY <3>1, <4>0, Zenon
      <4> QED
        BY <2>2, <2>3, <3>1, <4>1
    <3> QED
      BY <3>1
  <2> QED
    BY <2>3, <2>4 DEF list
<1>5. PICK to : to = IF Len(todo[a]) = 1 THEN end ELSE place
  OBVIOUS
<1>6. to \in {"query", "put", "delete"} => Tail(todo[a]) # <<>>
  BY <1>4, <1>5
<1>7. /\ at' = [at EXCEPT ![a] = to] /\ todo' = [todo EXCEPT ![a] = Tail(todo[a])]
      /\ asked' = [asked EXCEPT ![a] = asked[a]]
  BY <1>1, <1>5 DEF TodoOK
<1>8. TodoOK'
  BY <1>4, <1>6, <1>7, TodoStep
<1>9. at'[a] = to /\ todo'[a] = Tail(todo[a]) /\ \A b \in Admins : b # a => at'[b] = at[b]
  BY <1>7 DEF HTypeOK, TodoOK
<1> QED
  BY <1>5, <1>8, <1>9

\* The put of add_host.
LEMMA PutAlone ==
    ASSUME HTypeOK, AInv, NEW a \in Admins, H!AddPut(a) PROVE AInv'
<1>1. /\ at[a] = "put" /\ H!Put(a, H!Entity(a)) /\ H!Advance(a, "query", "loaded")
      /\ alone' = alone /\ asked' = asked
  BY DEF H!AddPut, H!Advance
<1>2. PICK k \in H!Entity(a) : hosts' = Stored(hosts, k, Head(todo[a]))
  BY <1>1, PutFinite DEF AInv
<1>3. IsFiniteSet(DOMAIN hosts') /\ alone' \in [Admins -> BOOLEAN]
  BY <1>1, PutFinite DEF AInv, TodoOK
<1>4. /\ TodoOK'
      /\ at'[a] = IF Len(todo[a]) = 1 THEN "loaded" ELSE "query"
      /\ todo'[a] = Tail(todo[a])
      /\ \A b \in Admins : b # a => at'[b] = at[b]
  BY <1>1, <1>3, AdvanceTodo DEF AInv
<1>5. ASSUME alone'[a] PROVE SoFar(a)'
  <2> DEFINE F == H!Parse(asked[a])
             d == Head(todo[a]).domain
  <2>1. SoFar(a)
    BY <1>1, <1>5 DEF AInv
  <2>2. /\ asked[a] \in Pages /\ Loading(hosts, "put", todo[a], F)
        /\ found[a] = IF ListedIn(hosts, d) = {} THEN 0 ELSE H!Least(ListedIn(hosts, d))
    BY <1>1, <2>1 DEF SoFar
  <2>3. Slot(hosts, d, k)
    <3>1. CASE ListedIn(hosts, d) = {}
      <4>1. found[a] = 0
        BY <2>2, <3>1
      <4> QED
        BY <3>1, <4>1 DEF Slot, H!Entity, H!NewKeys
    <3>2. CASE ListedIn(hosts, d) # {}
      <4>1. ListedIn(hosts, d) \in SUBSET HostKeys
        BY DEF ListedIn, HTypeOK
      <4>2. H!Least(ListedIn(hosts, d)) \in HostKeys /\ 0 \notin HostKeys
        BY <3>2, <4>1, HostsAssumption, LeastExists DEF H!Least
      <4>3. found[a] # 0
        BY <2>2, <3>2, <4>2
      <4>4. k = found[a]
        BY <1>2, <4>3 DEF H!Entity
      <4> QED
        BY <2>2, <3>2, <4>4 DEF Slot
    <3> QED
      BY <3>1, <3>2
  <2>4. PICK T : F \in Seq(T)
    BY <2>2, Parsed
  <2>5. PICK U : todo[a] \in Seq(U)
    BY DEF AInv, TodoOK
  <2>6. todo[a] # <<>> /\ DOMAIN hosts \subseteq HostKeys
    BY <1>1 DEF AInv, TodoOK, HTypeOK
  <2>7. Loading(hosts', at'[a], todo'[a], F)
    <3> HIDE DEF F
    <3> QED
      BY <1>2, <1>4, <2>2, <2>3, <2>4, <2>5, <2>6, PutLoads
  <2>8. asked'[a] \in Pages /\ Loading(hosts', at'[a], todo'[a], H!Parse(asked'[a]))
    BY <1>1, <2>2, <2>7
  <2>9. \A b \in Admins : b # a => at'[b] = "idle"
    BY <1>4, <2>1 DEF SoFar
  <2>10. at'[a] \in {"query", "loaded"}
    BY <1>4
  <2> QED
    BY <2>8, <2>9, <2>10 DEF SoFar
<1> QED
  BY <1>1, <1>4, <1>5, AloneStep

\* A put that is disabled.
LEMMA DisabledAlone ==
    ASSUME HTypeOK, AInv, NEW a \in Admins, H!AddDisabled(a) PROVE AInv'
<1>1. /\ at[a] = "put" /\ H!Advance(a, "query", "loaded")
      /\ alone' = [alone EXCEPT ![a] = FALSE] /\ hosts' = hosts
  BY DEF H!AddDisabled
<1>2. /\ IsFiniteSet(DOMAIN hosts') /\ alone' \in [Admins -> BOOLEAN] /\ ~alone'[a]
      /\ \A b \in Admins : b # a => alone'[b] = alone[b]
  BY <1>1 DEF AInv, TodoOK
<1>3. TodoOK' /\ \A b \in Admins : b # a => at'[b] = at[b]
  BY <1>1, <1>2, AdvanceTodo DEF AInv
<1> QED
  BY <1>1, <1>2, <1>3, AloneStep

\* One key is deleted.
LEMMA DeleteAlone ==
    ASSUME HTypeOK, AInv, NEW a \in Admins, H!Delete(a) PROVE AInv'
<1>1. /\ at[a] = "delete" /\ H!Advance(a, "delete", "emptied") /\ alone' = alone
      /\ hosts' = [l \in DOMAIN hosts \ {Head(todo[a])} |-> hosts[l]]
  BY DEF H!Delete
<1>2. IsFiniteSet(DOMAIN hosts') /\ alone' \in [Admins -> BOOLEAN]
  <2>1. DOMAIN hosts' = DOMAIN hosts \ {Head(todo[a])}
    BY <1>1
  <2>2. IsFiniteSet(DOMAIN hosts \ {Head(todo[a])})
    BY FS_RemoveElement DEF AInv, TodoOK
  <2> QED
    BY <1>1, <2>1, <2>2 DEF AInv, TodoOK
<1>3. /\ TodoOK'
      /\ at'[a] = IF Len(todo[a]) = 1 THEN "emptied" ELSE "delete"
      /\ todo'[a] = Tail(todo[a])
      /\ \A b \in Admins : b # a => at'[b] = at[b]
  BY <1>1, <1>2, AdvanceTodo DEF AInv
<1>4. ASSUME alone'[a] PROVE SoFar(a)'
  <2>1. SoFar(a)
    BY <1>1, <1>4 DEF AInv
  <2>2. PICK T : todo[a] \in Seq(T)
    BY DEF AInv, TodoOK
  <2>3. todo[a] # <<>>
    BY <1>1 DEF AInv, TodoOK
  <2>4. ASSUME NEW k \in DOMAIN hosts' PROVE \E i \in 1..Len(todo'[a]) : todo'[a][i] = k
    <3>1. k \in DOMAIN hosts /\ k # Head(todo[a])
      BY <1>1
    <3>2. PICK i \in 1..Len(todo[a]) : todo[a][i] = k
      BY <1>1, <2>1, <3>1 DEF SoFar
    <3>3. i - 1 \in 1..Len(Tail(todo[a])) /\ Tail(todo[a])[i - 1] = k
      BY <2>2, <2>3, <3>1, <3>2
    <3> QED
      BY <1>3, <3>3
  <2>5. Len(todo[a]) = 1 => DOMAIN hosts' = {}
    <3>1. Len(todo[a]) = 1 => Len(Tail(todo[a])) = 0
      BY <2>2
    <3>2. ASSUME Len(todo[a]) = 1, NEW k \in DOMAIN hosts' PROVE FALSE
      <4>1. Len(todo'[a]) = 0
        BY <1>3, <3>1, <3>2
      <4>2. PICK i \in 1..Len(todo'[a]) : todo'[a][i] = k
        BY <2>4
      <4> QED
        BY <4>1, <4>2
    <3> QED
      BY <3>2
  <2>6. at'[a] = "emptied" => DOMAIN hosts' = {}
    BY <1>3, <2>5
  <2>7. \A b \in Admins : b # a => at'[b] = "idle"
    BY <1>3, <2>1 DEF SoFar
  <2>8. at'[a] \in {"delete", "emptied"}
    BY <1>3
  <2> QED
    BY <2>4, <2>6, <2>7, <2>8 DEF SoFar
<1> QED
  BY <1>1, <1>3, <1>4, AloneStep

\* A handler is over.
LEMMA OverAlone ==
    ASSUME HTypeOK, AInv, NEW a \in Admins, at[a] # "idle", H!Over(a), IsFiniteSet(DOMAIN hosts')
    PROVE  AInv'
<1>1. /\ at' = [at EXCEPT ![a] = "idle"] /\ todo' = [todo EXCEPT ![a] = <<>>]
      /\ asked' = [asked EXCEPT ![a] = <<>>] /\ alone' = [alone EXCEPT ![a] = TRUE]
  BY DEF H!Over
<1>2. alone' \in [Admins -> BOOLEAN] /\ \A b \in Admins : b # a => alone'[b] = alone[b]
  BY <1>1 DEF AInv, TodoOK
<1>3. at'[a] = "idle" /\ \A b \in Admins : b # a => at'[b] = at[b]
  BY <1>1 DEF HTypeOK
<1>4. TodoOK'
  <2> DEFINE list == <<>>
  <2>1. list \in Seq({}) /\ todo' = [todo EXCEPT ![a] = list]
    BY <1>1
  <2> HIDE DEF list
  <2> QED
    BY <1>1, <1>2, <2>1, TodoStep DEF AInv
<1> QED
  BY <1>2, <1>3, <1>4, AloneStep

\* Each step of an administrator's request.
LEMMA AdminAlone ==
    ASSUME HTypeOK, AInv, NEW a \in Admins, H!Admin(a) PROVE AInv'
<1>1. CASE H!Load(a) \/ H!DelAll(a)
  BY <1>1, LoadAlone, DelAllAlone
<1>2. CASE H!AddQuery(a) \/ H!AddPut(a) \/ H!AddDisabled(a)
  BY <1>2, QueryAlone, PutAlone, DisabledAlone
<1>3. CASE H!Delete(a)
  BY <1>3, DeleteAlone
<1>4. CASE H!Raises(a) \/ H!Count(a)
  <2>1. at[a] # "idle" /\ H!Over(a) /\ hosts' = hosts
    BY <1>4 DEF H!Raises, H!Count
  <2>2. IsFiniteSet(DOMAIN hosts')
    BY <2>1 DEF AInv, TodoOK
  <2> QED
    BY <2>1, <2>2, OverAlone
<1>5. CASE H!PutRaises(a)
  <2>1. at[a] = "put" /\ H!Over(a) /\ H!Put(a, H!Entity(a))
    BY <1>5 DEF H!PutRaises
  <2>2. IsFiniteSet(DOMAIN hosts')
    BY <2>1, PutFinite DEF AInv
  <2> QED
    BY <2>1, <2>2, OverAlone
<1> QED
  BY <1>1, <1>2, <1>3, <1>4, <1>5 DEF H!Admin

\* The invariant says what a request that ran alone leaves.
LEMMA SoFarExact ==
    ASSUME HTypeOK, AInv PROVE AloneIsExact
<1> SUFFICES ASSUME NEW a \in Admins, alone[a]
             PROVE  /\ at[a] = "emptied" => DOMAIN hosts = {}
                    /\ at[a] = "loaded" =>
                         LET page == asked[a]
                             Rows == {n \in DOMAIN page : page[n].ip # Localhost}
                         IN  \A n \in Rows : \A d \in Names(page[n]) :
                               (\A m \in Rows : m > n => d \notin Names(page[m]))
                                 => H!Lookup(d) = page[n].ip
  BY DEF AloneIsExact
<1>1. at[a] = "emptied" => DOMAIN hosts = {}
  BY DEF AInv, SoFar
<1>2. ASSUME at[a] = "loaded"
      PROVE  LET page == asked[a]
                 Rows == {n \in DOMAIN page : page[n].ip # Localhost}
             IN  \A n \in Rows : \A d \in Names(page[n]) :
                   (\A m \in Rows : m > n => d \notin Names(page[m]))
                     => H!Lookup(d) = page[n].ip
  <2> DEFINE page == asked[a]
             Rows == {n \in DOMAIN page : page[n].ip # Localhost}
             F == H!Parse(page)
  <2>1. page \in Pages /\ Loading(hosts, "loaded", todo[a], F)
    BY <1>2 DEF AInv, SoFar
  <2>2. PICK T, row : F \in Seq(T) /\ FromLines(F, page, row)
    BY <2>1, Parsed
  <2>3. ExactUpTo(hosts, F, Len(F))
    <3> HIDE DEF F
    <3> QED
      BY <2>1 DEF Loading
  <2>4. Rows \subseteq Nat
    <3>1. page \in Seq({page[n] : n \in DOMAIN page})
      BY <2>1, PagesAssumption
    <3>2. DOMAIN page \subseteq Nat
      BY <3>1
    <3> QED
      BY <3>2
  <2>5. ASSUME NEW n \in Rows, NEW d \in Names(page[n]),
               \A m \in Rows : m > n => d \notin Names(page[m])
        PROVE  H!Lookup(d) = page[n].ip
    <3> HIDE DEF F
    <3>1. PICK j \in 1..Len(F) : row[j] = n /\ F[j].domain = d
      BY <2>2 DEF FromLines
    <3> DEFINE S == {Len(F) - i : i \in {i \in 1..Len(F) : F[i].domain = d}}
    <3>2. Len(F) \in Nat
      BY <2>2
    <3>3. S \in SUBSET Nat /\ S # {}
      BY <3>1, <3>2
    <3>4. PICK l \in S : \A m \in S : l <= m
      <4> HIDE DEF S
      <4> QED
        BY <3>3, LeastExists
    <3>5. PICK k \in 1..Len(F) : F[k].domain = d /\ l = Len(F) - k
      OBVIOUS
    <3>6. \A i \in 1..Len(F) : F[i].domain = d => i <= k
      <4>1. ASSUME NEW i \in 1..Len(F), F[i].domain = d PROVE i <= k
        <5>1. Len(F) - i \in S
          BY <4>1
        <5>2. Len(F) - k <= Len(F) - i
          BY <3>4, <3>5, <5>1
        <5> QED
          BY <3>2, <5>2
      <4> QED
        BY <4>1
    <3>7. \A i \in (k + 1)..Len(F) : F[i].domain # F[k].domain
      BY <3>2, <3>5, <3>6
    <3>8. LookupIn(hosts, d) = F[k].ip
      BY <2>3, <3>2, <3>5, <3>7 DEF ExactUpTo
    <3>9. row[k] >= n /\ row[k] \in Rows /\ d \in Names(page[row[k]]) /\ F[k].ip = page[row[k]].ip
      <4>1. row[j] <= row[k]
        BY <2>2, <3>1, <3>6 DEF FromLines
      <4>2. row[k] \in Rows /\ d \in Names(page[row[k]]) /\ F[k].ip = page[row[k]].ip
        BY <2>2, <3>5 DEF FromLines
      <4> QED
        BY <2>4, <3>1, <4>1, <4>2
    <3>10. row[k] = n
      BY <2>4, <2>5, <3>9
    <3>11. H!Lookup(d) = LookupIn(hosts, d)
      BY DEF H!Lookup, H!Listed, LookupIn, ListedIn
    <3> QED
      BY <3>8, <3>9, <3>10, <3>11
  <2> QED
    BY <2>5
<1> QED
  BY <1>1, <1>2

\* The invariant of the requests that run alone, in the whole application.
THEOREM AloneInvariance == SSpec => []AInv
<1>1. SInit => AInv
  <2> SUFFICES ASSUME H!Init PROVE AInv
    BY DEF SInit
  <2>1. DOMAIN hosts = {} /\ IsFiniteSet({})
    BY FS_EmptySet DEF H!Init
  <2>2. \A a \in Admins : todo[a] = <<>> /\ at[a] = "idle"
    BY DEF H!Init
  <2>3. <<>> \in Seq({})
    OBVIOUS
  <2>4. TodoOK
    BY <2>1, <2>2, <2>3 DEF H!Init, TodoOK
  <2> QED
    BY <2>2, <2>4 DEF AInv
<1>2. HInv /\ AInv /\ [SNext]_<<part, vars, hostVars>> => AInv'
  <2> SUFFICES ASSUME HTypeOK, AInv, [SNext]_<<part, vars, hostVars>> PROVE AInv'
    BY DEF HInv
  <2>1. CASE H!Next
    BY <2>1, AdminAlone DEF H!Next
  <2>2. CASE UNCHANGED hostVars
    <3>1. /\ hosts' = hosts /\ at' = at /\ todo' = todo /\ found' = found
          /\ asked' = asked /\ alone' = alone
      BY <2>2 DEF hostVars
    <3>2. TodoOK'
      BY <3>1 DEF AInv, TodoOK
    <3>3. ASSUME NEW a \in Admins, alone'[a], at'[a] # "idle" PROVE SoFar(a)'
      <4>1. SoFar(a)
        BY <3>1, <3>3 DEF AInv
      <4>2. SoFar(a)' = SoFar(a)
        BY <3>1 DEF SoFar
      <4> QED
        BY <4>1, <4>2
    <3> QED
      BY <3>2, <3>3 DEF AInv
  <2> QED
    BY <2>1, <2>2 DEF SNext
<1> QED
  BY <1>1, <1>2, HostsInvariance, PTL DEF SSpec

\* A load or a delall that runs alone leaves the hosts list as it was asked to, whatever the
\* overlapping requests before it have left (DNSHostsManager, dnshosts.py).
THEOREM ExactAlone == SSpec => []AloneIsExact
<1>1. HInv /\ AInv => AloneIsExact
  BY SoFarExact DEF HInv
<1> QED
  BY <1>1, HostsInvariance, AloneInvariance, PTL
=============================================================================

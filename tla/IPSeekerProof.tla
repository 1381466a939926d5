--------------------------- MODULE IPSeekerProof ---------------------------
(***************************************************************************)
(* The search finds the right record in every database, of any size, and   *)
(* getIPLocation answers with what the record says, or with the address.   *)
(*                                                                         *)
(* Bracket, the loop invariant, is inductive together with TypeOK once it  *)
(* is said when mOffset has been assigned; FindsHolder adds what the two   *)
(* early returns and the exit know.  LInv carries it through the queries,  *)
(* and EInv what the answers without a record follow from.                 *)
(***************************************************************************)
EXTENDS IPLocation, FiniteSetTheorems, WellFoundedInduction, TLAPS

\* The loop is entered only if the index has an entry besides the first.
Reached ==
    /\ pc = "loop" => last > 0
    /\ pc = "entry" => mOffset = -1
    /\ pc = "exit" /\ last = 0 => mOffset = -1

Inv == TypeOK /\ Bracket /\ Reached /\ FindsHolder

-----------------------------------------------------------------------------
\* The middle of a range of two entries or more lies right of its left bound.
LEMMA MiddleInside ==
    ASSUME NEW b \in Nat, NEW e \in Nat, b < e
    PROVE  Middle(b, e) \in b + 1 .. e
  BY SMT DEF Middle

\* In a sorted index only entry k can hold an address from start[k] on and before
\* the start of entry k + 1.
LEMMA OneHolder ==
    ASSUME Database, ip \in IPs, NEW k \in 0..last,
           start[k] <= ip, k < last => ip < start[k + 1]
    PROVE  Wanted = IF ip <= end[k] THEN Record(k) ELSE NoOffset
  <1>1. ASSUME NEW l \in 0..last, l # k  PROVE l \notin Holder
    <2>0. /\ last \in Nat /\ k \in Int /\ l \in Int /\ ip \in Int
          /\ \A m \in 0..last : start[m] \in Int /\ end[m] \in Int
      BY IPAssumption DEF Database, IPs
    <2>1. CASE l < k
      <3>1. end[l] < start[k]
        BY <2>1 DEF Database
      <3> QED BY <3>1, <2>0 DEF Holder
    <2>2. CASE l > k
      <3>1. k + 1 \in 0..last
        BY <2>2, <2>0
      <3>2. start[k + 1] <= start[l]
        <4>1. CASE l = k + 1
          BY <4>1, <2>0
        <4>2. CASE l # k + 1
          <5>1. k + 1 < l
            BY <4>2, <2>2, <2>0
          <5>2. end[k + 1] < start[l] /\ start[k + 1] <= end[k + 1]
            BY <5>1, <3>1 DEF Database
          <5> QED BY <5>2, <3>1, <2>0
        <4> QED BY <4>1, <4>2
      <3>3. ip < start[k + 1]
        BY <2>2, <2>0
      <3> QED BY <3>1, <3>2, <3>3, <2>0 DEF Holder
    <2> QED BY <2>1, <2>2, <1>1, <2>0
  <1>2. CASE ip <= end[k]
    <2>1. Holder = {k}
      BY <1>1, <1>2 DEF Holder
    <2> QED BY <2>1, <1>2 DEF Wanted
  <1>3. CASE ~(ip <= end[k])
    <2>1. Holder = {}
      BY <1>1, <1>3 DEF Holder
    <2> QED BY <2>1, <1>3 DEF Wanted
  <1> QED BY <1>2, <1>3

\* Before the first address of the index there is no record.
LEMMA NoHolder ==
    ASSUME Database, ip \in IPs, ip < start[0]
    PROVE  Wanted = NoOffset
  <1>0. /\ last \in Nat /\ ip \in Int
        /\ \A m \in 0..last : start[m] \in Int /\ end[m] \in Int
    BY IPAssumption DEF Database, IPs
  <1>1. ASSUME NEW l \in 0..last  PROVE l \notin Holder
    <2>1. CASE l = 0
      BY <2>1, <1>0 DEF Holder
    <2>2. CASE l # 0
      <3>1. 0 \in 0..last /\ 0 < l
        BY <2>2, <1>0
      <3>2. start[0] <= end[0] /\ end[0] < start[l]
        BY <3>1 DEF Database
      <3> QED BY <3>1, <3>2, <1>0 DEF Holder
    <2> QED BY <2>1, <2>2
  <1>2. Holder = {}
    BY <1>1 DEF Holder
  <1> QED BY <1>2 DEF Wanted

-----------------------------------------------------------------------------
\* The invariant holds before the first comparison, with any index and any ip.
THEOREM InitInv == Init => Inv
  <1> SUFFICES ASSUME Init PROVE Inv
    OBVIOUS
  <1>1. last \in Nat
    BY IPAssumption DEF Init, Database
  <1>2. TypeOK
    BY <1>1 DEF Init, TypeOK
  <1>3. Bracket /\ Reached /\ FindsHolder
    BY DEF Init, Bracket, Reached, FindsHolder
  <1> QED BY <1>2, <1>3 DEF Inv

\* The two early returns, every turn of the loop and the check of the range keep the
\* invariant: one step per disjunct of Next, and under Loop one per comparison.
THEOREM NextInv == Inv /\ [Next]_vars => Inv'
  <1> SUFFICES ASSUME Inv, [Next]_vars PROVE Inv'
    OBVIOUS
  <1> USE DEF Inv
  <1>0. /\ last \in Nat /\ ip \in Int /\ i \in Nat /\ j \in Nat
        /\ 0 \in 0..last
        /\ \A m \in 0..last : start[m] \in Int /\ end[m] \in Int
    BY IPAssumption DEF TypeOK, Database, IPs
  <1>1. CASE UNCHANGED vars
    BY <1>1 DEF vars, database, TypeOK, Database, Bracket, Reached, FindsHolder,
         Records, Wanted, Holder
  <1>2. ASSUME UNCHANGED database
        PROVE  /\ Database' /\ ip' \in IPs /\ last' = last /\ ip' = ip
               /\ start' = start /\ end' = end /\ Records' = Records /\ Wanted' = Wanted
    BY <1>2 DEF database, TypeOK, Database, Records, Wanted, Holder
  <1>3. CASE Enter
    <2>0. UNCHANGED <<database, mOffset>> /\ pc = "entry"
      BY <1>3 DEF Enter
    <2>1. CASE ip = start[0] /\ Return(IndexEntry(0)) /\ UNCHANGED <<i, j>>
      <3>1. TypeOK'
        BY <2>0, <2>1, <1>2 DEF TypeOK, Return
      <3>2. Bracket' /\ Reached' /\ FindsHolder'
        BY <2>0, <2>1, <1>2 DEF Return, Bracket, Reached, FindsHolder
      <3> QED BY <3>1, <3>2
    <2>2. CASE ip < start[0] /\ Return(NoOffset) /\ UNCHANGED <<i, j>>
      <3>1. TypeOK'
        BY <2>0, <2>2, <1>2 DEF TypeOK, Return
      <3>2. Wanted = NoOffset
        BY <2>2, NoHolder DEF TypeOK
      <3>3. Bracket' /\ Reached' /\ FindsHolder'
        BY <2>0, <2>2, <3>2, <1>2 DEF Return, Bracket, Reached, FindsHolder
      <3> QED BY <3>1, <3>3
    <2>3. CASE /\ ip > start[0] /\ i' = 0 /\ j' = last
               /\ pc' = IF last > 0 THEN "loop" ELSE "exit"
               /\ UNCHANGED result
      <3>1. TypeOK'
        BY <2>0, <2>3, <1>0, <1>2 DEF TypeOK
      <3>2. Bracket' /\ Reached'
        BY <2>0, <2>3, <1>0, <1>2 DEF Bracket, Reached
      <3>3. FindsHolder'
        BY <2>3 DEF FindsHolder
      <3> QED BY <3>1, <3>2, <3>3
    <2> QED BY <1>3, <2>1, <2>2, <2>3 DEF Enter
  <1>4. CASE Loop
    <2> DEFINE m == Middle(i, j)
    <2>0. UNCHANGED database /\ pc = "loop" /\ i < j /\ last > 0 /\ j <= last
      BY <1>4, <1>0 DEF Loop, Bracket, Reached, TypeOK
    <2>1. m \in i + 1 .. j /\ m \in 0..last /\ start[m] \in Int
      BY <2>0, <1>0, MiddleInside
    <2> HIDE DEF m
    <2>2. CASE /\ ip > start[m] /\ GoRight(m)
               /\ pc' = IF i' < j' THEN "loop" ELSE "exit"
               /\ UNCHANGED result
      <3>1. TypeOK'
        BY <2>0, <2>1, <2>2, <1>0, <1>2 DEF TypeOK, GoRight
      <3>2. Bracket' /\ Reached'
        BY <2>0, <2>1, <2>2, <1>0, <1>2 DEF Bracket, Reached, GoRight
      <3>3. FindsHolder'
        BY <2>2 DEF FindsHolder
      <3> QED BY <3>1, <3>2, <3>3
    <2>3. CASE /\ ip < start[m] /\ GoLeft(m)
               /\ pc' = IF i' < j' THEN "loop" ELSE "exit"
               /\ UNCHANGED result
      <3>1. TypeOK'
        BY <2>0, <2>1, <2>3, <1>0, <1>2 DEF TypeOK, GoLeft
      <3>2. /\ i' = i /\ j' \in Nat /\ i' <= j' /\ mOffset' = j'
            /\ j' < last => ip < start[j' + 1]
        <4>1. CASE m = j
          <5>1. j' = j - 1 /\ mOffset' = j - 1 /\ i' = i /\ j' + 1 = m
            BY <4>1, <2>3, <1>0 DEF GoLeft
          <5> QED BY <5>1, <2>0, <2>3, <1>0
        <4>2. CASE m # j
          <5>1. j' = m /\ mOffset' = m /\ i' = i
            BY <4>2, <2>3 DEF GoLeft
          <5>2. m < last => ip < start[m + 1]
            <6> SUFFICES ASSUME m < last PROVE ip < start[m + 1]
              OBVIOUS
            <6>1. m + 1 \in 0..last /\ m < m + 1
              BY <2>1, <1>0
            <6>2. start[m] <= end[m] /\ end[m] < start[m + 1]
              BY <6>1, <2>1 DEF TypeOK, Database
            <6> QED BY <6>1, <6>2, <2>1, <2>3, <1>0
          <5> QED BY <5>1, <5>2, <2>1, <1>0
        <4> QED BY <4>1, <4>2
      <3>3. Bracket' /\ Reached'
        BY <3>2, <2>0, <2>3, <1>0, <1>2 DEF Bracket, Reached
      <3>4. FindsHolder'
        BY <2>3 DEF FindsHolder
      <3> QED BY <3>1, <3>4, <3>3
    <2>4. CASE ip = start[m] /\ mOffset' = m /\ Return(Record(m)) /\ UNCHANGED <<i, j>>
      <3>1. TypeOK'
        BY <2>0, <2>1, <2>4, <1>0, <1>2 DEF TypeOK, Return, Records
      <3>2. Wanted = Record(m)
        <4>1. ip <= end[m]
          BY <2>1, <2>4 DEF TypeOK, Database
        <4>2. m < last => ip < start[m + 1]
          <5> SUFFICES ASSUME m < last PROVE ip < start[m + 1]
            OBVIOUS
          <5>1. m + 1 \in 0..last /\ m < m + 1
            BY <2>1, <1>0
          <5>2. end[m] < start[m + 1]
            BY <5>1, <2>1 DEF TypeOK, Database
          <5> QED BY <4>1, <5>1, <5>2, <2>1, <1>0
        <4>3. start[m] <= ip
          BY <2>1, <2>4, <1>0
        <4> QED BY <4>1, <4>2, <4>3, <2>1, OneHolder DEF TypeOK
      <3>3. Bracket' /\ Reached' /\ FindsHolder'
        BY <2>0, <2>4, <3>2, <1>2 DEF Return, Bracket, Reached, FindsHolder
      <3> QED BY <3>1, <3>3
    <2> QED BY <1>4, <2>2, <2>3, <2>4 DEF Loop, m
  <1>5. CASE Exit
    <2>0. UNCHANGED <<database, i, j, mOffset>> /\ pc = "exit" /\ pc' = "return"
      BY <1>5 DEF Exit, Return
    <2>1. Bracket' /\ Reached'
      BY <2>0, <1>2 DEF Bracket, Reached
    <2>2. CASE mOffset # -1
      <3>1. last > 0 /\ i = j /\ mOffset = i /\ mOffset \in 0..last
        BY <2>0, <2>2, <1>0 DEF Reached, Bracket, TypeOK
      <3>2. result' = IF ip <= end[mOffset] THEN Record(mOffset) ELSE NoOffset
        BY <1>5, <2>2 DEF Exit, Return
      <3>3. TypeOK'
        BY <2>0, <3>1, <3>2, <1>2 DEF TypeOK, Records
      <3>4. Wanted = IF ip <= end[mOffset] THEN Record(mOffset) ELSE NoOffset
        <4>1. start[mOffset] <= ip /\ (mOffset < last => ip < start[mOffset + 1])
          BY <2>0, <3>1, <1>0 DEF Bracket
        <4> QED BY <4>1, <3>1, OneHolder DEF TypeOK
      <3>5. FindsHolder'
        BY <3>2, <3>4, <2>0, <1>2 DEF FindsHolder
      <3> QED BY <2>1, <3>3, <3>5
    <2>3. CASE mOffset = -1
      <3>1. last = 0
        BY <2>0, <2>3, <1>0 DEF Bracket, TypeOK
      <3>2. result' \in {NoOffset, Anywhere} \cup Records
        BY <1>5, <2>3 DEF Exit, Return
      <3>3. TypeOK'
        BY <2>0, <3>2, <1>2 DEF TypeOK
      <3>4. FindsHolder'
        BY <2>0, <3>1, <1>2 DEF FindsHolder
      <3> QED BY <2>1, <3>3, <3>4
    <2> QED BY <2>2, <2>3
  <1>6. CASE Done
    BY <1>1, <1>6 DEF Done
  <1> QED BY <1>1, <1>3, <1>4, <1>5, <1>6 DEF Next

\* Every search, in an index of any size, satisfies the inductive invariant.
THEOREM InvHolds == Spec => []Inv
  <1> QED BY InitInv, NextInv, PTL DEF Spec

\* i, j and mOffset stay within the index, whatever its size and whatever ip is.
THEOREM TypeCorrect == Spec => []TypeOK
  <1>1. Inv => TypeOK
    BY DEF Inv
  <1> QED BY <1>1, InvHolds, PTL

\* searchIP returns the record that holds the address, and 0 if there is none.
THEOREM SearchCorrect == Spec => []FindsHolder
  <1>1. Inv => FindsHolder
    BY DEF Inv
  <1> QED BY <1>1, InvHolds, PTL

\* The bounds of the search close in on the last entry that starts before ip.
THEOREM BracketHolds == Spec => []Bracket
  <1>1. Inv => Bracket
    BY DEF Inv
  <1> QED BY <1>1, InvHolds, PTL

-----------------------------------------------------------------------------
(* getIPLocation                                                           *)

\* One more part below Base makes a number below the next power.
LEMMA PartAppended ==
    ASSUME NEW power \in Nat, NEW n \in 0..(power - 1), NEW p \in 0..(Base - 1)
    PROVE  n * Base + p \in 0..(power * Base - 1)
  <1>1. Base \in Nat
    BY BaseAssumption
  <1>2. (power - 1 - n) * Base >= 0 /\ n * Base >= 0
    BY <1>1
  <1>3. (power - 1 - n) * Base = power * Base - Base - n * Base
    BY <1>1
  <1>4. power * Base \in Int /\ n * Base \in Int
    BY <1>1
  <1> QED BY <1>1, <1>2, <1>3, <1>4

\* Whatever the text, getIntIP returns an address.
LEMMA TextIsAddress ==
    ASSUME NEW t
    PROVE  getIntIP(t) \in IPs
  <1> DEFINE f(n) == Atoi(Field(t, n))
             Accept == /\ Cardinality(Dots(t)) = 3
                       /\ \A k \in DOMAIN t : t[k] = Dot \/ IsDigit(t[k])
                       /\ \A n \in 1..4 : f(n) \in 0..(Base - 1)
  <1>1. CASE Accept
    <2> HIDE DEF f
    <2>1. /\ f(1) \in 0..(Base - 1) /\ f(2) \in 0..(Base - 1)
          /\ f(3) \in 0..(Base - 1) /\ f(4) \in 0..(Base - 1)
      BY <1>1
    <2>2. f(1) * Base + f(2) \in 0..(Base * Base - 1)
      BY <2>1, PartAppended, BaseAssumption
    <2>3. Base * Base \in Nat /\ Base * Base * Base \in Nat
      BY BaseAssumption
    <2>4. (f(1) * Base + f(2)) * Base + f(3) \in 0..(Base * Base * Base - 1)
      BY <2>1, <2>2, <2>3, PartAppended
    <2>5. ((f(1) * Base + f(2)) * Base + f(3)) * Base + f(4) \in 0..(Base * Base * Base * Base - 1)
      BY <2>1, <2>3, <2>4, PartAppended
    <2>6. getIntIP(t) = Horner([n \in 1..4 |-> f(n)])
      BY <1>1 DEF getIntIP, f
    <2>7. Horner([n \in 1..4 |-> f(n)]) = ((f(1) * Base + f(2)) * Base + f(3)) * Base + f(4)
      BY DEF Horner
    <2> QED BY <2>5, <2>6, <2>7, LocationAssumption DEF IPs
  <1>2. CASE ~Accept
    <2>1. getIntIP(t) = 0
      BY <1>2 DEF getIntIP
    <2> QED BY <2>1, IPAssumption DEF IPs
  <1> QED BY <1>1, <1>2

\* What getIPRecord reads of a record, however its country and its area are reached.
LEMMA RecordRead ==
    ASSUME NEW l \in Layouts
    PROVE  getIPRecord(File(l)) =
             <<<<"country", Fitting(l.clen)>>,
               IF l.clen >= StringLen THEN Lost
               ELSE IF l.area = "zero" THEN Unknown
               ELSE <<"area", Fitting(l.alen)>>>>
  <1> DEFINE f       == File(l)
             first   == <<"record", 4>>
             at      == IF l.country \in {"mode1", "mode1mode2"} THEN <<"block", 0>> ELSE first
             country == IF l.country \in {"mode2", "mode1mode2"} THEN Redirect(2, <<"country", 0>>)
                        ELSE Text("country", l.clen)
             area    == IF l.area = "plain" THEN Text("area", l.alen)
                        ELSE Redirect(IF l.area = "mode1" THEN 1 ELSE 2,
                                      IF l.area = "zero" THEN Nowhere ELSE <<"area", 0>>)
             place   == <<at[1], at[2] + Size(country)>>
             offsets == {first, at, place, <<"country", 0>>, <<"area", 0>>}
  <1>1. /\ l.country \in {"plain", "mode2", "mode1", "mode1mode2"}
        /\ l.area \in {"plain", "zero", "mode1", "mode2"}
        /\ l.clen \in Nat /\ l.alen \in Nat /\ StringLen \in Nat \ {0}
    BY LocationAssumption DEF Layouts, Countries, Areas, Lengths
  <1>2. Size(country) \in Nat \ {0}
    BY <1>1 DEF Size, Redirect, Text
  <1>3. f = [o \in offsets |-> IF o = at THEN country
                               ELSE IF o = place THEN area
                               ELSE IF o = first THEN Redirect(1, at)
                               ELSE Text(o[1], IF o[1] = "area" THEN l.alen ELSE l.clen)]
    BY DEF File
  <1>4. /\ place[1] = at[1] /\ place[2] = at[2] + Size(country)
        /\ at \in {<<"block", 0>>, first}
    OBVIOUS
  <1>5. /\ place # at /\ place # first /\ place # <<"country", 0>> /\ place # <<"area", 0>>
        /\ at # <<"country", 0>> /\ at # <<"area", 0>>
    <2>1. place[2] # at[2] /\ place[1] \in {"block", "record"} /\ at[1] \in {"block", "record"}
      BY <1>2, <1>4
    <2>2. at[1] = "block" \/ at = first
      BY <1>4
    <2> HIDE DEF at, place
    <2> QED BY <2>1, <2>2, <1>4
  <1> HIDE DEF f, country, area, place
  <1>6. /\ offsets = DOMAIN f /\ f[at] = country /\ f[place] = area
        /\ f[first] = IF at = first THEN country ELSE Redirect(1, at)
        /\ f[<<"country", 0>>] = Text("country", l.clen)
        /\ f[<<"area", 0>>] = Text("area", l.alen)
    BY <1>3, <1>5
  <1>7. readArea(f, place) = IF l.area = "zero" THEN Unknown ELSE <<"area", Fitting(l.alen)>>
    <2>1. place \in DOMAIN f /\ <<"area", 0>> \in DOMAIN f
      BY <1>6
    <2>2. readString(f, <<"area", 0>>) = <<"area", Fitting(l.alen)>>
      BY <1>6, <2>1 DEF readString, IsText, Text, Fitting
    <2>3. CASE l.area = "plain"
      BY <1>6, <2>1, <2>3 DEF area, readArea, IsRedirect, readString, IsText, Text, Fitting
    <2>4. CASE l.area = "zero"
      BY <1>6, <2>1, <2>4 DEF area, readArea, IsRedirect, Redirect
    <2>5. CASE l.area \in {"mode1", "mode2"}
      <3>1. f[place] = Redirect(IF l.area = "mode1" THEN 1 ELSE 2, <<"area", 0>>)
        BY <1>6, <2>5 DEF area
      <3>2. IsRedirect(f, place, {1, 2}) /\ f[place][3] = <<"area", 0>>
        BY <3>1, <2>1 DEF IsRedirect, Redirect
      <3>3. <<"area", 0>> # Nowhere
        BY DEF Nowhere
      <3> QED BY <2>2, <2>5, <3>2, <3>3 DEF readArea
    <2> QED BY <1>1, <2>3, <2>4, <2>5
  <1> DEFINE read(o) == <<readString(f, o), AreaAfter(f, o, place)>>
  <1>8. ASSUME NEW o \in DOMAIN f, f[o] = Text("country", l.clen)
        PROVE  read(o) = <<<<"country", Fitting(l.clen)>>,
                           IF l.clen >= StringLen THEN Lost
                           ELSE IF l.area = "zero" THEN Unknown
                           ELSE <<"area", Fitting(l.alen)>>>>
    <2>1. readString(f, o) = <<"country", Fitting(l.clen)>>
      BY <1>8 DEF readString, IsText, Text, Fitting
    <2>2. FailsAt(f, o) <=> l.clen >= StringLen
      BY <1>8 DEF FailsAt, IsText, Text
    <2> QED BY <1>7, <2>1, <2>2 DEF AreaAfter
  <1>9. Plus(<<"record", 0>>, 4) = first /\ Plus(<<"record", 0>>, 8) = <<"record", 8>>
    BY DEF Plus
  <1>10. first \in DOMAIN f /\ at \in DOMAIN f /\ <<"country", 0>> \in DOMAIN f
    BY <1>6
  <1>11. getIPRecord(f) =
           IF IsRedirect(f, first, {1})
           THEN IF IsRedirect(f, f[first][3], {2})
                THEN <<readString(f, f[f[first][3]][3]),
                       AreaAfter(f, f[f[first][3]][3], Plus(f[first][3], 4))>>
                ELSE <<readString(f, f[first][3]),
                       AreaAfter(f, f[first][3], TellAfter(f, f[first][3]))>>
           ELSE IF IsRedirect(f, first, {2})
           THEN <<readString(f, f[first][3]), AreaAfter(f, f[first][3], <<"record", 8>>)>>
           ELSE <<readString(f, first), AreaAfter(f, first, TellAfter(f, first))>>
    BY <1>9 DEF getIPRecord
  <1>12. CASE l.country = "plain"
    <2>1. at = first /\ country = Text("country", l.clen) /\ f[first] = Text("country", l.clen)
      BY <1>6, <1>12 DEF country
    <2>2. ~IsRedirect(f, first, {1}) /\ ~IsRedirect(f, first, {2})
      BY <2>1 DEF IsRedirect, Text
    <2>3. TellAfter(f, first) = place
      BY <1>10, <2>1 DEF TellAfter, IsText, Text, place
    <2> QED BY <1>8, <1>10, <1>11, <2>1, <2>2, <2>3 DEF f
  <1>13. CASE l.country = "mode2"
    <2>1. at = first /\ country = Redirect(2, <<"country", 0>>) /\ f[first] = country
      BY <1>6, <1>13 DEF country
    <2>2. ~IsRedirect(f, first, {1}) /\ IsRedirect(f, first, {2}) /\ f[first][3] = <<"country", 0>>
      BY <1>10, <2>1 DEF IsRedirect, Redirect
    <2>3. place = <<"record", 8>>
      BY <2>1 DEF place, Size, Redirect
    <2> QED BY <1>6, <1>8, <1>10, <1>11, <2>2, <2>3 DEF f
  <1>14. CASE l.country = "mode1"
    <2>1. at = <<"block", 0>> /\ country = Text("country", l.clen) /\ f[at] = Text("country", l.clen)
          /\ f[first] = Redirect(1, at)
      BY <1>6, <1>14 DEF country
    <2>2. IsRedirect(f, first, {1}) /\ f[first][3] = at /\ ~IsRedirect(f, at, {2})
      BY <1>10, <2>1 DEF IsRedirect, Redirect, Text
    <2>3. TellAfter(f, at) = place
      BY <1>10, <2>1 DEF TellAfter, IsText, Text, place
    <2> QED BY <1>8, <1>10, <1>11, <2>1, <2>2, <2>3 DEF f
  <1>15. CASE l.country = "mode1mode2"
    <2>1. at = <<"block", 0>> /\ country = Redirect(2, <<"country", 0>>) /\ f[at] = country
          /\ f[first] = Redirect(1, at)
      BY <1>6, <1>15 DEF country
    <2>2. /\ IsRedirect(f, first, {1}) /\ f[first][3] = at /\ IsRedirect(f, at, {2})
          /\ f[at][3] = <<"country", 0>>
      BY <1>10, <2>1 DEF IsRedirect, Redirect
    <2>3. Plus(at, 4) = place
      BY <2>1 DEF place, Size, Redirect, Plus
    <2> QED BY <1>6, <1>8, <1>10, <1>11, <2>2, <2>3 DEF f
  <1> QED BY <1>1, <1>12, <1>13, <1>14, <1>15

-----------------------------------------------------------------------------
\* A search starts from nothing, and a location answered is that of its result.
LInv ==
    /\ Inv
    /\ stage \in {"idle", "call", "search", "answered", "undefined"}
    /\ stage \in {"idle", "call"} => pc = "entry"
    /\ stage = "answered" /\ answer[1] = "location" =>
         /\ pc = "return"
         /\ result \in Records =>
              record \in Layouts /\ answer[2] = getIPRecord(File(record))

\* The search's own invariant does not depend on which address is looked for, before it begins.
LEMMA NewSearch ==
    ASSUME Inv, UNCHANGED <<last, start, end>>, ip' \in IPs,
           pc' = "entry", i' = 0, j' = 0, mOffset' = -1, result' = NoOffset
    PROVE  Inv'
  <1>1. TypeOK
    BY DEF Inv
  <1>2. 0 \in 0..last /\ last \in Nat
    BY <1>1, IPAssumption DEF TypeOK, Database
  <1>3. Database'
    BY <1>1 DEF TypeOK, Database
  <1>4. TypeOK'
    BY <1>2, <1>3 DEF TypeOK
  <1>5. Bracket' /\ Reached' /\ FindsHolder'
    BY DEF Bracket, Reached, FindsHolder
  <1> QED BY <1>4, <1>5 DEF Inv

\* Each step of a query keeps the invariant.
THEOREM LNextInv == LInv /\ [LNext]_locationVars => LInv'
  <1> SUFFICES ASSUME LInv, [LNext]_locationVars PROVE LInv'
    OBVIOUS
  <1>0. Inv /\ stage \in {"idle", "call", "search", "answered", "undefined"}
    BY DEF LInv
  <1>1. ASSUME UNCHANGED vars PROVE Inv' /\ Records' = Records
    BY <1>0, <1>1, NextInv DEF vars, Records
  <1>2. CASE UNCHANGED locationVars
    BY <1>1, <1>2 DEF LInv, locationVars, vars
  <1>3. CASE Ask
    <2>1. /\ stage' = "call" /\ pc = "entry" /\ UNCHANGED <<last, start, end, pc, i, j, mOffset, result>>
      BY <1>3 DEF Ask, search, LInv
    <2>2. PICK q \in Queries : ip' = Address(q)
      BY <1>3 DEF Ask
    <2>3. q[1] # "text" => q[2] \in IPs
      BY LocationAssumption DEF Queries
    <2>4. ip' \in IPs
      BY <2>2, <2>3, TextIsAddress DEF Address
    <2>5. TypeOK' /\ Bracket' /\ Reached' /\ FindsHolder'
      <3>1. TypeOK /\ Reached
        BY <1>0 DEF Inv
      <3>2. Database' /\ Records' = Records
        BY <2>1, <3>1 DEF TypeOK, Database, Records
      <3>3. TypeOK'
        BY <2>1, <2>4, <3>1, <3>2 DEF TypeOK
      <3> QED BY <2>1, <3>1, <3>3 DEF Bracket, Reached, FindsHolder
    <2> QED BY <2>1, <2>5 DEF LInv, Inv
  <1>4. CASE Refuse \/ NoFile \/ NoIndex
    <2>1. /\ UNCHANGED vars
          /\ \/ stage' = "answered" /\ answer'[1] = "address"
             \/ stage' = "undefined"
      BY <1>4 DEF Refuse, NoFile, NoIndex, Echo, Answer
    <2> QED BY <1>1, <2>1 DEF LInv
  <1>5. CASE OpenFile
    <2>1. UNCHANGED vars /\ stage' = "search"
      BY <1>5 DEF OpenFile
    <2> QED BY <1>1, <2>1 DEF LInv
  <1>6. CASE Search
    <2>1. Next /\ stage' = "search"
      BY <1>6 DEF Search, Next
    <2> QED BY <1>0, <2>1, NextInv DEF LInv
  <1>7. CASE Locate
    <2>1. /\ UNCHANGED vars /\ stage' = "answered" /\ pc = "return"
          /\ record' \in IF result \in Records THEN Layouts ELSE {NoAnswer}
          /\ answer' = <<"location", IF result \in Records THEN getIPRecord(File(record')) ELSE Garbage>>
      BY <1>7 DEF Locate, Answer
    <2>2. answer'[2] = IF result \in Records THEN getIPRecord(File(record')) ELSE Garbage
      BY <2>1
    <2> QED BY <1>1, <2>1, <2>2 DEF LInv, vars
  <1>8. CASE PrintLocation
    <2>1. /\ stage' = "idle" /\ UNCHANGED <<last, start, end>> /\ ip' = 0
          /\ pc' = "entry" /\ i' = 0 /\ j' = 0 /\ mOffset' = -1 /\ result' = NoOffset
      BY <1>8 DEF PrintLocation
    <2>2. ip' \in IPs
      BY <2>1, IPAssumption DEF IPs
    <2> QED BY <1>0, <2>1, <2>2, NewSearch DEF LInv
  <1>9. CASE Undefined
    BY <1>2, <1>9 DEF Undefined
  <1> QED BY <1>2, <1>3, <1>4, <1>5, <1>6, <1>7, <1>8, <1>9 DEF LNext, Query

\* Every query, of any file, satisfies the inductive invariant.
THEOREM LInvHolds == LSpec => []LInv
  <1>1. LInit => LInv
    BY InitInv DEF LInit, LInv, Init
  <1> QED BY <1>1, LNextInv, PTL DEF LSpec

\* searchIP (evaipseeker.cpp) is right in every call of getIPLocation, too.
THEOREM EverySearchCorrect == LSpec => []FindsHolder
  <1>1. LInv => FindsHolder
    BY DEF LInv, Inv
  <1> QED BY <1>1, LInvHolds, PTL

\* getIPLocation (evaipseeker.cpp) answers with the country and the area of the range that holds
\* the address, in any sound file, whatever the redirections and the lengths.
THEOREM RightLocation == LSpec => []LocatesRecord
  <1>1. LInv => LocatesRecord
    <2> SUFFICES ASSUME LInv, stage = "answered", answer[1] = "location", last > 0,
                        Holder # {}, ip # start[0]
                 PROVE  /\ result = Wanted
                        /\ answer[2] = <<<<"country", Fitting(record.clen)>>,
                                         IF record.clen >= StringLen THEN Lost
                                         ELSE IF record.area = "zero" THEN Unknown
                                         ELSE <<"area", Fitting(record.alen)>>>>
      BY DEF LocatesRecord
    <2>1. result = Wanted
      BY DEF LInv, Inv, FindsHolder
    <2>2. Wanted \in Records
      BY DEF Wanted, Holder, Records
    <2>3. record \in Layouts /\ answer[2] = getIPRecord(File(record))
      BY <2>1, <2>2 DEF LInv
    <2> QED BY <2>1, <2>3, RecordRead
  <1> QED BY <1>1, LInvHolds, PTL

-----------------------------------------------------------------------------
(* Texts: getIntIP takes the parts that a text shows                        *)

\* The characters of a text.
Letters == 0..9 \cup {Dot, Other}

\* Three numbers in their order.
LEMMA Three ==
    ASSUME NEW S, IsFiniteSet(S), S \subseteq Int, Cardinality(S) = 3
    PROVE  \E a, b, c \in S : a < b /\ b < c /\ S = {a, b, c}
<1>0. S # {} /\ \A T : IsFiniteSet(T) /\ Cardinality(T) > 0 => T # {}
  BY FS_EmptySet
<1>1. PICK x : x \in S
  BY <1>0
<1>2. IsFiniteSet(S \ {x}) /\ Cardinality(S \ {x}) = 2
  BY <1>1, FS_RemoveElement
<1>a. PICK y : y \in S \ {x}
  BY <1>0, <1>2
<1>b. IsFiniteSet((S \ {x}) \ {y}) /\ Cardinality((S \ {x}) \ {y}) = 1
  BY <1>a, <1>2, FS_RemoveElement
<1>3. PICK z : (S \ {x}) \ {y} = {z}
  BY <1>b, FS_Singleton
<1>4. S = {x, y, z} /\ x # y /\ x # z /\ y # z /\ x \in Int /\ y \in Int /\ z \in Int
  BY <1>1, <1>a, <1>3
<1>5. \A a, b, c \in Int : {a, b, c} = {a, c, b} /\ {a, b, c} = {b, a, c} /\ {a, b, c} = {b, c, a}
                           /\ {a, b, c} = {c, a, b} /\ {a, b, c} = {c, b, a}
  OBVIOUS
<1>6. (x < y /\ y < z) \/ (x < z /\ z < y) \/ (y < x /\ x < z) \/ (y < z /\ z < x)
      \/ (z < x /\ x < y) \/ (z < y /\ y < x)
  BY <1>4
<1> QED
  BY <1>4, <1>5, <1>6

\* Counting the numbers of such a set.
LEMMA Count2 ==
    ASSUME NEW a, NEW b, a # b
    PROVE  IsFiniteSet({a, b}) /\ Cardinality({a, b}) = 2
<1>1. IsFiniteSet({a}) /\ Cardinality({a}) = 1
  BY FS_Singleton
<1>2. {a} \cup {b} = {a, b}
  OBVIOUS
<1>3. b \notin {a}
  OBVIOUS
<1> QED
  BY <1>1, <1>2, <1>3, FS_AddElement

LEMMA Count3 ==
    ASSUME NEW a, NEW b, NEW c, a # b, a # c, b # c
    PROVE  Cardinality({a, b, c}) = 3
<1>1. IsFiniteSet({a, b}) /\ Cardinality({a, b}) = 2
  BY Count2
<1>2. {a, b} \cup {c} = {a, b, c}
  OBVIOUS
<1>3. c \notin {a, b}
  OBVIOUS
<1> QED
  BY <1>1, <1>2, <1>3, FS_AddElement

\* A set that has 0 and, with a number, the next one has all numbers.
LEMMA AllNat ==
    ASSUME NEW P, 0 \in P, \A n \in Nat : n \in P => n + 1 \in P
    PROVE  Nat \subseteq P
<1>1. SUFFICES ASSUME Nat \ P # {} PROVE FALSE
  OBVIOUS
<1>2. Nat \ P \in SUBSET Nat
  OBVIOUS
<1>3. PICK k \in Nat \ P : \A l \in Nat \ P : k <= l
  <2>1. PICK k \in Nat \ P : \A l \in Nat \ P : ~(<<l, k>> \in OpToRel(<, Nat))
    BY <1>1, <1>2, NatLessThanWellFounded, WFMin
  <2>2. ASSUME NEW l \in Nat \ P PROVE k <= l
    <3>1. ~(l < k)
      BY <2>1 DEF OpToRel
    <3> QED
      BY <3>1
  <2> QED
    BY <2>2
<1>4. k # 0 /\ k - 1 \in Nat /\ ~(k <= k - 1) /\ (k - 1) + 1 = k
  BY <1>3
<1>5. k - 1 \in P
  BY <1>3, <1>4
<1> QED
  BY <1>4, <1>5

\* What digits write is a number.
LEMMA NumberIsNat ==
    ASSUME NEW t \in Seq(0..9) PROVE Number(t) \in Nat
<1> DEFINE N(f) == f = [n \in 0..Len(t) |-> IF n = 0 THEN 0 ELSE 10 * f[n - 1] + t[n]]
           Runs(n, g) == g[0] = 0 /\ \A k \in 1..n : g[k] = 10 * g[k - 1] + t[k]
           P == {n \in Nat : n <= Len(t) => \E g \in [0..n -> Nat] : Runs(n, g)}
           number == CHOOSE f : N(f)
           Q == {n \in Nat : n <= Len(t) => number[n] \in Nat}
<1>0. Len(t) \in Nat /\ \A k \in 1..Len(t) : t[k] \in Nat
  OBVIOUS
<1>1. 0 \in P
  <2>1. [k \in 0..0 |-> 0] \in [0..0 -> Nat] /\ Runs(0, [k \in 0..0 |-> 0])
    OBVIOUS
  <2> QED
    BY <2>1
<1>2. ASSUME NEW n \in Nat, n \in P PROVE n + 1 \in P
  <2> SUFFICES ASSUME n + 1 <= Len(t) PROVE \E g \in [0..(n + 1) -> Nat] : Runs(n + 1, g)
    OBVIOUS
  <2>0. n <= Len(t) /\ n \in P
    BY <1>0, <1>2
  <2>1. PICK g \in [0..n -> Nat] : Runs(n, g)
    <3> HIDE DEF Runs
    <3> QED
      BY ONLY <2>0 DEF P
  <2> DEFINE h == [k \in 0..(n + 1) |-> IF k = n + 1 THEN 10 * g[n] + t[n + 1] ELSE g[k]]
  <2>2. g[n] \in Nat /\ t[n + 1] \in Nat
    BY <1>0, <2>1
  <2>3. /\ h \in [0..(n + 1) -> Nat] /\ h[n + 1] = 10 * g[n] + t[n + 1] /\ h[n] = g[n]
        /\ h[0] = 0
    BY <2>1, <2>2
  <2>4. ASSUME NEW k \in 1..(n + 1) PROVE h[k] = 10 * h[k - 1] + t[k]
    <3>1. CASE k = n + 1
      <4>1. k - 1 = n
        BY <3>1
      <4> HIDE DEF h
      <4> QED
        BY <2>3, <3>1, <4>1
    <3>2. CASE k # n + 1
      <4>1. k \in 1..n /\ h[k] = g[k] /\ h[k - 1] = g[k - 1]
        BY <3>2
      <4> HIDE DEF h
      <4> QED
        BY <2>1, <4>1
    <3> QED
      BY <3>1, <3>2
  <2>5. Runs(n + 1, h)
    BY <2>3, <2>4
  <2> HIDE DEF Runs, h
  <2> QED
    BY <2>3, <2>5
<1>3. \E f : N(f)
  <2>1. Len(t) \in P
    <3> HIDE DEF P
    <3> QED
      BY <1>0, <1>1, <1>2, AllNat
  <2>2. PICK g \in [0..Len(t) -> Nat] : Runs(Len(t), g)
    BY <1>0, <2>1
  <2>3. \A k \in 0..Len(t) : g[k] = IF k = 0 THEN 0 ELSE 10 * g[k - 1] + t[k]
    BY <1>0, <2>2
  <2>4. g = [k \in 0..Len(t) |-> g[k]]
    OBVIOUS
  <2>5. N(g)
    BY <2>3, <2>4
  <2> QED
    BY <2>5
<1>4. N(number)
  BY <1>3
<1>5. Number(t) = number[Len(t)]
  BY DEF Number
<1> HIDE DEF number
<1>6. number[0] = 0 /\ \A n \in 1..Len(t) : number[n] = 10 * number[n - 1] + t[n]
  BY <1>0, <1>4
<1>7. 0 \in Q
  BY <1>6
<1>8. ASSUME NEW n \in Nat, n \in Q PROVE n + 1 \in Q
  <2> SUFFICES ASSUME n + 1 <= Len(t) PROVE number[n + 1] \in Nat
    OBVIOUS
  <2>1. n + 1 \in 1..Len(t) /\ (n + 1) - 1 = n /\ n <= Len(t)
    BY <1>0
  <2>2. number[n] \in Nat /\ t[n + 1] \in Nat
    BY <1>0, <1>8, <2>1
  <2>3. number[n + 1] = 10 * number[n] + t[n + 1]
    BY <1>6, <2>1
  <2> QED
    BY <2>2, <2>3
<1>9. Len(t) \in Q
  <2> HIDE DEF Q
  <2> QED
    BY <1>0, <1>7, <1>8, AllNat
<1> QED
  BY <1>0, <1>5, <1>9

\* The number that nothing writes.
LEMMA NumberOfNothing ==
    ASSUME NEW t, Len(t) = 0 PROVE Number(t) = 0
<1> DEFINE N(f) == f = [n \in 0..Len(t) |-> IF n = 0 THEN 0 ELSE 10 * f[n - 1] + t[n]]
           g == [n \in 0..0 |-> 0]
<1>1. N(g)
  <2>1. \A n \in 0..0 : n = 0
    OBVIOUS
  <2>2. [n \in 0..0 |-> IF n = 0 THEN 0 ELSE 10 * g[n - 1] + t[n]] = g
    BY <2>1
  <2> QED
    BY <2>2
<1>2. \A f : N(f) => f[0] = 0
  BY 0 \in 0..Len(t)
<1> DEFINE number == CHOOSE f : N(f)
<1>3. N(number)
  BY <1>1
<1>4. number[0] = 0
  BY <1>2, <1>3
<1>5. Number(t) = number[Len(t)]
  BY DEF Number
<1> QED
  BY <1>4, <1>5

\* The texts' dots: what getIntIP finds of a text with three of them.
LEMMA Parsed ==
    ASSUME NEW t \in Seq(Letters), NEW a \in Dots(t), NEW b \in Dots(t), NEW c \in Dots(t),
           a < b, b < c, Dots(t) = {a, b, c}
    PROVE  /\ Field(t, 1) = SubSeq(t, 1, a) /\ Field(t, 2) = SubSeq(t, a + 2, b)
           /\ Field(t, 3) = SubSeq(t, b + 2, c) /\ Field(t, 4) = SubSeq(t, c + 2, Len(t))
<1>1. a \in Nat /\ b \in Nat /\ c \in Nat /\ Len(t) \in Nat /\ c < Len(t)
  BY DEF Dots
<1>2. a # b /\ a # c /\ b # c
  BY <1>1
<1>3. {e \in Dots(t) : e <= a} = {a} /\ {e \in Dots(t) : e <= b} = {a, b}
      /\ {e \in Dots(t) : e <= c} = {a, b, c}
  BY <1>1
<1> DEFINE Num(d) == Cardinality({e \in Dots(t) : e <= d})
<1>4. Num(a) = 1 /\ Num(b) = 2 /\ Num(c) = 3
  <2>1. Cardinality({a}) = 1
    BY FS_Singleton
  <2>2. Cardinality({a, b}) = 2
    BY <1>2, Count2
  <2>3. Cardinality({a, b, c}) = 3
    BY <1>2, Count3
  <2> QED
    BY <1>3, <2>1, <2>2, <2>3
<1> HIDE DEF Num
<1>5. \A n, d : Stop(t, n) = CHOOSE x \in Dots(t) : Num(x) = IF n = 4 THEN 3 ELSE n
  BY DEF Stop, Num
<1>6. Stop(t, 1) = a
  <2>1. Stop(t, 1) = CHOOSE x \in Dots(t) : Num(x) = 1
    BY <1>5
  <2> QED
    BY <1>4, <2>1
<1>7. Stop(t, 2) = b
  <2>1. Stop(t, 2) = CHOOSE x \in Dots(t) : Num(x) = 2
    BY <1>5
  <2> QED
    BY <1>4, <2>1
<1>8. Stop(t, 3) = c /\ Stop(t, 4) = c
  <2>1. /\ Stop(t, 3) = CHOOSE x \in Dots(t) : Num(x) = 3
        /\ Stop(t, 4) = CHOOSE x \in Dots(t) : Num(x) = 3
    BY <1>5
  <2> QED
    BY <1>4, <2>1
<1>9. Start(t, 1) = 0 /\ Start(t, 2) = a + 1 /\ Start(t, 3) = b + 1 /\ Start(t, 4) = c + 1
  BY <1>6, <1>7, <1>8 DEF Start
<1>10. Field(t, 1) = SubSeq(t, 1, a)
  BY <1>1, <1>6, <1>9 DEF Field, Substr
<1>11. Field(t, 2) = SubSeq(t, a + 2, b)
  <2>1. ~(b - (a + 1) < 0) /\ (a + 1) + 1 = a + 2 /\ (a + 1) + (b - (a + 1)) = b
    BY <1>1
  <2> QED
    BY <1>7, <1>9, <2>1 DEF Field, Substr
<1>12. Field(t, 3) = SubSeq(t, b + 2, c)
  <2>1. ~(c - (b + 1) < 0) /\ (b + 1) + 1 = b + 2 /\ (b + 1) + (c - (b + 1)) = c
    BY <1>1
  <2> QED
    BY <1>8, <1>9, <2>1 DEF Field, Substr
<1>13. Field(t, 4) = SubSeq(t, c + 2, Len(t))
  <2>1. c - (c + 1) < 0 /\ (c + 1) + 1 = c + 2
    BY <1>1
  <2> QED
    BY <1>8, <1>9, <2>1 DEF Field, Substr
<1> QED
  BY <1>10, <1>11, <1>12, <1>13

\* The bounds of an interval.
LEMMA Bounded ==
    ASSUME NEW m \in Int, NEW n \in Int, m <= n
    PROVE  Min(m..n) = m /\ Max(m..n) = n
<1>1. m \in m..n /\ n \in m..n
  OBVIOUS
<1>2. \A x \in m..n : x \in Int /\ m <= x /\ x <= n
  OBVIOUS
<1>3. Min(m..n) \in m..n /\ \A y \in m..n : Min(m..n) <= y
  BY <1>1, <1>2 DEF Min
<1>4. Max(m..n) \in m..n /\ \A y \in m..n : Max(m..n) >= y
  BY <1>1, <1>2 DEF Max
<1> QED
  BY <1>1, <1>2, <1>3, <1>4

\* What is between two places, if nothing is, counts as 0.
LEMMA Between ==
    ASSUME NEW t \in Seq(Letters), NEW m \in Nat \ {0}, NEW n \in Nat
    PROVE  (IF m..n = {} THEN 0 ELSE Number(SubSeq(t, Min(m..n), Max(m..n)))) = Number(SubSeq(t, m, n))
<1>1. CASE m <= n
  BY <1>1, Bounded
<1>2. CASE ~(m <= n)
  <2>1. m..n = {} /\ Len(SubSeq(t, m, n)) = 0
    BY <1>2
  <2> QED
    BY <2>1, NumberOfNothing
<1> QED
  BY <1>1, <1>2

\* How many of three numbers are below a fourth.
LEMMA Below ==
    ASSUME NEW a \in Int, NEW b \in Int, NEW c \in Int, a < b, b < c, NEW k \in Int
    PROVE  LET below == Cardinality({x \in {a, b, c} : x < k})
           IN  /\ below = 0 <=> k <= a
               /\ below = 1 <=> a < k /\ k <= b
               /\ below = 2 <=> b < k /\ k <= c
               /\ below = 3 <=> c < k
<1> DEFINE B == {x \in {a, b, c} : x < k}
<1>0. /\ Cardinality({}) = 0 /\ Cardinality({a}) = 1 /\ Cardinality({a, b}) = 2
      /\ Cardinality({a, b, c}) = 3
  <2>1. a # b /\ a # c /\ b # c
    OBVIOUS
  <2>2. Cardinality({}) = 0 /\ Cardinality({a}) = 1
    BY FS_EmptySet, FS_Singleton
  <2>3. Cardinality({a, b}) = 2
    BY <2>1, Count2
  <2>4. Cardinality({a, b, c}) = 3
    BY <2>1, Count3
  <2> QED
    BY <2>2, <2>3, <2>4
<1>1. CASE k <= a
  <2>1. B = {}
    BY <1>1
  <2> QED
    BY <1>0, <1>1, <2>1
<1>2. CASE a < k /\ k <= b
  <2>1. B = {a}
    BY <1>2
  <2> QED
    BY <1>0, <1>2, <2>1
<1>3. CASE b < k /\ k <= c
  <2>1. B = {a, b}
    BY <1>3
  <2> QED
    BY <1>0, <1>3, <2>1
<1>4. CASE c < k
  <2>1. B = {a, b, c}
    BY <1>4
  <2> QED
    BY <1>0, <1>4, <2>1
<1> QED
  BY <1>1, <1>2, <1>3, <1>4

\* The four numbers of a text with three dots are those that getIntIP takes.
LEMMA Values ==
    ASSUME NEW t \in Seq(Letters), Cardinality(Dots(t)) = 3
    PROVE  /\ \A n \in 1..4 : Value(t, n) = Number(Field(t, n))
           /\ (\A k \in DOMAIN t : t[k] # Other) => \A n \in 1..4 : Value(t, n) \in Nat
<1>0. Len(t) \in Nat /\ DOMAIN t = 1..Len(t) /\ Dots(t) \subseteq 0..(Len(t) - 1)
  BY DEF Dots
<1>1. IsFiniteSet(Dots(t)) /\ Dots(t) \subseteq Int
  <2>1. IsFiniteSet(0..(Len(t) - 1))
    BY <1>0, FS_Interval
  <2> QED
    BY <1>0, <2>1, FS_Subset
<1>2. PICK a, b, c \in Dots(t) : a < b /\ b < c /\ Dots(t) = {a, b, c}
  BY <1>1, Three
<1>3. a \in Nat /\ b \in Nat /\ c \in Nat /\ c < Len(t)
  BY <1>0, <1>2
<1>4. \A k \in DOMAIN t : t[k] = Dot <=> k \in {a + 1, b + 1, c + 1}
  <2>1. \A k \in DOMAIN t : t[k] = Dot <=> k - 1 \in Dots(t)
    BY <1>0 DEF Dots
  <2> QED
    BY <1>0, <1>2, <1>3, <2>1
<1> DEFINE before(k) == Cardinality({d \in 1..(k - 1) : t[d] = Dot})
           own(n) == {k \in DOMAIN t : t[k] # Dot /\ before(k) = n - 1}
<1>5. \A n : Value(t, n) = IF own(n) = {} THEN 0 ELSE Number(SubSeq(t, Min(own(n)), Max(own(n))))
  BY DEF Value
<1>6. \A k \in DOMAIN t : {d \in 1..(k - 1) : t[d] = Dot} = {x \in {a + 1, b + 1, c + 1} : x < k}
  BY <1>0, <1>3, <1>4
<1>7. ASSUME NEW k \in DOMAIN t
      PROVE  /\ before(k) = 0 <=> k <= a + 1
             /\ before(k) = 1 <=> a + 1 < k /\ k <= b + 1
             /\ before(k) = 2 <=> b + 1 < k /\ k <= c + 1
             /\ before(k) = 3 <=> c + 1 < k
  <2>1. /\ a + 1 \in Int /\ b + 1 \in Int /\ c + 1 \in Int /\ k \in Int
        /\ a + 1 < b + 1 /\ b + 1 < c + 1
    BY <1>0, <1>2, <1>3
  <2>2. before(k) = Cardinality({x \in {a + 1, b + 1, c + 1} : x < k})
    BY <1>6
  <2> HIDE DEF before
  <2> QED
    BY <2>1, <2>2, Below
<1> HIDE DEF before
<1>8. own(1) = 1..a /\ own(2) = (a + 2)..b /\ own(3) = (b + 2)..c /\ own(4) = (c + 2)..Len(t)
  <2>1. /\ a \in Int /\ b \in Int /\ c \in Int /\ Len(t) \in Int
        /\ 0 <= a /\ a < b /\ b < c /\ c < Len(t)
    BY <1>0, <1>2, <1>3
  <2>2. \A k \in 1..Len(t) : t[k] # Dot <=> k # a + 1 /\ k # b + 1 /\ k # c + 1
    BY <1>0, <1>4
  <2>3. \A n : own(n) = {k \in 1..Len(t) : (k # a + 1 /\ k # b + 1 /\ k # c + 1) /\ before(k) = n - 1}
    BY <1>0, <2>2
  <2>4. \A k \in 1..Len(t) : /\ before(k) = 0 <=> k <= a + 1
                             /\ before(k) = 1 <=> a + 1 < k /\ k <= b + 1
                             /\ before(k) = 2 <=> b + 1 < k /\ k <= c + 1
                             /\ before(k) = 3 <=> c + 1 < k
    BY <1>0, <1>7
  <2> HIDE DEF own
  <2>5. own(1) = 1..a
    <3>1. own(1) = {k \in 1..Len(t) : (k # a + 1 /\ k # b + 1 /\ k # c + 1) /\ before(k) = 0}
      BY <2>3
    <3> QED
      <4>1. \A k \in 1..Len(t) :
              (k # a + 1 /\ k # b + 1 /\ k # c + 1) /\ before(k) = 0 <=> 1 <= k /\ k <= a
        BY <2>1, <2>4
      <4>2. \A k : k \in own(1) <=> k \in 1..Len(t) /\ 1 <= k /\ k <= a
        BY <3>1, <4>1
      <4>3. \A k : k \in 1..a <=> k \in 1..Len(t) /\ 1 <= k /\ k <= a
        BY <2>1
      <4>4. \A k : k \in own(1) <=> k \in 1..a
        BY <4>2, <4>3, Zenon
      <4> QED
        BY ONLY <4>4
  <2>6. own(2) = (a + 2)..b
    <3>1. own(2) = {k \in 1..Len(t) : (k # a + 1 /\ k # b + 1 /\ k # c + 1) /\ before(k) = 1}
      BY <2>3
    <3> QED
      <4>1. \A k \in 1..Len(t) :
              (k # a + 1 /\ k # b + 1 /\ k # c + 1) /\ before(k) = 1 <=> a + 2 <= k /\ k <= b
        BY <2>1, <2>4
      <4>2. \A k : k \in own(2) <=> k \in 1..Len(t) /\ a + 2 <= k /\ k <= b
        BY <3>1, <4>1
      <4>3. \A k : k \in (a + 2)..b <=> k \in 1..Len(t) /\ a + 2 <= k /\ k <= b
        BY <2>1
      <4>4. \A k : k \in own(2) <=> k \in (a + 2)..b
        BY <4>2, <4>3, Zenon
      <4> QED
        BY ONLY <4>4
  <2>7. own(3) = (b + 2)..c
    <3>1. own(3) = {k \in 1..Len(t) : (k # a + 1 /\ k # b + 1 /\ k # c + 1) /\ before(k) = 2}
      BY <2>3
    <3> QED
      <4>1. \A k \in 1..Len(t) :
              (k # a + 1 /\ k # b + 1 /\ k # c + 1) /\ before(k) = 2 <=> b + 2 <= k /\ k <= c
        BY <2>1, <2>4
      <4>2. \A k : k \in own(3) <=> k \in 1..Len(t) /\ b + 2 <= k /\ k <= c
        BY <3>1, <4>1
      <4>3. \A k : k \in (b + 2)..c <=> k \in 1..Len(t) /\ b + 2 <= k /\ k <= c
        BY <2>1
      <4>4. \A k : k \in own(3) <=> k \in (b + 2)..c
        BY <4>2, <4>3, Zenon
      <4> QED
        BY ONLY <4>4
  <2>8. own(4) = (c + 2)..Len(t)
    <3>1. own(4) = {k \in 1..Len(t) : (k # a + 1 /\ k # b + 1 /\ k # c + 1) /\ before(k) = 3}
      BY <2>3
    <3> QED
      <4>1. \A k \in 1..Len(t) :
              (k # a + 1 /\ k # b + 1 /\ k # c + 1) /\ before(k) = 3 <=> c + 2 <= k /\ k <= Len(t)
        BY <2>1, <2>4
      <4>2. \A k : k \in own(4) <=> k \in 1..Len(t) /\ c + 2 <= k /\ k <= Len(t)
        BY <3>1, <4>1
      <4>3. \A k : k \in (c + 2)..Len(t) <=> k \in 1..Len(t) /\ c + 2 <= k /\ k <= Len(t)
        BY <2>1
      <4>4. \A k : k \in own(4) <=> k \in (c + 2)..Len(t)
        BY <4>2, <4>3, Zenon
      <4> QED
        BY ONLY <4>4
  <2> QED
    BY <2>5, <2>6, <2>7, <2>8
<1>13. \A n : \A k \in own(n) : k \in DOMAIN t /\ t[k] # Dot
  OBVIOUS
<1> HIDE DEF own
<1>9. /\ Value(t, 1) = Number(SubSeq(t, 1, a)) /\ Value(t, 2) = Number(SubSeq(t, a + 2, b))
      /\ Value(t, 3) = Number(SubSeq(t, b + 2, c)) /\ Value(t, 4) = Number(SubSeq(t, c + 2, Len(t)))
  <2>1. ASSUME NEW n, NEW lo \in Nat \ {0}, NEW hi \in Nat, own(n) = lo..hi
        PROVE  Value(t, n) = Number(SubSeq(t, lo, hi))
    <3> DEFINE between == IF lo..hi = {} THEN 0 ELSE Number(SubSeq(t, Min(lo..hi), Max(lo..hi)))
    <3>1. Value(t, n) = between
      BY <1>5, <2>1
    <3>2. between = Number(SubSeq(t, lo, hi))
      BY Between
    <3> HIDE DEF between
    <3> QED
      BY <3>1, <3>2
  <2>2. /\ 1 \in Nat \ {0} /\ a + 2 \in Nat \ {0} /\ b + 2 \in Nat \ {0} /\ c + 2 \in Nat \ {0}
    BY <1>3
  <2>3. Value(t, 1) = Number(SubSeq(t, 1, a)) /\ Value(t, 2) = Number(SubSeq(t, a + 2, b))
    BY <1>3, <1>8, <2>1, <2>2
  <2>4. Value(t, 3) = Number(SubSeq(t, b + 2, c)) /\ Value(t, 4) = Number(SubSeq(t, c + 2, Len(t)))
    BY <1>0, <1>3, <1>8, <2>1, <2>2
  <2> QED
    BY <2>3, <2>4
<1>10. /\ Field(t, 1) = SubSeq(t, 1, a) /\ Field(t, 2) = SubSeq(t, a + 2, b)
       /\ Field(t, 3) = SubSeq(t, b + 2, c) /\ Field(t, 4) = SubSeq(t, c + 2, Len(t))
  BY <1>2, Parsed
<1>11. \A n \in 1..4 : n = 1 \/ n = 2 \/ n = 3 \/ n = 4
  OBVIOUS
<1>12. /\ Value(t, 1) = Number(Field(t, 1)) /\ Value(t, 2) = Number(Field(t, 2))
       /\ Value(t, 3) = Number(Field(t, 3)) /\ Value(t, 4) = Number(Field(t, 4))
  BY <1>9, <1>10
<1>14. \A n \in 1..4 : Value(t, n) = Number(Field(t, n))
  BY ONLY <1>11, <1>12, Zenon
<1>15. ASSUME \A k \in DOMAIN t : t[k] # Other PROVE \A n \in 1..4 : Value(t, n) \in Nat
  <2>1. ASSUME NEW n, NEW lo \in Nat \ {0}, NEW hi \in Nat, own(n) = lo..hi
        PROVE  Number(SubSeq(t, lo, hi)) \in Nat
    <3>1. ASSUME NEW k \in lo..hi PROVE k \in DOMAIN t /\ t[k] \in 0..9
      <4>1. k \in DOMAIN t /\ t[k] # Dot /\ t[k] # Other
        BY <1>13, <1>15, <2>1
      <4>2. t[k] \in Letters
        BY <4>1
      <4> QED
        BY <4>1, <4>2 DEF Letters
    <3>2. CASE lo <= hi
      <4>1. lo \in DOMAIN t /\ hi \in DOMAIN t
        BY <3>1, <3>2
      <4> DEFINE s == SubSeq(t, lo, hi)
                 l == hi - lo + 1
      <4>2. s = [k \in 1..l |-> t[lo + k - 1]] /\ l \in Nat
        BY <3>2, <4>1
      <4>3. \A k \in 1..l : lo + k - 1 \in lo..hi
        OBVIOUS
      <4>4. s \in [1..l -> 0..9]
        BY <3>1, <4>2, <4>3
      <4> HIDE DEF s, l
      <4>7. l \in Nat
        BY <4>2
      <4>5. s \in Seq(0..9)
        BY ONLY <4>4, <4>7
      <4>6. Number(s) \in Nat
        BY <4>5, NumberIsNat
      <4> QED
        BY <4>6 DEF s
    <3>3. CASE ~(lo <= hi)
      <4> DEFINE s == SubSeq(t, lo, hi)
      <4>1. Len(s) = 0
        BY <3>3
      <4> HIDE DEF s
      <4>2. Number(s) = 0
        BY <4>1, NumberOfNothing
      <4> QED
        BY <4>2 DEF s
    <3> QED
      BY <3>2, <3>3
  <2>2. /\ 1 \in Nat \ {0} /\ a + 2 \in Nat \ {0} /\ b + 2 \in Nat \ {0} /\ c + 2 \in Nat \ {0}
    BY <1>3
  <2>3. Number(SubSeq(t, 1, a)) \in Nat /\ Number(SubSeq(t, a + 2, b)) \in Nat
    BY <1>3, <1>8, <2>1, <2>2
  <2>4. Number(SubSeq(t, b + 2, c)) \in Nat /\ Number(SubSeq(t, c + 2, Len(t))) \in Nat
    BY <1>0, <1>3, <1>8, <2>1, <2>2
  <2>5. /\ Value(t, 1) \in Nat /\ Value(t, 2) \in Nat /\ Value(t, 3) \in Nat /\ Value(t, 4) \in Nat
    BY <1>9, <2>3, <2>4
  <2> QED
    BY ONLY <1>11, <2>5, Zenon
<1> QED
  BY <1>14, <1>15

\* The dots are three, counted from 0 or from 1.
LEMMA DotsCounted ==
    ASSUME NEW t \in Seq(Letters)
    PROVE  Cardinality(Dots(t)) = 3 <=> Cardinality({k \in DOMAIN t : t[k] = Dot}) = 3
<1> DEFINE D == Dots(t)
           E == {k \in DOMAIN t : t[k] = Dot}
<1>0. Len(t) \in Nat /\ DOMAIN t = 1..Len(t)
  OBVIOUS
<1>1. D \subseteq 0..(Len(t) - 1) /\ E \subseteq 1..Len(t)
  BY <1>0 DEF Dots
<1>2. IsFiniteSet(D) /\ D \subseteq Int /\ IsFiniteSet(E) /\ E \subseteq Int
  <2>1. IsFiniteSet(0..(Len(t) - 1)) /\ IsFiniteSet(1..Len(t))
    BY <1>0, FS_Interval
  <2>2. IsFiniteSet(D) /\ IsFiniteSet(E)
    BY <1>1, <2>1, FS_Subset
  <2> QED
    BY <1>0, <1>1, <2>2
<1>3. \A d \in Int : d \in D <=> d + 1 \in E
  BY <1>0 DEF Dots
<1> HIDE DEF D, E
<1>4. ASSUME Cardinality(D) = 3 PROVE Cardinality(E) = 3
  <2>1. PICK a, b, c \in D : a < b /\ b < c /\ D = {a, b, c}
    BY <1>2, <1>4, Three
  <2>2. a \in Int /\ b \in Int /\ c \in Int
    BY <1>2
  <2>3. E = {a + 1, b + 1, c + 1}
    <3>1. ASSUME NEW k \in Int PROVE k \in E <=> k \in {a + 1, b + 1, c + 1}
      <4>1. k - 1 \in Int /\ (k - 1) + 1 = k
        OBVIOUS
      <4>2. k - 1 \in D <=> k \in E
        BY <1>3, <4>1
      <4>3. k - 1 \in {a, b, c} <=> k \in {a + 1, b + 1, c + 1}
        BY <2>2
      <4> QED
        BY <2>1, <4>2, <4>3
    <3>2. a + 1 \in Int /\ b + 1 \in Int /\ c + 1 \in Int
      BY <2>2
    <3> QED
      BY <1>2, <3>1, <3>2
  <2>4. a + 1 # b + 1 /\ a + 1 # c + 1 /\ b + 1 # c + 1
    BY <2>1, <2>2
  <2>5. Cardinality({a + 1, b + 1, c + 1}) = 3
    BY <2>4, Count3
  <2> QED
    BY <2>3, <2>5
<1>5. ASSUME Cardinality(E) = 3 PROVE Cardinality(D) = 3
  <2>1. PICK a, b, c \in E : a < b /\ b < c /\ E = {a, b, c}
    BY <1>2, <1>5, Three
  <2>2. a \in Int /\ b \in Int /\ c \in Int
    BY <1>2
  <2>3. D = {a - 1, b - 1, c - 1}
    <3>1. ASSUME NEW d \in Int PROVE d \in D <=> d \in {a - 1, b - 1, c - 1}
      <4>1. d + 1 \in {a, b, c} <=> d \in {a - 1, b - 1, c - 1}
        BY <2>2
      <4> QED
        BY <1>3, <2>1, <4>1
    <3>2. a - 1 \in Int /\ b - 1 \in Int /\ c - 1 \in Int
      BY <2>2
    <3> QED
      BY <1>2, <3>1, <3>2
  <2>4. a - 1 # b - 1 /\ a - 1 # c - 1 /\ b - 1 # c - 1
    BY <2>1, <2>2
  <2>5. Cardinality({a - 1, b - 1, c - 1}) = 3
    BY <2>4, Count3
  <2> QED
    BY <2>3, <2>5
<1> QED
  BY <1>4, <1>5 DEF D, E

-----------------------------------------------------------------------------
(* Numbers: the parts of an address                                        *)

\* Division has a remainder less than the divisor.
LEMMA Divides ==
    ASSUME NEW x \in Int, NEW s \in Nat \ {0}
    PROVE  /\ x \div s \in Int /\ x % s \in Int
           /\ x = s * (x \div s) + (x % s) /\ 0 <= x % s /\ x % s < s
<1>1. x \div s \in Int /\ x % s \in Int
  OBVIOUS
<1>2. x = s * (x \div s) + (x % s)
  OBVIOUS
<1>3. 0 <= x % s /\ x % s < s
  OBVIOUS
<1> QED
  BY <1>1, <1>2, <1>3

\* There is one way to divide.
LEMMA Quotient ==
    ASSUME NEW x \in Int, NEW s \in Nat \ {0}, NEW q \in Int, NEW r \in Int,
           0 <= r, r < s, x = s * q + r
    PROVE  x \div s = q /\ x % s = r
<1>1. PICK a \in Int, b \in Int : a = x \div s /\ b = x % s /\ x = s * a + b /\ 0 <= b /\ b < s
  BY Divides
<1>2. \A d \in Int : d >= 1 => s * d >= s
  OBVIOUS
<1>3. s * (a - q) = r - b /\ s * (q - a) = b - r
  BY <1>1
<1>4. CASE a > q
  <2>1. s * (a - q) >= s
    BY <1>2, <1>4
  <2> QED
    BY <1>1, <1>3, <2>1
<1>5. CASE a < q
  <2>1. s * (q - a) >= s
    BY <1>2, <1>5
  <2> QED
    BY <1>1, <1>3, <2>1
<1> QED
  BY <1>1, <1>4, <1>5

\* The weights of the parts are numbers to divide by.
LEMMA Weights ==
    /\ Base \in Nat \ {0} /\ Weight(0) = 1 /\ Weight(1) = Base /\ Weight(2) = Base * Base
    /\ Weight(3) = Base * Base * Base
    /\ \A n \in 0..3 : Weight(n) \in Nat \ {0}
<1>1. Base \in Nat \ {0}
  BY BaseAssumption
<1>2. /\ Weight(0) = 1 /\ Weight(1) = Base /\ Weight(2) = Base * Base
      /\ Weight(3) = Base * Base * Base
  BY DEF Weight
<1>3. Base * Base \in Nat \ {0}
  BY <1>1
<1>4. Base * Base * Base \in Nat \ {0}
  BY <1>1, <1>3
<1>5. \A n \in 0..3 : n = 0 \/ n = 1 \/ n = 2 \/ n = 3
  OBVIOUS
<1> QED
  BY <1>1, <1>2, <1>3, <1>4, <1>5

\* The parts of a number put together are those it was put together from.
LEMMA PartsOf ==
    ASSUME NEW p, NEW x, p[1] \in 0..(Base - 1), p[2] \in 0..(Base - 1), p[3] \in 0..(Base - 1),
           p[4] \in 0..(Base - 1), x = Horner(p)
    PROVE  Part(x, 3) = p[1] /\ Part(x, 2) = p[2] /\ Part(x, 1) = p[3] /\ Part(x, 0) = p[4]
<1>1. PICK a \in 0..(Base - 1), b \in 0..(Base - 1), c \in 0..(Base - 1), d \in 0..(Base - 1) :
          a = p[1] /\ b = p[2] /\ c = p[3] /\ d = p[4] /\ x = ((a * Base + b) * Base + c) * Base + d
  BY DEF Horner
<1>2. Base \in Nat \ {0} /\ a \in Nat /\ b \in Nat /\ c \in Nat /\ d \in Nat
      /\ a < Base /\ b < Base /\ c < Base /\ d < Base
  BY Weights
<1>3. PICK two \in Nat, three \in Nat : two = Base * Base /\ three = two * Base /\ two > 0 /\ three > 0
  <2>1. Base * Base \in Nat /\ Base * Base > 0
    BY <1>2
  <2>2. (Base * Base) * Base \in Nat /\ (Base * Base) * Base > 0
    BY <1>2, <2>1
  <2> QED
    BY <2>1, <2>2
<1>4. PICK ab \in Nat : ab = a * Base + b
  BY <1>2
<1>5. PICK abc \in Nat : abc = ab * Base + c
  BY <1>2
<1>6. x = Base * abc + d /\ x \in Nat
  BY <1>1, <1>2, <1>4, <1>5
<1>7. PICK cd \in 0..(two - 1) : cd = c * Base + d
  BY <1>1, <1>2, <1>3, PartAppended
<1>8. PICK bc \in 0..(two - 1) : bc = b * Base + c
  BY <1>1, <1>2, <1>3, PartAppended
<1>9. PICK bcd \in 0..(three - 1) : bcd = bc * Base + d
  BY <1>1, <1>2, <1>3, PartAppended
<1>10. x = two * ab + cd
  BY <1>2, <1>3, <1>4, <1>5, <1>6, <1>7
<1>11. x = three * a + bcd
  BY <1>2, <1>3, <1>4, <1>5, <1>6, <1>8, <1>9
<1>12. Weight(0) = 1 /\ Weight(1) = Base /\ Weight(2) = two /\ Weight(3) = three
  BY <1>3, Weights
<1>a. /\ Base \in Nat \ {0} /\ two \in Nat \ {0} /\ three \in Nat \ {0} /\ x \in Int
      /\ a \in Int /\ b \in Int /\ c \in Int /\ d \in Int /\ cd \in Int /\ bcd \in Int
      /\ ab \in Int /\ abc \in Int
      /\ 0 <= a /\ 0 <= b /\ 0 <= c /\ 0 <= d /\ 0 <= cd /\ 0 <= bcd
      /\ a < Base /\ b < Base /\ c < Base /\ d < Base /\ cd < two /\ bcd < three
  BY <1>2, <1>3, <1>6, <1>7, <1>9
<1>13. Part(x, 0) = d
  <2>1. x \div 1 = x
    BY <1>6
  <2>2. x % Base = d
    BY ONLY <1>a, <1>6, Quotient
  <2> QED
    BY <1>12, <2>1, <2>2 DEF Part
<1>14. Part(x, 1) = c
  <2>1. x \div Base = abc
    BY ONLY <1>a, <1>6, Quotient
  <2>2. abc = Base * ab + c
    BY <1>2, <1>5
  <2>3. abc % Base = c
    BY ONLY <1>a, <2>2, Quotient
  <2> QED
    BY <1>12, <2>1, <2>3 DEF Part
<1>15. Part(x, 2) = b
  <2>1. x \div two = ab
    BY ONLY <1>a, <1>10, Quotient
  <2>2. ab = Base * a + b
    BY <1>2, <1>4
  <2>3. ab % Base = b
    BY ONLY <1>a, <2>2, Quotient
  <2> QED
    BY <1>12, <2>1, <2>3 DEF Part
<1>16. Part(x, 3) = a
  <2>1. x \div three = a
    BY ONLY <1>a, <1>11, Quotient
  <2>2. a = Base * 0 + a
    BY <1>2
  <2>3. a % Base = a
    BY ONLY <1>a, <2>2, Quotient
  <2> QED
    BY <1>12, <2>1, <2>3 DEF Part
<1> QED
  BY <1>1, <1>13, <1>14, <1>15, <1>16

\* An address is a number, and the parts of a number are below Base.
LEMMA PartBelow ==
    ASSUME NEW x \in Nat, NEW n \in 0..3 PROVE Part(x, n) \in 0..(Base - 1)
<1>1. Base \in Nat \ {0} /\ Weight(n) \in Nat \ {0}
  BY Weights
<1>2. x \div Weight(n) \in Int
  BY <1>1, Divides
<1>3. (x \div Weight(n)) % Base \in Int /\ 0 <= (x \div Weight(n)) % Base
      /\ (x \div Weight(n)) % Base < Base
  BY <1>1, <1>2, Divides
<1> QED
  BY <1>1, <1>3 DEF Part

\* 0 is the number that has no other part than 0.
LEMMA ZeroParts ==
    Part(0, 3) = 0 /\ Part(0, 2) = 0 /\ Part(0, 1) = 0 /\ Part(0, 0) = 0
<1> DEFINE p == <<0, 0, 0, 0>>
<1>1. Base \in Nat \ {0}
  BY Weights
<1>2. Horner(p) = 0 /\ 0 \in 0..(Base - 1)
  BY <1>1 DEF Horner
<1>3. p[1] = 0 /\ p[2] = 0 /\ p[3] = 0 /\ p[4] = 0
  OBVIOUS
<1> HIDE DEF p
<1> QED
  BY <1>2, <1>3, PartsOf

\* The first part is at least half of Base if the address is at least half of them all.
LEMMA FirstHalf ==
    ASSUME NEW x \in IPs PROVE Part(x, 3) >= Base \div 2 <=> 2 * x > MaxIP
<1>1. PICK h \in Nat : Base = 2 * h /\ Base \div 2 = h /\ h > 0
  BY BaseAssumption
<1>2. Base \in Nat /\ x \in Nat
  BY <1>1, IPAssumption DEF IPs
<1>3. PICK w \in Nat : w = Base * Base * Base /\ w > 0 /\ w = Weight(3)
  BY Weights
<1>4. MaxIP = w * Base - 1 /\ x < w * Base
  BY <1>2, <1>3, LocationAssumption, IPAssumption DEF IPs
<1>5. PICK f \in Int, r \in Int : f = x \div w /\ x = w * f + r /\ 0 <= r /\ r < w
  BY <1>2, <1>3, Divides
<1>6. 0 <= f /\ f < Base
  <2>1. ASSUME f < 0 PROVE FALSE
    <3>1. w * (f + 1) <= 0
      BY <1>3, <2>1
    <3>2. w * (f + 1) = w * f + w
      BY <1>3
    <3> QED
      BY <1>2, <1>3, <1>5, <3>1, <3>2
  <2>2. ASSUME f >= Base PROVE FALSE
    <3>1. w * (f - Base) >= 0
      BY <1>2, <1>3, <2>2
    <3>2. w * (f - Base) = w * f - w * Base
      BY <1>2, <1>3
    <3> QED
      BY <1>2, <1>3, <1>4, <1>5, <3>1, <3>2
  <2> QED
    BY <1>2, <2>1, <2>2
<1>7. Part(x, 3) = f
  <2>1. f = Base * 0 + f
    BY <1>2
  <2>2. f % Base = f
    BY <1>1, <1>2, <1>6, <2>1, Quotient
  <2> QED
    BY <1>3, <1>5, <2>2 DEF Part
<1>8. w * h \in Nat /\ MaxIP = 2 * (w * h) - 1
  BY <1>1, <1>3, <1>4
<1>9. CASE f >= h
  <2>1. w * (f - h) >= 0 /\ w * (f - h) = w * f - w * h
    BY <1>1, <1>3, <1>9
  <2> QED
    BY <1>1, <1>2, <1>5, <1>7, <1>8, <1>9, <2>1
<1>10. CASE f < h
  <2>1. w * (h - f - 1) >= 0 /\ w * (h - f - 1) = w * h - w * f - w
    BY <1>1, <1>3, <1>10
  <2> QED
    BY <1>1, <1>2, <1>5, <1>7, <1>8, <1>10, <2>1
<1> QED
  BY <1>9, <1>10

\* What atoi makes of a number is a part if and only if a long holds the number and what it
\* leaves modulo the span of an int is that part; a number that an int holds stays itself.
LEMMA NumberHeld ==
    ASSUME NEW m \in Nat
    PROVE  /\ m < IntSpan \div 2 => AsInt(Strtol(m)) = m
           /\ AsInt(Strtol(m)) \in 0..(Base - 1) <=> m <= LongMax /\ m % IntSpan \in 0..(Base - 1)
           /\ AsInt(Strtol(m)) \in 0..(Base - 1) => AsInt(Strtol(m)) = m % IntSpan
<1>1. PICK h \in Nat : IntSpan = 2 * h /\ IntSpan \div 2 = h /\ Base < h /\ h > 0 /\ Base > 0
  BY BaseAssumption, IntAssumption
<1>2. IntSpan \in Nat \ {0} /\ LongMax \in Nat /\ LongMax >= h - 1
      /\ LongMax % IntSpan \in {h - 1, IntSpan - 1} /\ Base \in Nat
  BY <1>1, BaseAssumption, IntAssumption
<1>3. m % IntSpan \in Int /\ 0 <= m % IntSpan /\ m % IntSpan < IntSpan
  BY <1>2, Divides
<1>4. CASE m > LongMax
  <2>1. AsInt(Strtol(m)) = AsInt(LongMax)
    BY <1>4 DEF Strtol
  <2>2. AsInt(LongMax) \in {h - 1, -1}
    <3>1. CASE LongMax % IntSpan = h - 1
      BY <1>1, <3>1 DEF AsInt
    <3>2. CASE LongMax % IntSpan = IntSpan - 1
      BY <1>1, <3>2 DEF AsInt
    <3> QED
      BY <1>2, <3>1, <3>2
  <2>3. ~(m < h) /\ ~(m <= LongMax)
    BY <1>1, <1>2, <1>4
  <2>4. ~(AsInt(Strtol(m)) \in 0..(Base - 1))
    BY <1>1, <1>2, <2>1, <2>2
  <2> QED
    BY <1>1, <2>3, <2>4
<1>5. CASE ~(m > LongMax)
  <2> DEFINE low == m % IntSpan
  <2>1. AsInt(Strtol(m)) = IF low >= h THEN low - IntSpan ELSE low
    BY <1>1, <1>5 DEF Strtol, AsInt
  <2>2. m < h => low = m
    <3> SUFFICES ASSUME m < h PROVE m % IntSpan = m
      OBVIOUS
    <3>1. m = IntSpan * 0 + m /\ 0 <= m /\ m < IntSpan /\ m \in Int /\ 0 \in Int
      BY <1>1, <1>2
    <3> QED
      BY ONLY <1>2, <3>1, Quotient
  <2>3. m <= LongMax
    BY <1>2, <1>5
  <2> HIDE DEF low
  <2>4. low \in Int /\ 0 <= low /\ low < IntSpan
    BY <1>3 DEF low
  <2>5. CASE low >= h
    <3>1. AsInt(Strtol(m)) = low - IntSpan /\ ~(m < h)
      BY <2>1, <2>2, <2>5, <1>1
    <3>2. ~(AsInt(Strtol(m)) \in 0..(Base - 1)) /\ ~(low \in 0..(Base - 1))
      BY <1>1, <1>2, <2>4, <2>5, <3>1
    <3> QED
      BY <1>1, <3>1, <3>2 DEF low
  <2>6. CASE ~(low >= h)
    <3>1. AsInt(Strtol(m)) = low
      BY <2>1, <2>6
    <3> QED
      BY <1>1, <2>2, <2>3, <3>1 DEF low
  <2> QED
    BY <2>5, <2>6
<1> QED
  BY <1>4, <1>5

\* getIntIP takes the texts that are addresses, and the parts that they say.
LEMMA TextParsed ==
    ASSUME NEW t \in Seq(Letters)
    PROVE  /\ isValid(t) <=> IsDotted(t)
           /\ IsDotted(t) => \A n \in 1..4 : Part(getIntIP(t), 4 - n) = Held(t, n)
<1> DEFINE f(n) == Atoi(Field(t, n))
           p == [n \in 1..4 |-> f(n)]
           Taken == /\ Cardinality(Dots(t)) = 3
                    /\ \A k \in DOMAIN t : t[k] = Dot \/ IsDigit(t[k])
                    /\ \A n \in 1..4 : f(n) \in 0..(Base - 1)
           Shape == /\ Cardinality({k \in DOMAIN t : t[k] = Dot}) = 3
                    /\ \A k \in DOMAIN t : t[k] # Other
                    /\ \A n \in 1..4 : Value(t, n) <= LongMax /\ Held(t, n) \in 0..(Base - 1)
<1>1. getIntIP(t) = IF Taken THEN Horner(p) ELSE 0
  BY DEF getIntIP
<1>2. IsDotted(t) <=> Shape /\ \E n \in 1..4 : Held(t, n) # 0
  BY Zenon DEF IsDotted
<1>3. \A k \in DOMAIN t : t[k] # Other <=> t[k] = Dot \/ IsDigit(t[k])
  BY DEF Letters, IsDigit, Dot, Other
<1>4. ASSUME Cardinality(Dots(t)) = 3, \A k \in DOMAIN t : t[k] # Other, NEW n \in 1..4
      PROVE  /\ f(n) \in 0..(Base - 1) <=> Value(t, n) <= LongMax /\ Held(t, n) \in 0..(Base - 1)
             /\ f(n) \in 0..(Base - 1) => f(n) = Held(t, n)
  <2>1. Value(t, n) = Number(Field(t, n)) /\ Value(t, n) \in Nat
    BY <1>4, Values
  <2>2. f(n) = AsInt(Strtol(Value(t, n)))
    BY <2>1 DEF Atoi
  <2> QED
    BY <2>1, <2>2, NumberHeld DEF Held
<1> HIDE DEF f
<1>5. Taken <=> Shape
  <2>1. Cardinality(Dots(t)) = 3 <=> Cardinality({k \in DOMAIN t : t[k] = Dot}) = 3
    BY DotsCounted
  <2> QED
    BY <1>3, <1>4, <2>1
<1>6. CASE ~Taken
  <2>1. getIntIP(t) = 0
    BY <1>1, <1>6
  <2> QED
    BY <1>2, <1>5, <1>6, <2>1 DEF isValid
<1>7. CASE Taken
  <2> DEFINE x == getIntIP(t)
  <2>1. x = Horner(p)
    BY <1>1, <1>7
  <2>2. /\ p[1] = f(1) /\ p[2] = f(2) /\ p[3] = f(3) /\ p[4] = f(4)
        /\ f(1) \in 0..(Base - 1) /\ f(2) \in 0..(Base - 1) /\ f(3) \in 0..(Base - 1)
        /\ f(4) \in 0..(Base - 1)
    BY <1>7
  <2> HIDE DEF p, x
  <2>3. Part(x, 3) = f(1) /\ Part(x, 2) = f(2) /\ Part(x, 1) = f(3) /\ Part(x, 0) = f(4)
    BY <2>1, <2>2, PartsOf
  <2>4. ASSUME NEW n \in 1..4 PROVE Part(x, 4 - n) = f(n) /\ f(n) = Held(t, n)
    <3>1. f(n) = Held(t, n)
      BY <1>3, <1>4, <1>7
    <3>2. n = 1 \/ n = 2 \/ n = 3 \/ n = 4
      OBVIOUS
    <3>3. 4 - 1 = 3 /\ 4 - 2 = 2 /\ 4 - 3 = 1 /\ 4 - 4 = 0
      OBVIOUS
    <3> QED
      BY <2>3, <3>1, <3>2, <3>3
  <2>5. x = 0 => \A n \in 1..4 : Held(t, n) = 0
    <3> SUFFICES ASSUME x = 0, NEW n \in 1..4 PROVE Held(t, n) = 0
      OBVIOUS
    <3>1. Part(0, 4 - n) = 0
      <4>1. 4 - n = 0 \/ 4 - n = 1 \/ 4 - n = 2 \/ 4 - n = 3
        OBVIOUS
      <4> QED
        BY <4>1, ZeroParts
    <3> QED
      BY <2>4, <3>1
  <2>6. (\A n \in 1..4 : Held(t, n) = 0) => x = 0
    <3> SUFFICES ASSUME \A n \in 1..4 : Held(t, n) = 0 PROVE x = 0
      OBVIOUS
    <3>1. f(1) = 0 /\ f(2) = 0 /\ f(3) = 0 /\ f(4) = 0
      BY <2>4
    <3>2. Base \in Nat
      BY Weights
    <3> QED
      BY <2>1, <2>2, <3>1, <3>2 DEF Horner
  <2>7. isValid(t) <=> x # 0
    BY DEF isValid, x
  <2>8. \A n \in 1..4 : Part(getIntIP(t), 4 - n) = Held(t, n)
    BY <2>4 DEF x
  <2>9. isValid(t) <=> \E n \in 1..4 : Held(t, n) # 0
    BY <2>5, <2>6, <2>7
  <2> QED
    BY <1>2, <1>5, <1>7, <2>8, <2>9
<1> QED
  BY <1>6, <1>7

-----------------------------------------------------------------------------
(* What a query is answered, with and without a usable file                *)

\* What is asked: a number or a text.
Askable == {<<"number", a>> : a \in IPs} \cup {<<"text", t>> : t \in Seq(Letters)}

\* The decimal digits of a part.
LEMMA DecimalDigits ==
    ASSUME NEW p \in 0..255 PROVE Decimal(p) \in Seq(Letters)
<1>1. 0..9 \subseteq Letters
  BY DEF Letters
<1>2. CASE p < 10
  <2>1. p \in 0..9 /\ Decimal(p) = <<p>>
    BY <1>2 DEF Decimal
  <2> QED
    BY <1>1, <2>1
<1>3. CASE p >= 10 /\ p < 100
  <2>1. p \div 10 \in 0..9 /\ p % 10 \in 0..9 /\ Decimal(p) = <<p \div 10, p % 10>>
    BY <1>3 DEF Decimal
  <2> QED
    BY <1>1, <2>1
<1>4. CASE p >= 100
  <2>1. p \div 100 \in 0..9 /\ (p \div 10) % 10 \in 0..9 /\ p % 10 \in 0..9
        /\ Decimal(p) = <<p \div 100, (p \div 10) % 10, p % 10>>
    BY <1>4 DEF Decimal
  <2> QED
    BY <1>1, <2>1
<1> QED
  BY <1>2, <1>3, <1>4

\* Whatever is asked is a number or a text.
LEMMA QueriesAskable == Queries \subseteq Askable
<1>1. ASSUME NEW a \in Bounds PROVE <<"number", a>> \in Askable
  BY LocationAssumption DEF Askable
<1>2. ASSUME NEW a \in IPs PROVE TextOf(a) \in Seq(Letters)
  <2>1. a \in Nat
    BY IPAssumption DEF IPs
  <2>2. Part(a, 3) \in 0..255 /\ Part(a, 2) \in 0..255 /\ Part(a, 1) \in 0..255 /\ Part(a, 0) \in 0..255
    <3>1. \A n \in 0..3 : Part(a, n) \in 0..255
      <4>1. Base \in Nat /\ Base <= 256
        BY BaseAssumption
      <4>2. \A n \in 0..3 : Part(a, n) \in 0..(Base - 1)
        BY <2>1, PartBelow
      <4> QED
        BY <4>1, <4>2
    <3> QED
      BY <3>1
  <2>3. <<Dot>> \in Seq(Letters)
    BY DEF Letters
  <2> QED
    <3>1. \A s, r \in Seq(Letters) : s \o r \in Seq(Letters)
      OBVIOUS
    <3>2. /\ Decimal(Part(a, 3)) \in Seq(Letters) /\ Decimal(Part(a, 2)) \in Seq(Letters)
          /\ Decimal(Part(a, 1)) \in Seq(Letters) /\ Decimal(Part(a, 0)) \in Seq(Letters)
      BY <2>2, DecimalDigits
    <3>3. TextOf(a) = Decimal(Part(a, 3)) \o <<Dot>> \o Decimal(Part(a, 2)) \o <<Dot>>
                      \o Decimal(Part(a, 1)) \o <<Dot>> \o Decimal(Part(a, 0))
      BY DEF TextOf
    <3> QED
      BY ONLY <2>3, <3>1, <3>2, <3>3
<1>3. ASSUME NEW t \in Texts PROVE t \in Seq(Letters)
  <2>1. PICK n \in 0..MaxText : t \in [1..n -> Digits \cup {Dot, Other}]
    BY DEF Texts
  <2>2. n \in Nat /\ Digits \cup {Dot, Other} \subseteq Letters
    <3>1. MaxText \in Nat /\ Digits \subseteq 0..9
      BY LocationAssumption
    <3>2. n \in Nat
      BY <3>1
    <3> QED
      BY <3>1, <3>2 DEF Letters
  <2>3. t \in [1..n -> Letters]
    BY <2>1, <2>2
  <2> QED
    BY <2>2, <2>3
<1>4. <<Other>> \in Seq(Letters)
  BY DEF Letters
<1> QED
  BY <1>1, <1>2, <1>3, <1>4 DEF Queries, Askable

\* The address of a call is that of its argument, the file is open only during the search, and
\* what is answered follows from the argument and the file alone.
EInv ==
    /\ file \in {"sound", "absent", "broken"} /\ stage \in {"idle", "call", "search", "answered", "undefined"}
    /\ stage # "idle" => query \in Askable /\ ip = Address(query)
    /\ isOpen => stage = "search"
    /\ stage = "search" => file = "sound" /\ (query[1] = "text" => isValid(query[2]))
    /\ stage = "answered" =>
         IF query[1] = "text" /\ ~isValid(query[2]) THEN answer = <<"address", toString(ip)>>
         ELSE IF file = "sound" THEN answer[1] = "location"
         ELSE answer = <<"address", toString(ip)>>
    /\ stage = "undefined" => /\ Overruns(toString(ip))
                              /\ (query[1] = "text" /\ ~isValid(query[2])) \/ file # "sound"

\* Each step of a query keeps it.
LEMMA EStep == EInv /\ [LNext]_locationVars => EInv'
<1> SUFFICES ASSUME EInv, [LNext]_locationVars PROVE EInv'
  OBVIOUS
<1>1. CASE UNCHANGED locationVars
  BY <1>1 DEF EInv, locationVars, vars, Address
<1>2. CASE Ask
  <2>1. stage = "idle" /\ stage' = "call" /\ UNCHANGED <<file, isOpen>>
        /\ \E q \in Queries : query' = q /\ ip' = Address(q)
    BY <1>2 DEF Ask
  <2>2. query' \in Askable /\ ip' = Address(query')
    BY <2>1, QueriesAskable
  <2> QED
    BY <2>1, <2>2 DEF EInv, Address
<1>3. ASSUME Refuse \/ NoFile \/ NoIndex PROVE EInv'
  <2>1. /\ stage = "call" /\ UNCHANGED <<ip, file, isOpen, query>>
        /\ \/ stage' = "answered" /\ answer' = <<"address", toString(ip)>>
           \/ stage' = "undefined" /\ Overruns(toString(ip))
        /\ \/ query[1] = "text" /\ ~isValid(query[2])
           \/ (query[1] = "text" => isValid(query[2])) /\ (file # "sound" \/ isOpen)
    <3>1. CASE Refuse
      BY <3>1 DEF Refuse, Echo, Answer, vars
    <3>2. CASE NoFile
      BY <3>2 DEF NoFile, Accepted, Echo, Answer, vars
    <3>3. CASE NoIndex
      BY <3>3 DEF NoIndex, Accepted, Echo, Answer, vars
    <3> QED
      BY <1>3, <3>1, <3>2, <3>3
  <2>2. ~isOpen
    BY <2>1 DEF EInv
  <2>3. toString(ip') = toString(ip) /\ Address(query') = Address(query)
    BY <2>1
  <2> QED
    BY <2>1, <2>2, <2>3 DEF EInv
<1>4. CASE OpenFile
  <2>1. /\ stage = "call" /\ stage' = "search" /\ UNCHANGED <<ip, file, query>> /\ file = "sound"
        /\ (query[1] = "text" => isValid(query[2]))
    BY <1>4 DEF OpenFile, Accepted, vars
  <2> QED
    BY <2>1 DEF EInv, Address
<1>5. CASE Search
  <2>1. stage = "search" /\ UNCHANGED <<ip, file, stage, query, answer>> /\ isOpen' = FALSE
    BY <1>5 DEF Search, Enter, Loop, Exit, database
  <2> QED
    BY <2>1 DEF EInv, Address
<1>6. CASE Locate
  <2>1. /\ stage = "search" /\ stage' = "answered" /\ UNCHANGED <<ip, file, query>> /\ isOpen' = FALSE
        /\ answer'[1] = "location"
    BY <1>6 DEF Locate, Answer, vars
  <2> QED
    BY <2>1 DEF EInv, Address
<1>7. CASE PrintLocation
  <2>1. stage = "answered" /\ stage' = "idle" /\ UNCHANGED <<file, isOpen>>
    BY <1>7 DEF PrintLocation
  <2> QED
    BY <2>1 DEF EInv
<1>8. CASE Undefined
  BY <1>1, <1>8 DEF Undefined
<1> QED
  BY <1>1, <1>2, <1>3, <1>4, <1>5, <1>6, <1>7, <1>8 DEF LNext, Query

\* Every query of every file keeps its address and gets the answer that is due.
THEOREM AnswerInvariance == LSpec => []EInv
<1>1. LInit => EInv
  BY DEF LInit, EInv
<1> QED
  BY <1>1, EStep, PTL DEF LSpec

\* getIntIP takes a text for an address if and only if it is one, and reads its parts.
THEOREM TextsParsed == LSpec => []ParsesDotted
<1>1. EInv => ParsesDotted
  <2> SUFFICES ASSUME EInv, stage = "call", query[1] = "text"
               PROVE  /\ isValid(query[2]) <=> IsDotted(query[2])
                      /\ IsDotted(query[2]) => \A n \in 1..4 : Part(ip, 4 - n) = Held(query[2], n)
    BY DEF ParsesDotted
  <2>1. query \in Askable /\ ip = Address(query)
    BY DEF EInv
  <2>2. query[2] \in Seq(Letters)
    BY <2>1 DEF Askable
  <2>3. ip = getIntIP(query[2])
    BY <2>1 DEF Address
  <2> QED
    BY <2>2, <2>3, TextParsed
<1> QED
  BY <1>1, AnswerInvariance, PTL

\* An address that is printed without a sign fits the buffer, NUL and all.
LEMMA SignOverruns ==
    ASSUME NEW x \in IPs, Overruns(toString(x)) PROVE 2 * x > MaxIP
<1> SUFFICES ASSUME ~(2 * x > MaxIP) PROVE FALSE
  OBVIOUS
<1>1. x \in Nat /\ Base \in Nat
  BY IPAssumption, BaseAssumption DEF IPs
<1>2. ~(Part(x, 3) >= Base \div 2)
  BY FirstHalf
<1>3. toString(x) = <<Part(x, 3), Part(x, 2), Part(x, 1), Part(x, 0)>>
  BY <1>2 DEF toString
<1>4. ASSUME NEW n \in 0..3
      PROVE  Printed(Part(x, n)) \in Nat /\ 4 * Printed(Part(x, n)) + 3 < AddressLen
  <2>1. Part(x, n) \in 0..(Base - 1)
    BY <1>1, PartBelow
  <2>2. Printed(Part(x, n)) = Len(Decimal(Part(x, n)))
    BY <1>1, <2>1 DEF Printed
  <2>3. Len(Decimal(Part(x, n))) \in Nat
    BY DEF Decimal
  <2>4. 4 * Len(Decimal(Part(x, n))) + 3 < AddressLen
    BY <2>1, AddressAssumption
  <2> QED
    BY ONLY <2>2, <2>3, <2>4
<1>5. Printed(Part(x, 3)) + Printed(Part(x, 2)) + Printed(Part(x, 1)) + Printed(Part(x, 0)) + 3
        >= AddressLen
  BY <1>3 DEF Overruns
<1>6. 0 \in 0..3 /\ 1 \in 0..3 /\ 2 \in 0..3 /\ 3 \in 0..3
  OBVIOUS
<1>7. /\ Printed(Part(x, 0)) \in Nat /\ 4 * Printed(Part(x, 0)) + 3 < AddressLen
      /\ Printed(Part(x, 1)) \in Nat /\ 4 * Printed(Part(x, 1)) + 3 < AddressLen
      /\ Printed(Part(x, 2)) \in Nat /\ 4 * Printed(Part(x, 2)) + 3 < AddressLen
      /\ Printed(Part(x, 3)) \in Nat /\ 4 * Printed(Part(x, 3)) + 3 < AddressLen
  BY <1>4, <1>6
<1>8. AddressLen \in Nat
  BY AddressAssumption
<1> QED
  BY ONLY <1>5, <1>7, <1>8

\* A query that finds no usable file is answered by the address, refused texts by 0.0.0.0.
THEOREM AddressEchoed == LSpec => []EchoesAddress
<1>1. EInv => EchoesAddress
  <2> SUFFICES ASSUME EInv, stage \in {"answered", "undefined"}
               PROVE  IF stage = "undefined" THEN file # "sound" /\ 2 * ip > MaxIP
                      ELSE IF query[1] = "text" /\ ~IsDotted(query[2])
                      THEN answer = <<"address", <<0, 0, 0, 0>>>>
                      ELSE IF file = "sound" THEN answer[1] = "location"
                      ELSE /\ answer[1] = "address"
                           /\ \A n \in 2..4 : answer[2][n] = Part(ip, 4 - n)
                           /\ answer[2][1] \in {Part(ip, 3), Part(ip, 3) - Base}
                           /\ answer[2][1] < 0 <=> 2 * ip > MaxIP
    BY DEF EchoesAddress
  <2>1. query \in Askable /\ ip = Address(query)
    BY DEF EInv
  <2>2. query[1] = "text" => /\ query[2] \in Seq(Letters) /\ ip = getIntIP(query[2])
                             /\ isValid(query[2]) <=> IsDotted(query[2])
    <3>1. query[1] = "text" => query[2] \in Seq(Letters)
      BY <2>1 DEF Askable
    <3>2. query[1] = "text" => ip = getIntIP(query[2])
      BY <2>1 DEF Address
    <3> QED
      BY <3>1, <3>2, TextParsed
  <2>3. ip \in IPs
    <3>1. CASE query[1] = "text"
      BY <2>2, <3>1, TextIsAddress
    <3>2. CASE query[1] # "text"
      <4>1. ip = query[2]
        BY <2>1, <3>2 DEF Address
      <4> QED
        BY <2>1, <3>2, <4>1 DEF Askable
    <3> QED
      BY <3>1, <3>2
  <2>7. CASE stage = "undefined"
    <3>1. Overruns(toString(ip)) /\ ((query[1] = "text" /\ ~isValid(query[2])) \/ file # "sound")
      BY <2>7 DEF EInv
    <3>2. 2 * ip > MaxIP
      BY <2>3, <3>1, SignOverruns
    <3>3. ip # 0
      BY <3>2, IPAssumption
    <3>4. ~(query[1] = "text" /\ ~isValid(query[2]))
      BY <2>2, <3>3 DEF isValid
    <3> QED
      BY <2>7, <3>1, <3>2, <3>4
  <2>4. CASE stage = "answered" /\ query[1] = "text" /\ ~IsDotted(query[2])
    <3>1. ip = 0 /\ answer = <<"address", toString(ip)>>
      BY <2>2, <2>4 DEF EInv, isValid
    <3>2. ~(0 >= Base \div 2)
      BY BaseAssumption
    <3>3. toString(0) = <<0, 0, 0, 0>>
      <4>1. toString(0) = <<IF Part(0, 3) >= Base \div 2 THEN Part(0, 3) - Base ELSE Part(0, 3),
                            Part(0, 2), Part(0, 1), Part(0, 0)>>
        BY DEF toString
      <4> QED
        BY ONLY <3>2, <4>1, ZeroParts
    <3> QED
      BY <2>4, <3>1, <3>3
  <2>5. CASE stage = "answered" /\ ~(query[1] = "text" /\ ~IsDotted(query[2])) /\ file = "sound"
    BY <2>2, <2>5 DEF EInv
  <2>6. CASE stage = "answered" /\ ~(query[1] = "text" /\ ~IsDotted(query[2])) /\ file # "sound"
    <3>1. answer = <<"address", toString(ip)>>
      BY <2>2, <2>6 DEF EInv
    <3> DEFINE first == Part(ip, 3)
    <3>2. first \in 0..(Base - 1) /\ Base \in Nat
      BY <2>3, PartBelow, BaseAssumption, IPAssumption DEF IPs
    <3>3. first >= Base \div 2 <=> 2 * ip > MaxIP
      BY <2>3, FirstHalf
    <3>4. answer[2] = <<IF first >= Base \div 2 THEN first - Base ELSE first,
                        Part(ip, 2), Part(ip, 1), Part(ip, 0)>> /\ answer[1] = "address"
      BY <3>1 DEF toString
    <3> HIDE DEF first
    <3>5. /\ answer[2][1] = (IF first >= Base \div 2 THEN first - Base ELSE first)
          /\ answer[2][2] = Part(ip, 2) /\ answer[2][3] = Part(ip, 1) /\ answer[2][4] = Part(ip, 0)
      BY <3>4
    <3>6. \A n \in 2..4 : answer[2][n] = Part(ip, 4 - n)
      <4>1. \A n \in 2..4 : (n = 2 /\ 4 - n = 2) \/ (n = 3 /\ 4 - n = 1) \/ (n = 4 /\ 4 - n = 0)
        OBVIOUS
      <4> QED
        BY <3>5, <4>1
    <3>7. answer[2][1] \in {first, first - Base} /\ (answer[2][1] < 0 <=> 2 * ip > MaxIP)
      <4>1. CASE first >= Base \div 2
        BY <3>2, <3>3, <3>5, <4>1
      <4>2. CASE ~(first >= Base \div 2)
        BY <3>2, <3>3, <3>5, <4>2
      <4> QED
        BY <4>1, <4>2
    <3> QED
      BY <2>6, <3>4, <3>6, <3>7 DEF first
  <2> QED
    BY <2>4, <2>5, <2>6, <2>7
<1> QED
  BY <1>1, AnswerInvariance, PTL
=============================================================================

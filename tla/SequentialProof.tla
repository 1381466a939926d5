--------------------------- MODULE SequentialProof ---------------------------
(***************************************************************************)
(* The programs of which one process runs alone and every input is a       *)
(* constant: the search in a string, the chunks of hexadecimal digits, and *)
(* the walk over a FAT image.                                              *)
(*                                                                         *)
(* string_find is correct for strings of every length, and string_compare  *)
(* differs from strncmp as stated.  The inductive invariant of the         *)
(* recursion: the characters already compared agree, and dst occurs        *)
(* nowhere before pos.  That the bytes read are inside of the strings      *)
(* follows from the first part, since a NUL of str agrees with no          *)
(* character of dst.                                                       *)
(*                                                                         *)
(* hex-dec reads its chunks as numbers: after n turns of the loop the      *)
(* number is what has been read plus base times the characters before,     *)
(* up to multiples of 65536.                                               *)
(*                                                                         *)
(* fat-shell reads the table of the active FAT, takes whole long names,    *)
(* and lists the tree of a sound image, for images, clusters and buffers   *)
(* of every size.  The properties speak of the entries of an image, which  *)
(* are chosen as they are read; the invariants speak of what has been seen *)
(* of it, which stays.  WalkOK ties the calls and the lines to it.  That   *)
(* nothing is shown twice holds only for as long as nothing seen shows     *)
(* that the image is not sound: Tainted \/ Once is what steps preserve.    *)
(***************************************************************************)
EXTENDS StringAlgorithms, FatShell, WellFoundedInduction, TLAPS

-----------------------------------------------------------------------------
(* The search in a string                                                  *)

\* What a call of string_find_recurse may assume when dst is not empty.
Searching ==
    pc = "recurse" /\ dlen > 0 =>
        /\ dlen <= slen
        /\ target_len \in 1..dlen
        /\ pos + offset <= slen
        /\ \A k \in 0..(offset - 1) : str[pos + k] = dst[k]
        /\ \A p \in 0..(pos - 1) : ~OccursAt(p)

\* With an empty dst string_find returns nothing.
EmptyRunsOut ==
    dlen = 0 => /\ target_len <= 0
                /\ pc # "return"

Inv == TypeOK /\ Searching /\ EmptyRunsOut /\ FindsFirst /\ ReadsInside

-----------------------------------------------------------------------------
\* Where the characters compared so far agree, the next byte read is in str: they
\* are not NUL, so str does not end before it.
LEMMA NextByteInside ==
    ASSUME slen \in Nat, dlen \in Nat, IsString(str, slen), IsString(dst, dlen),
           NEW p \in 0..slen, NEW o \in 0..(dlen - 1), p + o <= slen,
           str[p + o] = dst[o]
    PROVE  p + o + 1 <= slen
  <1>1. dst[o] # NUL
    BY SMT DEF IsString
  <1>2. p + o \in 0..slen
    BY SMT
  <1>3. p + o # slen
    BY <1>1, <1>2 DEF IsString
  <1> QED BY <1>2, <1>3

\* The invariant holds when string_find is called, whatever the strings.
THEOREM InitInv == Init => Inv
  <1> SUFFICES ASSUME Init PROVE Inv
    OBVIOUS
  <1>1. slen \in Nat /\ dlen \in Nat
    BY StringAssumption DEF Init
  <1>2. TypeOK
    BY <1>1 DEF Init, TypeOK
  <1>3. Searching /\ EmptyRunsOut /\ FindsFirst /\ ReadsInside
    BY <1>1 DEF Init, Searching, EmptyRunsOut, FindsFirst, ReadsInside
  <1> QED BY <1>2, <1>3 DEF Inv

\* Every call of string_find_recurse keeps the invariant: one step per disjunct of Next.
THEOREM NextInv == Inv /\ [Next]_vars => Inv'
  <1> SUFFICES ASSUME Inv, [Next]_vars PROVE Inv'
    OBVIOUS
  <1> USE DEF Inv
  <1>0. /\ slen \in Nat /\ dlen \in Nat /\ pos \in Nat /\ pos <= slen
        /\ target_len \in Int /\ target_len <= dlen /\ offset = dlen - target_len
    BY DEF TypeOK, offset
  <1>1. CASE UNCHANGED vars
    BY <1>1 DEF vars, strings, TypeOK, IsString, Searching, EmptyRunsOut, FindsFirst,
         ReadsInside, OccursAt, offset
  <1>2. ASSUME UNCHANGED strings
        PROVE  /\ slen' = slen /\ dlen' = dlen /\ str' = str /\ dst' = dst
               /\ IsString(str, slen)' /\ IsString(dst, dlen)'
    BY <1>2 DEF strings, TypeOK, IsString
  \* Returning a position where dst occurs, none before it, is right.
  <1>3. ASSUME NEW position, Return(position), pc # "return", dlen > 0,
               \/ /\ position \in 0..slen /\ OccursAt(position)
                  /\ \A p \in 0..(position - 1) : ~OccursAt(p)
               \/ position = -1 /\ \A p \in 0..slen : ~OccursAt(p)
        PROVE  Inv'
    <2>0. UNCHANGED <<strings, pos, target_len>> /\ pc' = "return" /\ result' = position
      BY <1>3 DEF Return
    <2>1. TypeOK'
      BY <2>0, <1>0, <1>2, <1>3 DEF TypeOK
    <2>2. Searching' /\ EmptyRunsOut' /\ ReadsInside'
      BY <2>0, <1>2, <1>3 DEF Searching, EmptyRunsOut, ReadsInside
    <2>3. ASSUME NEW p PROVE OccursAt(p)' <=> OccursAt(p)
      BY <2>0, <1>2 DEF OccursAt
    <2>4. FindsFirst'
      BY <2>0, <2>3, <1>0, <1>2, <1>3 DEF FindsFirst
    <2> QED BY <2>1, <2>2, <2>4
  <1>4. CASE Call
    <2>1. CASE slen < dlen /\ Return(-1)
      <3>1. \A p \in 0..slen : ~OccursAt(p)
        BY <2>1, <1>0 DEF OccursAt
      <3> QED BY <3>1, <2>1, <1>0, <1>3, <1>4 DEF Call
    <2>2. CASE slen >= dlen /\ Recurse(0, dlen)
      <3>0. /\ UNCHANGED strings /\ pc' = "recurse" /\ pos' = 0 /\ target_len' = dlen
            /\ result' = result
        BY <2>2 DEF Recurse
      <3>1. TypeOK'
        BY <3>0, <1>0, <1>2 DEF TypeOK
      <3>2. offset' = 0
        BY <3>0, <1>0, <1>2 DEF offset
      <3>3. Searching' /\ EmptyRunsOut' /\ FindsFirst' /\ ReadsInside'
        BY <3>0, <3>2, <2>2, <1>0, <1>2 DEF Searching, EmptyRunsOut, FindsFirst, ReadsInside
      <3> QED BY <3>1, <3>3
    <2> QED BY <1>4, <2>1, <2>2 DEF Call
  <1>5. CASE ReadOutside
    <2>0. UNCHANGED <<strings, pos, target_len, result>> /\ pc' = "undefined"
      BY <1>5 DEF ReadOutside
    <2>1. dlen = 0
      <3>1. ~InStrings /\ pc = "recurse"
        BY <1>5 DEF ReadOutside
      <3>2. dlen > 0 => pos + offset \in 0..slen /\ offset \in 0..dlen
        BY <3>1, <1>0 DEF Searching
      <3> QED BY <3>1, <3>2, <1>0 DEF InStrings
    <2>2. TypeOK'
      BY <2>0, <1>2 DEF TypeOK
    <2>3. Searching' /\ EmptyRunsOut' /\ FindsFirst' /\ ReadsInside'
      BY <2>0, <2>1, <1>2 DEF Searching, EmptyRunsOut, FindsFirst, ReadsInside
    <2> QED BY <2>2, <2>3
  <1>6. CASE Match
    <2>0. pc = "recurse" /\ str[pos + offset] = dst[offset] /\ InStrings
      BY <1>6 DEF Match, Same
    <2>1. CASE target_len = 1 /\ Return(pos)
      <3>1. dlen > 0 /\ offset = dlen - 1
        BY <2>1, <1>0 DEF EmptyRunsOut
      <3>2. \A k \in 0..(dlen - 1) : str[pos + k] = dst[k]
        BY <2>0, <3>1, <1>0 DEF Searching
      <3>3. pos + dlen <= slen
        BY <2>0, <3>1, <1>0, NextByteInside DEF TypeOK, Searching
      <3>4. OccursAt(pos)
        BY <3>2, <3>3 DEF OccursAt
      <3>5. \A p \in 0..(pos - 1) : ~OccursAt(p)
        BY <2>0, <3>1 DEF Searching
      <3> QED BY <2>0, <2>1, <3>1, <3>4, <3>5, <1>0, <1>3
    <2>2. CASE target_len # 1 /\ Recurse(pos, target_len - 1)
      <3>0. /\ UNCHANGED strings /\ pc' = "recurse" /\ pos' = pos
            /\ target_len' = target_len - 1 /\ result' = result
        BY <2>2 DEF Recurse
      <3>1. offset' = offset + 1
        BY <3>0, <1>0, <1>2 DEF offset
      <3>2. target_len' \in -1..dlen
        BY <3>0, <2>0, <1>0 DEF InStrings
      <3>3. TypeOK'
        BY <3>0, <3>2, <1>0, <1>2 DEF TypeOK
      <3>4. ASSUME dlen > 0 PROVE Searching'
        <4>1. target_len \in 2..dlen /\ offset \in 0..(dlen - 1) /\ pos + offset <= slen
          BY <2>0, <2>2, <3>4, <1>0 DEF Searching
        <4>2. pos + offset + 1 <= slen
          BY <4>1, <2>0, <1>0, NextByteInside DEF TypeOK
        <4>3. \A k \in 0..offset : str[pos + k] = dst[k]
          BY <4>1, <2>0, <3>4, <1>0 DEF Searching
        <4>4. \A p \in 0..(pos - 1) : ~OccursAt(p)
          BY <2>0, <3>4 DEF Searching
        <4>5. ASSUME NEW p PROVE OccursAt(p)' <=> OccursAt(p)
          BY <3>0, <1>2 DEF OccursAt
        <4>6. dlen <= slen
          BY <2>0, <3>4 DEF Searching
        <4>7. /\ dlen' <= slen' /\ target_len' \in 1..dlen' /\ pos' + offset' <= slen'
              /\ offset' - 1 = offset
          BY <4>1, <4>2, <4>6, <3>0, <3>1, <1>0, <1>2
        <4>8. /\ \A k \in 0..(offset' - 1) : str'[pos' + k] = dst'[k]
              /\ \A p \in 0..(pos' - 1) : ~OccursAt(p)'
          BY <4>3, <4>4, <4>5, <4>7, <3>0, <1>2
        <4> QED BY <4>7, <4>8 DEF Searching
      <3>5. ASSUME dlen = 0 PROVE Searching'
        BY <3>0, <3>5, <1>2 DEF Searching
      <3>6. EmptyRunsOut' /\ FindsFirst' /\ ReadsInside'
        BY <3>0, <1>0, <1>2 DEF EmptyRunsOut, FindsFirst, ReadsInside
      <3> QED BY <3>3, <3>4, <3>5, <3>6, <1>0
    <2> QED BY <1>6, <2>1, <2>2 DEF Match
  <1>7. CASE Mismatch
    <2>0. pc = "recurse" /\ str[pos + offset] # dst[offset] /\ InStrings
      BY <1>7 DEF Mismatch, Same
    <2>1. CASE pos >= slen - target_len /\ Return(-1)
      <3>1. dlen > 0
        <4>1. ASSUME dlen = 0 PROVE FALSE
          <5>1. target_len = 0 /\ offset = 0 /\ pos = slen
            BY <4>1, <2>0, <2>1, <1>0 DEF EmptyRunsOut, InStrings
          <5>2. str[pos + offset] = NUL /\ dst[offset] = NUL
            BY <5>1, <4>1, <1>0 DEF TypeOK, IsString
          <5> QED BY <5>2, <2>0
        <4> QED BY <4>1, <1>0
      <3>2. ASSUME NEW p \in 0..slen, OccursAt(p) PROVE FALSE
        <4>1. p >= pos
          BY <2>0, <3>1, <3>2, <1>0 DEF Searching
        <4>2. CASE p = pos
          <5>1. offset \in 0..(dlen - 1)
            BY <2>0, <3>1, <1>0 DEF Searching
          <5> QED BY <5>1, <4>2, <2>0, <3>2 DEF OccursAt
        <4>3. CASE p > pos
          BY <4>3, <2>1, <3>2, <1>0 DEF OccursAt
        <4> QED BY <4>1, <4>2, <4>3, <1>0
      <3> QED BY <2>0, <2>1, <3>1, <3>2, <1>3
    <2>2. CASE pos < slen - target_len /\ Recurse(pos + 1, dlen)
      <3>0. /\ UNCHANGED strings /\ pc' = "recurse" /\ pos' = pos + 1
            /\ target_len' = dlen /\ result' = result
        BY <2>2 DEF Recurse
      <3>1. offset' = 0
        BY <3>0, <1>0, <1>2 DEF offset
      <3>2. pos + 1 <= slen
        <4>1. CASE dlen > 0
          <5>1. target_len >= 1
            BY <4>1, <2>0, <1>0 DEF Searching
          <5> QED BY <5>1, <2>2, <1>0
        <4>2. CASE dlen = 0
          <5>1. target_len = 0
            BY <4>2, <2>0, <1>0 DEF EmptyRunsOut, InStrings
          <5> QED BY <5>1, <2>2, <1>0
        <4> QED BY <4>1, <4>2, <1>0
      <3>3. TypeOK'
        BY <3>0, <3>2, <1>0, <1>2 DEF TypeOK
      <3>4. ASSUME dlen > 0 PROVE ~OccursAt(pos) /\ dlen <= slen
        <4>1. offset \in 0..(dlen - 1) /\ dlen <= slen
          BY <2>0, <3>4, <1>0 DEF Searching
        <4> QED BY <4>1, <2>0 DEF OccursAt
      <3>5. ASSUME NEW p PROVE OccursAt(p)' <=> OccursAt(p)
        BY <3>0, <1>2 DEF OccursAt
      <3>6. Searching'
        <4> SUFFICES ASSUME dlen > 0 PROVE Searching'
          BY <3>0, <1>2 DEF Searching
        <4>1. \A p \in 0..pos : ~OccursAt(p)
          BY <3>4, <2>0, <1>0 DEF Searching
        <4>2. pos' - 1 = pos
          BY <3>0, <1>0
        <4>3. \A p \in 0..(pos' - 1) : ~OccursAt(p)'
          BY <4>1, <4>2, <3>5
        <4> QED BY <4>3, <3>0, <3>1, <3>2, <3>4, <1>0, <1>2 DEF Searching
      <3>7. EmptyRunsOut' /\ FindsFirst' /\ ReadsInside'
        BY <3>0, <1>0, <1>2 DEF EmptyRunsOut, FindsFirst, ReadsInside
      <3> QED BY <3>3, <3>6, <3>7
    <2> QED BY <1>7, <2>1, <2>2, <1>0 DEF Mismatch
  <1>8. CASE Done
    BY <1>1, <1>8 DEF Done
  <1> QED BY <1>1, <1>4, <1>5, <1>6, <1>7, <1>8 DEF Next, Step

\* Every search, in strings of any length, satisfies the inductive invariant.
THEOREM InvHolds == Spec => []Inv
  <1> QED BY InitInv, NextInv, PTL DEF Spec

\* string_find returns the first position of dst in str, or -1, for strings of
\* every length over any characters.
THEOREM FindCorrect == Spec => []FindsFirst
  <1>1. Inv => FindsFirst
    BY DEF Inv
  <1> QED BY <1>1, InvHolds, PTL

\* With a dst of one character or more no byte outside of the strings is read.
THEOREM FindReadsInside == Spec => []ReadsInside
  <1>1. Inv => ReadsInside
    BY DEF Inv
  <1> QED BY <1>1, InvHolds, PTL

\* pos stays in str, and the remaining length within dst or at 0 or -1.
THEOREM TypeCorrect == Spec => []TypeOK
  <1>1. Inv => TypeOK
    BY DEF Inv
  <1> QED BY <1>1, InvHolds, PTL

-----------------------------------------------------------------------------
(* string_compare                                                          *)

\* A set of numbers up to n, if not empty, has a greatest one, which is Max of it.
LEMMA MaxExists ==
    ASSUME NEW n \in Nat, NEW S \in SUBSET (0..n), S # {}
    PROVE  Max(S) \in S /\ \A y \in S : Max(S) >= y
  <1> DEFINE T == {n - x : x \in S}
  <1>1. T \in SUBSET Nat /\ T # {}
    OBVIOUS
  <1>2. PICK k \in T : \A l \in T : ~(<<l, k>> \in OpToRel(<, Nat))
    BY <1>1, NatLessThanWellFounded, WFMin
  <1>3. PICK x \in S : k = n - x
    OBVIOUS
  <1>4. ASSUME NEW y \in S PROVE x >= y
    <2>1. n - y \in T /\ n - y \in Nat /\ k \in Nat
      BY <1>1
    <2>2. ~(n - y < k)
      BY <1>2, <2>1 DEF OpToRel
    <2> QED BY <1>3, <2>2
  <1> QED BY <1>4 DEF Max

\* There is one greatest number.
LEMMA MaxIs ==
    ASSUME NEW S \in SUBSET Int, NEW m \in S, \A y \in S : m >= y
    PROVE  Max(S) = m
  <1>1. \A x \in S : (\A y \in S : x >= y) => x = m
    OBVIOUS
  <1> QED BY <1>1 DEF Max

\* strncmp is 0 if no character before the len-th differs.
LEMMA AgreeMeans ==
    ASSUME NEW s, NEW t, NEW len
    PROVE  strncmp(s, t, len) = 0 <=>
             \A k \in 0..(len - 1) : k \in DOMAIN s /\ k \in DOMAIN t => s[k] = t[k]
  BY DEF strncmp

\* The number of turns is one of those the loop can take, and the most.
LEMMA TurnsMost ==
    ASSUME NEW s, NEW t, NEW len \in Nat
    PROVE  /\ Turns(s, t, len) \in 0..len
           /\ \A m \in 0..(Turns(s, t, len) - 1) :
                m \in DOMAIN s /\ m \in DOMAIN t /\ s[m] = t[m] /\ s[m] # NUL
           /\ \A k \in 0..len :
                (\A m \in 0..(k - 1) : m \in DOMAIN s /\ m \in DOMAIN t /\ s[m] = t[m] /\ s[m] # NUL)
                  => k <= Turns(s, t, len)
  <1> DEFINE S == {k \in 0..len : \A m \in 0..(k - 1) :
                     m \in DOMAIN s /\ m \in DOMAIN t /\ s[m] = t[m] /\ s[m] # NUL}
  <1>1. S \in SUBSET (0..len)
    OBVIOUS
  <1>2. 0 \in S
    OBVIOUS
  <1>3. Turns(s, t, len) = Max(S)
    BY DEF Turns
  <1>4. Max(S) \in S /\ \A y \in S : Max(S) >= y
    <2> HIDE DEF S
    <2> QED BY <1>1, <1>2, MaxExists
  <1> QED BY <1>3, <1>4

\* Two strings that agree up to len do so beyond the NUL of the shorter only if they
\* are equal.
LEMMA AgreeLengths ==
    ASSUME NEW m \in Nat, NEW n \in Nat, NEW s, NEW t, IsString(s, m), IsString(t, n),
           NEW len \in Nat,
           \A k \in 0..(len - 1) : k \in DOMAIN s /\ k \in DOMAIN t => s[k] = t[k]
    PROVE  /\ len <= m => len <= n
           /\ len > m => m = n
  <1>1. /\ DOMAIN s = 0..m /\ DOMAIN t = 0..n
        /\ \A k \in 0..m : s[k] = NUL <=> k = m
        /\ \A k \in 0..n : t[k] = NUL <=> k = n
    BY DEF IsString
  <1>2. ASSUME n < m, n < len PROVE FALSE
    <2>1. s[n] = t[n] /\ t[n] = NUL /\ s[n] # NUL
      BY <1>1, <1>2
    <2> QED BY <2>1
  <1>3. ASSUME m < n, m < len PROVE FALSE
    <2>1. s[m] = t[m] /\ s[m] = NUL /\ t[m] # NUL
      BY <1>1, <1>3
    <2> QED BY <2>1
  <1> QED BY <1>2, <1>3

\* string_compare of two strings that agree: 0 if len ends with both, 1 if it ends before
\* the NUL, and -1 if it goes beyond.
LEMMA CompareAgreeing ==
    ASSUME NEW m \in Nat, NEW n \in Nat, NEW s, NEW t, IsString(s, m), IsString(t, n),
           NEW len \in Nat,
           \A k \in 0..(len - 1) : k \in DOMAIN s /\ k \in DOMAIN t => s[k] = t[k]
    PROVE  string_compare(s, t, len) = IF len < m THEN 1 ELSE IF len > m THEN -1 ELSE 0
  <1> DEFINE turns == Turns(s, t, len)
  <1>1. /\ DOMAIN s = 0..m /\ DOMAIN t = 0..n
        /\ \A k \in 0..m : s[k] = NUL <=> k = m
    BY DEF IsString
  <1>2. turns \in 0..len
    BY TurnsMost
  <1>3. CASE len <= m
    <2>1. len <= n
      BY <1>3, AgreeLengths
    <2>2. \A k \in 0..(len - 1) : k \in DOMAIN s /\ k \in DOMAIN t /\ s[k] = t[k] /\ s[k] # NUL
      BY <1>1, <1>3, <2>1
    <2>3. len <= turns
      BY <2>2, TurnsMost
    <2>4. turns = len
      BY <1>2, <2>3
    <2>5. s[len] = NUL <=> len = m
      BY <1>1, <1>3
    <2>6. string_compare(s, t, len) = IF s[len] = NUL THEN 0 ELSE 1
      BY <2>4 DEF string_compare
    <2> QED BY <1>3, <2>5, <2>6
  <1>4. CASE len > m
    <2>1. ASSUME turns = len PROVE FALSE
      <3>1. m \in 0..(turns - 1)
        BY <1>4, <2>1
      <3>2. s[m] # NUL
        BY <3>1, TurnsMost
      <3> QED BY <1>1, <3>2
    <2>2. string_compare(s, t, len) = -1
      BY <2>1 DEF string_compare
    <2> QED BY <1>4, <2>2
  <1> QED BY <1>3, <1>4

\* A difference ends the loop before len, and string_compare says "less" whichever
\* character is the greater.
LEMMA CompareDiffering ==
    ASSUME NEW s, NEW t, NEW len \in Nat, NEW k \in 0..(len - 1), s[k] # t[k]
    PROVE  string_compare(s, t, len) = -1
  <1>1. Turns(s, t, len) \in 0..len
    BY TurnsMost
  <1>2. ASSUME Turns(s, t, len) = len PROVE FALSE
    <2>1. s[k] = t[k]
      BY <1>2, TurnsMost
    <2> QED BY <2>1
  <1> QED BY <1>2 DEF string_compare

\* string_compare (string-find.c:32-62) is strncmp but for the cases named, for strings
\* of every length over any characters.
THEOREM CompareCorrect == Spec => []CompareAsStrncmp
  <1>1. Inv => CompareAsStrncmp
    <2> SUFFICES ASSUME Inv, pc = "call", NEW len \in 0..(MaxStr + 1)
                 PROVE  string_compare(str, dst, len) =
                          IF strncmp(str, dst, len) = 0
                          THEN (IF len < slen THEN 1 ELSE IF len > slen THEN -1 ELSE 0) ELSE -1
      BY DEF CompareAsStrncmp
    <2>1. /\ slen \in Nat /\ dlen \in Nat /\ IsString(str, slen) /\ IsString(dst, dlen)
          /\ len \in Nat
      BY DEF Inv, TypeOK
    <2>2. CASE strncmp(str, dst, len) = 0
      <3>1. \A k \in 0..(len - 1) : k \in DOMAIN str /\ k \in DOMAIN dst => str[k] = dst[k]
        BY <2>2, AgreeMeans
      <3> QED BY <2>1, <2>2, <3>1, CompareAgreeing
    <2>3. CASE strncmp(str, dst, len) # 0
      <3>1. PICK k \in 0..(len - 1) : str[k] # dst[k]
        BY <2>3, AgreeMeans
      <3> QED BY <2>1, <2>3, <3>1, CompareDiffering
    <2> QED BY <2>2, <2>3
  <1> QED BY <1>1, InvHolds, PTL

-----------------------------------------------------------------------------
(* The chunks of hex-dec                                                   *)

\* Division has a remainder less than the divisor.
LEMMA Divides ==
    ASSUME NEW x \in Int, NEW s \in Nat \ {0}
    PROVE  /\ x \div s \in Int /\ x % s \in Int
           /\ x = s * (x \div s) + (x % s) /\ 0 <= x % s /\ x % s < s
<1>1. x \div s \in Int /\ x % s \in Int
  OBVIOUS
<1>2. x = s * (x \div s) + (x % s)
  OBVIOUS
<1>3. 0 <= x % s /\ x % s < s
  OBVIOUS
<1> QED
  BY <1>1, <1>2, <1>3

\* A set of numbers with 0 and the successor of each of its numbers has them all.
LEMMA AllNat ==
    ASSUME NEW P, 0 \in P, \A n \in Nat : n \in P => n + 1 \in P
    PROVE  Nat \subseteq P
<1>1. SUFFICES ASSUME Nat \ P # {} PROVE FALSE
  OBVIOUS
<1>2. Nat \ P \in SUBSET Nat
  OBVIOUS
<1>3. PICK k \in Nat \ P : \A l \in Nat \ P : k <= l
  <2>1. \E k \in Nat \ P : \A l \in Nat \ P : ~(<<l, k>> \in OpToRel(<, Nat))
    BY <1>1, <1>2, NatLessThanWellFounded, WFMin
  <2>2. PICK k \in Nat \ P : \A l \in Nat \ P : ~(<<l, k>> \in OpToRel(<, Nat))
    BY <2>1
  <2>3. ASSUME NEW l \in Nat \ P PROVE k <= l
    <3>1. ~(l < k)
      BY <2>2 DEF OpToRel
    <3> QED
      BY <3>1
  <2> QED
    BY <2>3
<1>4. k # 0 /\ k - 1 \in Nat /\ ~(k <= k - 1) /\ (k - 1) + 1 = k
  BY <1>3
<1>5. k - 1 \in P
  BY <1>3, <1>4
<1> QED
  BY <1>3, <1>4, <1>5

\* Each number of turns has a function that gives the values after each of them.
LEMMA Turned ==
    ASSUME NEW N \in Nat, NEW v0 \in Int, NEW step \in [Nat \X Int -> Int]
    PROVE  \E g \in [0..N -> Int] : g[0] = v0 /\ \A k \in 1..N : g[k] = step[<<k - 1, g[k - 1]>>]
<1> DEFINE Runs(n, g) == g[0] = v0 /\ \A k \in 1..n : g[k] = step[<<k - 1, g[k - 1]>>]
           P == {n \in Nat : \E g \in [0..n -> Int] : Runs(n, g)}
<1>1. 0 \in P
  <2>1. [k \in 0..0 |-> v0] \in [0..0 -> Int] /\ Runs(0, [k \in 0..0 |-> v0])
    OBVIOUS
  <2> QED
    BY <2>1
<1>2. ASSUME NEW n \in Nat, n \in P PROVE n + 1 \in P
  <2>1. PICK g \in [0..n -> Int] : Runs(n, g)
    BY <1>2
  <2> DEFINE h == [k \in 0..(n + 1) |-> IF k = n + 1 THEN step[<<n, g[n]>>] ELSE g[k]]
  <2>2. h \in [0..(n + 1) -> Int] /\ h[0] = v0 /\ h[n + 1] = step[<<n, g[n]>>] /\ h[n] = g[n]
    BY <2>1
  <2>3. ASSUME NEW k \in 1..(n + 1) PROVE h[k] = step[<<k - 1, h[k - 1]>>]
    <3>1. CASE k = n + 1
      <4>1. k - 1 = n
        BY <3>1
      <4> HIDE DEF h
      <4> QED
        BY <2>2, <3>1, <4>1
    <3>2. CASE k # n + 1
      <4>1. k \in 1..n /\ k - 1 \in 0..n /\ h[k] = g[k] /\ h[k - 1] = g[k - 1]
        BY <3>2
      <4> QED
        BY <2>1, <4>1
    <3> QED
      BY <3>1, <3>2
  <2>4. Runs(n + 1, h)
    BY <2>2, <2>3
  <2> HIDE DEF Runs, h
  <2> QED
    BY <2>2, <2>4
<1> HIDE DEF P
<1>3. N \in P
  BY <1>1, <1>2, AllNat
<1> QED
  BY <1>3 DEF P

\* base after each turn of bt_char2_to_byte
LEMMA BaseTurns ==
    ASSUME NEW size \in Nat
    PROVE  LET base[n \in 0..size] == IF n = 0 THEN 1 ELSE 16 * base[n - 1]
           IN  /\ base[0] = 1 /\ \A n \in 1..size : base[n] = 16 * base[n - 1]
               /\ \A n \in 0..size : base[n] \in Int
<1> DEFINE B(f) == f = [n \in 0..size |-> IF n = 0 THEN 1 ELSE 16 * f[n - 1]]
           base == CHOOSE f : B(f)
           step == [x \in Nat \X Int |-> 16 * x[2]]
<1>1. \E f : B(f)
  <2>1. step \in [Nat \X Int -> Int]
    OBVIOUS
  <2> HIDE DEF step
  <2>2. 1 \in Int
    OBVIOUS
  <2>3. \E g \in [0..size -> Int] :
            g[0] = 1 /\ \A k \in 1..size : g[k] = step[<<k - 1, g[k - 1]>>]
    BY <2>1, <2>2, Turned, Zenon
  <2>4. PICK g \in [0..size -> Int] :
            g[0] = 1 /\ \A k \in 1..size : g[k] = step[<<k - 1, g[k - 1]>>]
    BY <2>3
  <2>5. ASSUME NEW k \in 1..size PROVE g[k] = 16 * g[k - 1]
    <3>1. k - 1 \in Nat /\ g[k - 1] \in Int
      OBVIOUS
    <3>2. step[<<k - 1, g[k - 1]>>] = 16 * g[k - 1]
      BY <3>1 DEF step
    <3> QED
      BY <2>4, <3>2
  <2>6. \A k \in 0..size : g[k] = IF k = 0 THEN 1 ELSE 16 * g[k - 1]
    BY <2>4, <2>5
  <2>7. g = [k \in 0..size |-> g[k]]
    OBVIOUS
  <2>8. g = [k \in 0..size |-> IF k = 0 THEN 1 ELSE 16 * g[k - 1]]
    BY <2>6, <2>7
  <2> QED
    BY <2>8
<1>2. B(base)
  BY <1>1
<1>3. base[0] = 1 /\ \A n \in 1..size : base[n] = 16 * base[n - 1]
  <2> HIDE DEF base
  <2>1. \A n \in 0..size : base[n] = IF n = 0 THEN 1 ELSE 16 * base[n - 1]
    BY <1>2
  <2> QED
    BY <2>1
<1>4. \A n \in 0..size : base[n] \in Int
  <2> HIDE DEF base
  <2> DEFINE P == {n \in Nat : n <= size => base[n] \in Int}
  <2>1. 0 \in P
    BY <1>3
  <2>2. ASSUME NEW n \in Nat, n \in P PROVE n + 1 \in P
    BY <1>3, <2>2
  <2> HIDE DEF P
  <2>3. Nat \subseteq P
    BY <2>1, <2>2, AllNat
  <2> QED
    BY <2>3 DEF P
<1> QED
  BY <1>3, <1>4

\* What a character counts for.
LEMMA DigitRead ==
    ASSUME NEW c \in Int
    PROVE  hex_char_to_dec(UPCASE(c)) = Digit(c) /\ Digit(c) \in 0..15
<1>1. CASE c \in 48..57
  BY <1>1 DEF hex_char_to_dec, UPCASE, IS_HEX_CHAR, Digit
<1>2. CASE c \in 65..70
  BY <1>2 DEF hex_char_to_dec, UPCASE, IS_HEX_CHAR, Digit
<1>3. CASE c \in 97..122
  <2>1. UPCASE(c) = c - 27
    BY <1>3 DEF UPCASE
  <2>2. IS_HEX_CHAR(c - 27) <=> c = 97
    BY <1>3 DEF IS_HEX_CHAR
  <2> QED
    BY <1>3, <2>1, <2>2 DEF hex_char_to_dec, Digit
<1>4. CASE c \notin 48..57 /\ c \notin 65..70 /\ c \notin 97..122
  <2>1. UPCASE(c) = c /\ ~IS_HEX_CHAR(c)
    BY <1>4 DEF UPCASE, IS_HEX_CHAR
  <2> QED
    BY <1>4, <2>1 DEF hex_char_to_dec, Digit
<1> QED
  BY <1>1, <1>2, <1>3, <1>4

\* A short is the number but for multiples of 65536.
Wraps(n) == (n + 32768) \div 65536

LEMMA ShortIs ==
    ASSUME NEW n \in Int
    PROVE  /\ Short(n) \in Int /\ -32768 <= Short(n) /\ Short(n) <= 32767
           /\ Wraps(n) \in Int /\ n = Short(n) + 65536 * Wraps(n)
<1>1. 65536 \in Nat \ {0} /\ n + 32768 \in Int
  OBVIOUS
<1>2. /\ (n + 32768) \div 65536 \in Int /\ (n + 32768) % 65536 \in Int
      /\ n + 32768 = 65536 * ((n + 32768) \div 65536) + ((n + 32768) % 65536)
      /\ 0 <= (n + 32768) % 65536 /\ (n + 32768) % 65536 < 65536
  BY ONLY <1>1, Divides
<1>3. PICK k \in Int, r \in Int : /\ r = (n + 32768) % 65536 /\ n + 32768 = 65536 * k + r
                                  /\ 0 <= r /\ r < 65536 /\ k = Wraps(n)
  BY <1>2 DEF Wraps
<1>4. Short(n) = r - 32768
  BY <1>3 DEF Short
<1> QED
  BY <1>3, <1>4

\* Numbers that differ by a multiple of 65536 have the same low 16 bits.
LEMMA LowBits ==
    ASSUME NEW x \in Int, NEW y \in Int, NEW k \in Int, x = y + 65536 * k
    PROVE  x % 65536 = y % 65536
<1>1. 65536 \in Nat \ {0}
  OBVIOUS
<1>2. PICK a \in Int, b \in Int : b = x % 65536 /\ x = 65536 * a + b /\ 0 <= b /\ b < 65536
  BY <1>1, Divides
<1>3. PICK c \in Int, d \in Int : d = y % 65536 /\ y = 65536 * c + d /\ 0 <= d /\ d < 65536
  BY <1>1, Divides
<1>4. 65536 * (a - c - k) = d - b
  BY <1>2, <1>3
<1>5. a - c - k = 0
  BY <1>2, <1>3, <1>4
<1> QED
  BY <1>2, <1>3, <1>4, <1>5

\* The number that digits stand for.
LEMMA HexadecimalTurns ==
    ASSUME NEW N \in Nat, NEW digits, Len(digits) = N, \A m \in 1..N : digits[m] \in Int
    PROVE  \E v : /\ v[0] = 0 /\ \A n \in 1..N : v[n] = 16 * v[n - 1] + Digit(digits[n])
                  /\ \A n \in 0..N : v[n] \in Nat
                  /\ Hexadecimal(digits) = v[N]
<1> DEFINE V(f) == f = [m \in 0..Len(digits) |->
                          IF m = 0 THEN 0 ELSE 16 * f[m - 1] + Digit(digits[m])]
           v == CHOOSE f : V(f)
           step == [x \in Nat \X Int |->
                      IF x[1] < N THEN 16 * x[2] + Digit(digits[x[1] + 1]) ELSE 0]
<1>0. \A n \in 1..N : Digit(digits[n]) \in 0..15
  BY DigitRead
<1>1. \E f : V(f)
  <2>1. step \in [Nat \X Int -> Int]
    <3>1. ASSUME NEW x \in Nat \X Int
          PROVE  (IF x[1] < N THEN 16 * x[2] + Digit(digits[x[1] + 1]) ELSE 0) \in Int
      <4>1. x[1] \in Nat /\ x[2] \in Int
        OBVIOUS
      <4>2. CASE x[1] < N
        <5>1. x[1] + 1 \in 1..N
          BY <4>1, <4>2
        <5>2. Digit(digits[x[1] + 1]) \in Int
          BY <1>0, <5>1
        <5> QED
          BY <4>1, <4>2, <5>2
      <4> QED
        BY <4>2
    <3> QED
      BY <3>1
  <2> HIDE DEF step
  <2>2. 0 \in Int
    OBVIOUS
  <2>3. \E g \in [0..N -> Int] :
            g[0] = 0 /\ \A k \in 1..N : g[k] = step[<<k - 1, g[k - 1]>>]
    BY ONLY N \in Nat, <2>1, <2>2, Turned, Zenon
  <2>4. PICK g \in [0..N -> Int] :
            g[0] = 0 /\ \A k \in 1..N : g[k] = step[<<k - 1, g[k - 1]>>]
    BY <2>3
  <2>5. ASSUME NEW k \in 1..N PROVE g[k] = 16 * g[k - 1] + Digit(digits[k])
    <3>1. k - 1 \in Nat /\ g[k - 1] \in Int /\ k - 1 < N /\ (k - 1) + 1 = k
      OBVIOUS
    <3>2. step[<<k - 1, g[k - 1]>>] = 16 * g[k - 1] + Digit(digits[k])
      BY <3>1 DEF step
    <3> QED
      BY <2>4, <3>2
  <2>6. ASSUME NEW k \in 0..N
        PROVE  g[k] = IF k = 0 THEN 0 ELSE 16 * g[k - 1] + Digit(digits[k])
    <3>1. CASE k = 0
      BY <2>4, <3>1
    <3>2. CASE k # 0
      <4>1. k \in 1..N
        BY <3>2
      <4> QED
        BY <2>5, <3>2, <4>1
    <3> QED
      BY <3>1, <3>2
  <2>7. g = [k \in 0..N |-> g[k]]
    OBVIOUS
  <2>8. g = [k \in 0..N |-> IF k = 0 THEN 0 ELSE 16 * g[k - 1] + Digit(digits[k])]
    BY <2>6, <2>7
  <2> QED
    BY <2>8
<1>2. V(v)
  BY <1>1
<1>3. v[0] = 0 /\ \A n \in 1..N : v[n] = 16 * v[n - 1] + Digit(digits[n])
  <2> HIDE DEF v
  <2>1. \A n \in 0..N : v[n] = IF n = 0 THEN 0 ELSE 16 * v[n - 1] + Digit(digits[n])
    BY <1>2
  <2> QED
    BY <2>1
<1>4. Hexadecimal(digits) = v[N]
  BY DEF Hexadecimal
<1> HIDE DEF v
<1>5. \A n \in 0..N : v[n] \in Nat
  <2> DEFINE P == {n \in Nat : n <= N => v[n] \in Nat}
  <2>1. 0 \in P
    BY <1>3
  <2>2. ASSUME NEW n \in Nat, n \in P PROVE n + 1 \in P
    <3>1. ASSUME n + 1 <= N PROVE v[n + 1] \in Nat
      <4>1. n + 1 \in 1..N /\ (n + 1) - 1 = n /\ v[n] \in Nat
        BY <2>2, <3>1
      <4>2. v[n + 1] = 16 * v[n] + Digit(digits[n + 1])
        BY <1>3, <4>1
      <4>3. Digit(digits[n + 1]) \in Nat
        <5>1. Digit(digits[n + 1]) \in 0..15
          BY <1>0, <4>1
        <5> QED
          BY ONLY <5>1
      <4> QED
        BY <4>1, <4>2, <4>3
    <3> QED
      BY <3>1
  <2> HIDE DEF P
  <2>3. Nat \subseteq P
    BY <2>1, <2>2, AllNat
  <2> QED
    BY <2>3 DEF P
<1> QED
  BY <1>3, <1>4, <1>5

\* The digits are the size characters of s from position from on; they are read as r.
Stand(digits, s, from, size) ==
    Len(digits) = size /\ \A m \in 1..size : digits[m] = s[from + m - 1] /\ digits[m] \in Int
ReadAs(digits, size, r) ==
    LET h == Hexadecimal(digits)
    IN  /\ r \in Int /\ -32768 <= r /\ r <= 32767
        /\ r % 65536 = h % 65536
        /\ size <= 3 => r = h

\* A chunk is read from its end as the low 16 bits, with their sign, of the number that
\* stands there from its start.
LEMMA ChunkRead ==
    ASSUME NEW s, NEW length \in Nat, NEW from \in Nat, NEW size \in Nat,
           ~(length - from < size), NEW digits, Stand(digits, s, from, size)
    PROVE  ReadAs(digits, size, bt_char2_to_byte(s, length, from, size))
<1>a. Len(digits) = size /\ \A m \in 1..size : digits[m] = s[from + m - 1] /\ digits[m] \in Int
  BY DEF Stand
<1> USE <1>a
<1> DEFINE base == CHOOSE f : f = [n \in 0..size |-> IF n = 0 THEN 1 ELSE 16 * f[n - 1]]
           R(f) == f = [n \in 0..size |->
                          IF n = 0 THEN 0
                          ELSE Short(f[n - 1] + hex_char_to_dec(UPCASE(s[from + size - n])) * base[n - 1])]
           ret == CHOOSE f : R(f)
           step == [x \in Nat \X Int |->
                      IF x[1] < size THEN Short(x[2] + Digit(digits[size - x[1]]) * base[x[1]]) ELSE 0]
<1>1. bt_char2_to_byte(s, length, from, size) = ret[size]
  BY DEF bt_char2_to_byte
<1>2. /\ base[0] = 1 /\ \A n \in 1..size : base[n] = 16 * base[n - 1]
      /\ \A n \in 0..size : base[n] \in Int
  BY BaseTurns
<1> HIDE DEF base
<1>3. PICK v : /\ v[0] = 0 /\ \A n \in 1..size : v[n] = 16 * v[n - 1] + Digit(digits[n])
               /\ \A n \in 0..size : v[n] \in Nat
               /\ Hexadecimal(digits) = v[size]
  BY HexadecimalTurns
<1>4. ASSUME NEW n \in 1..size
      PROVE  /\ hex_char_to_dec(UPCASE(s[from + size - n])) = Digit(digits[size - (n - 1)])
             /\ Digit(digits[size - (n - 1)]) \in 0..15
  <2>1. size - (n - 1) \in 1..size /\ from + (size - (n - 1)) - 1 = from + size - n
    OBVIOUS
  <2>2. digits[size - (n - 1)] = s[from + size - n] /\ s[from + size - n] \in Int
    <3>1. digits[size - (n - 1)] = s[from + (size - (n - 1)) - 1] /\ digits[size - (n - 1)] \in Int
      BY <2>1
    <3> QED
      BY <2>1, <3>1
  <2> QED
    BY <2>2, DigitRead
<1>5. \E f : R(f)
  <2>1. step \in [Nat \X Int -> Int]
    <3>1. ASSUME NEW x \in Nat \X Int
          PROVE  (IF x[1] < size THEN Short(x[2] + Digit(digits[size - x[1]]) * base[x[1]]) ELSE 0) \in Int
      <4>1. x[1] \in Nat /\ x[2] \in Int
        OBVIOUS
      <4>2. CASE x[1] < size
        <5>1. x[1] + 1 \in 1..size /\ x[1] \in 0..size /\ (x[1] + 1) - 1 = x[1]
          BY <4>1, <4>2
        <5>2. Digit(digits[size - x[1]]) \in Int
          <6>1. size - x[1] \in 1..size
            BY <4>1, <4>2
          <6>2. Digit(digits[size - x[1]]) \in 0..15
            BY <6>1, DigitRead
          <6> QED
            BY ONLY <6>2
        <5>3. base[x[1]] \in Int
          BY <1>2, <5>1
        <5>4. x[2] + Digit(digits[size - x[1]]) * base[x[1]] \in Int
          BY <4>1, <5>2, <5>3
        <5> QED
          BY <4>2, <5>4, ShortIs
      <4> QED
        BY <4>2
    <3> QED
      BY <3>1
  <2> HIDE DEF step
  <2>2. 0 \in Int
    OBVIOUS
  <2>3. \E g \in [0..size -> Int] :
            g[0] = 0 /\ \A k \in 1..size : g[k] = step[<<k - 1, g[k - 1]>>]
    BY ONLY size \in Nat, <2>1, <2>2, Turned, Zenon
  <2>4. PICK g \in [0..size -> Int] :
            g[0] = 0 /\ \A k \in 1..size : g[k] = step[<<k - 1, g[k - 1]>>]
    BY <2>3
  <2>5. ASSUME NEW k \in 1..size
        PROVE  g[k] = Short(g[k - 1] + hex_char_to_dec(UPCASE(s[from + size - k])) * base[k - 1])
    <3>1. k - 1 \in Nat /\ g[k - 1] \in Int /\ k - 1 < size
      OBVIOUS
    <3>2. step[<<k - 1, g[k - 1]>>] = Short(g[k - 1] + Digit(digits[size - (k - 1)]) * base[k - 1])
      BY <3>1 DEF step
    <3> QED
      BY <1>4, <2>4, <3>2
  <2>6. ASSUME NEW k \in 0..size
        PROVE  g[k] = IF k = 0 THEN 0
                      ELSE Short(g[k - 1] + hex_char_to_dec(UPCASE(s[from + size - k])) * base[k - 1])
    <3>1. CASE k = 0
      BY <2>4, <3>1
    <3>2. CASE k # 0
      <4>1. k \in 1..size
        BY <3>2
      <4> QED
        BY <2>5, <3>2, <4>1
    <3> QED
      BY <3>1, <3>2
  <2>7. g = [k \in 0..size |-> g[k]]
    OBVIOUS
  <2>8. R(g)
    BY <2>6, <2>7
  <2> QED
    BY <2>8
<1>6. R(ret)
  BY <1>5
<1>7. /\ ret[0] = 0
      /\ \A n \in 1..size : ret[n] = Short(ret[n - 1] + Digit(digits[size - (n - 1)]) * base[n - 1])
  <2> HIDE DEF ret
  <2>1. \A n \in 0..size :
           ret[n] = IF n = 0 THEN 0
                    ELSE Short(ret[n - 1] + hex_char_to_dec(UPCASE(s[from + size - n])) * base[n - 1])
    BY <1>6
  <2>2. ret[0] = 0
    BY <2>1
  <2>3. ASSUME NEW n \in 1..size
        PROVE  ret[n] = Short(ret[n - 1] + Digit(digits[size - (n - 1)]) * base[n - 1])
    <3>1. n \in 0..size /\ n # 0
      OBVIOUS
    <3>2. ret[n] = Short(ret[n - 1] + hex_char_to_dec(UPCASE(s[from + size - n])) * base[n - 1])
      BY <2>1, <3>1
    <3> QED
      BY <1>4, <3>2
  <2> QED
    BY <2>2, <2>3
<1> HIDE DEF ret
\* What has been read so far is the number but for the characters before it.
<1> DEFINE Read(n) == /\ ret[n] \in Int /\ -32768 <= ret[n] /\ ret[n] <= 32767
                      /\ \E q \in Int : v[size] = base[n] * v[size - n] + ret[n] + 65536 * q
           P == {n \in Nat : n <= size => Read(n)}
<1>8. 0 \in P
  <2>1. size - 0 = size /\ v[size] \in Nat /\ base[0] = 1 /\ ret[0] = 0
    BY <1>2, <1>3, <1>7
  <2>2. v[size] = base[0] * v[size - 0] + ret[0] + 65536 * 0
    BY <2>1
  <2>3. \E q \in Int : v[size] = base[0] * v[size - 0] + ret[0] + 65536 * q
    <3>1. 0 \in Int
      OBVIOUS
    <3> WITNESS 0 \in Int
    <3> QED
      BY <2>2
  <2>4. ret[0] \in Int /\ -32768 <= ret[0] /\ ret[0] <= 32767
    BY <2>1
  <2> QED
    BY <2>3, <2>4
<1>9. ASSUME NEW n \in Nat, n \in P PROVE n + 1 \in P
  <2> SUFFICES ASSUME n + 1 <= size PROVE Read(n + 1)
    OBVIOUS
  <2>1. PICK q \in Int : v[size] = base[n] * v[size - n] + ret[n] + 65536 * q
    BY <1>9
  <2> DEFINE d == Digit(digits[size - n])
  <2>2. n + 1 \in 1..size /\ (n + 1) - 1 = n /\ n \in 0..size /\ size - n \in 1..size
        /\ (size - n) - 1 = size - (n + 1) /\ size - (n + 1) \in 0..size
    OBVIOUS
  <2>3. ret[n + 1] = Short(ret[n] + d * base[n]) /\ d \in Int /\ base[n + 1] = 16 * base[n]
    <3>1. Digit(digits[size - ((n + 1) - 1)]) \in 0..15
      BY <1>4, <2>2
    <3>2. ret[n + 1] = Short(ret[(n + 1) - 1] + Digit(digits[size - ((n + 1) - 1)]) * base[(n + 1) - 1])
      BY <1>7, <2>2
    <3>3. base[n + 1] = 16 * base[(n + 1) - 1]
      BY <1>2, <2>2
    <3> QED
      <4>1. ret[n + 1] = Short(ret[n] + d * base[n])
        <5>1. (n + 1) - 1 = n
          BY <2>2
        <5> QED
          BY <3>2, <5>1, Zenon
      <4>2. d \in 0..15
        BY <2>2, <3>1
      <4>3. d \in Int
        <5> HIDE DEF d
        <5> QED
          BY ONLY <4>2
      <4>4. base[n + 1] = 16 * base[n]
        BY <2>2, <3>3
      <4> QED
        BY <4>1, <4>3, <4>4, Zenon
  <2>4. v[size - n] = 16 * v[size - (n + 1)] + d
    <3>1. v[size - n] = 16 * v[(size - n) - 1] + Digit(digits[size - n])
      BY <1>3, <2>2
    <3> QED
      BY <2>2, <3>1
  <2>5. ret[n] \in Int /\ base[n] \in Int /\ v[size - (n + 1)] \in Int /\ v[size - n] \in Int
    <3>1. ret[n] \in Int
      BY <1>9
    <3>2. base[n] \in Int /\ v[size - (n + 1)] \in Nat /\ v[size - n] \in Nat
      BY <1>2, <1>3, <2>2
    <3> QED
      BY <3>1, <3>2
  <2> HIDE DEF d
  <2>6. PICK b \in Int, w \in Int, x \in Int, e \in Int :
            b = base[n] /\ w = v[size - (n + 1)] /\ x = ret[n] /\ e = d
    BY <2>3, <2>5
  <2>7. PICK p \in Int : p = e * b
    OBVIOUS
  <2>8. PICK u \in Int : u = x + p
    OBVIOUS
  <2>0. u \in Int
    OBVIOUS
  <2>a. Short(u) \in Int /\ -32768 <= Short(u) /\ Short(u) <= 32767
    BY ONLY <2>0, ShortIs
  <2>b. PICK k \in Int : u = Short(u) + 65536 * k
    <3>1. Wraps(u) \in Int /\ u = Short(u) + 65536 * Wraps(u)
      BY ONLY <2>0, ShortIs
    <3> QED
      BY <3>1
  <2>c. PICK y \in Int : y = Short(u)
    BY <2>a
  <2>9. u = y + 65536 * k /\ -32768 <= y /\ y <= 32767
    BY <2>a, <2>b, <2>c
  <2>10. ret[n + 1] = y
    BY <2>3, <2>6, <2>7, <2>8, <2>c
  <2>11. PICK z \in Int : z = (16 * b) * w
    OBVIOUS
  <2>12. b * (16 * w + e) = z + p
    BY <2>7, <2>11
  <2>13. v[size] = b * (16 * w + e) + x + 65536 * q
    BY <2>1, <2>4, <2>6
  <2>14. v[size] = z + p + x + 65536 * q
    BY <2>12, <2>13
  <2>15. v[size] = z + y + 65536 * (k + q)
    <3>1. x + p = y + 65536 * k
      BY <2>8, <2>9
    <3>2. z + p + x + 65536 * q = z + y + 65536 * (k + q)
      BY <3>1
    <3> QED
      BY <2>14, <3>2
  <2>16. v[size] = base[n + 1] * v[size - (n + 1)] + ret[n + 1] + 65536 * (k + q)
    <3>1. base[n + 1] = 16 * b
      BY <2>3, <2>6
    <3>2. base[n + 1] * v[size - (n + 1)] = z
      BY <2>6, <2>11, <3>1, Zenon
    <3> QED
      <4>1. v[size] = z + ret[n + 1] + 65536 * (k + q)
        BY ONLY <2>10, <2>15
      <4> QED
        BY ONLY <3>2, <4>1
  <2>17. ret[n + 1] \in Int /\ -32768 <= ret[n + 1] /\ ret[n + 1] <= 32767
    <3>1. y \in Int /\ -32768 <= y /\ y <= 32767
      BY <2>9
    <3> QED
      BY <2>10, <3>1
  <2>18. \E l \in Int : v[size] = base[n + 1] * v[size - (n + 1)] + ret[n + 1] + 65536 * l
    <3>1. PICK l \in Int : l = k + q
      OBVIOUS
    <3>2. v[size] = base[n + 1] * v[size - (n + 1)] + ret[n + 1] + 65536 * l
      BY <2>16, <3>1
    <3> WITNESS l \in Int
    <3> QED
      BY <3>2
  <2> QED
    BY <2>17, <2>18
<1> HIDE DEF P
<1>10. Nat \subseteq P
  BY <1>8, <1>9, AllNat
<1> USE DEF P
<1>11. Read(size)
  BY <1>10
<1>12. PICK q \in Int : v[size] = base[size] * v[size - size] + ret[size] + 65536 * q
  BY <1>11
<1>13. base[size] \in Int /\ v[size - size] = 0 /\ v[size] \in Nat
       /\ ret[size] \in Int /\ -32768 <= ret[size] /\ ret[size] <= 32767
  BY <1>2, <1>3, <1>11
<1>14. v[size] = ret[size] + 65536 * q
  BY <1>12, <1>13
<1>15. v[size] % 65536 = ret[size] % 65536
  BY <1>13, <1>14, LowBits
<1>16. ASSUME size <= 3 PROVE v[size] < 4096
  <2>1. \A n \in 1..size : Digit(digits[n]) \in 0..15
    BY DigitRead
  <2>2. ASSUME NEW n \in 1..size, NEW limit \in Nat, v[n - 1] <= limit
        PROVE  v[n] <= 16 * limit + 15
    <3>1. n - 1 \in 0..size /\ v[n] = 16 * v[n - 1] + Digit(digits[n]) /\ Digit(digits[n]) \in 0..15
      BY <1>3, <2>1
    <3>2. v[n - 1] \in Nat
      BY <1>3, <3>1
    <3>3. PICK a \in Nat, d \in 0..15 : a = v[n - 1] /\ d = Digit(digits[n])
      BY <3>1, <3>2
    <3>4. a <= limit /\ v[n] = 16 * a + d
      BY <2>2, <3>1, <3>3
    <3> QED
      BY <3>4
  <2>3. v[0] <= 0
    BY <1>3
  <2>4. 1 <= size => v[1] <= 15
    <3>1. 1 - 1 = 0 /\ 16 * 0 + 15 = 15
      OBVIOUS
    <3> QED
      BY <2>2, <2>3, <3>1
  <2>5. 2 <= size => v[2] <= 255
    <3>1. 2 - 1 = 1 /\ 16 * 15 + 15 = 255
      OBVIOUS
    <3> QED
      BY <2>2, <2>4, <3>1
  <2>6. 3 <= size => v[3] <= 4095
    <3>1. 3 - 1 = 2 /\ 16 * 255 + 15 = 4095
      OBVIOUS
    <3> QED
      BY <2>2, <2>5, <3>1
  <2>7. size = 0 \/ size = 1 \/ size = 2 \/ size = 3
    BY <1>16
  <2>8. v[size] \in Nat
    BY <1>3
  <2> QED
    <3>1. CASE size = 0
      BY <1>3, <3>1
    <3>2. CASE size = 1
      BY ONLY <2>8, <2>4, <3>2
    <3>3. CASE size = 2
      BY ONLY <2>8, <2>5, <3>3
    <3>4. CASE size = 3
      BY ONLY <2>8, <2>6, <3>4
    <3> QED
      BY <2>7, <3>1, <3>2, <3>3, <3>4
<1>17. size <= 3 => ret[size] = v[size]
  BY <1>13, <1>14, <1>16
<1>18. PICK r, h : r = ret[size] /\ h = v[size]
  OBVIOUS
<1>19. /\ r \in Int /\ -32768 <= r /\ r <= 32767
       /\ h % 65536 = r % 65536 /\ (size <= 3 => r = h)
  BY <1>13, <1>14, <1>15, <1>17, <1>18
<1>20. bt_char2_to_byte(s, length, from, size) = r /\ Hexadecimal(digits) = h
  BY <1>1, <1>3, <1>18
<1> QED
  BY ONLY <1>19, <1>20 DEF ReadAs

\* Every chunk that is printed is read as what it says, whatever the string and the size.
LEMMA ChunksRead ==
    ASSUME slen \in Nat, IsString(str, slen), NEW size \in Nat \ {0}
    PROVE  LET printed == Chunks(str, slen, size)
           IN  /\ size * Len(printed) \in slen..(slen + size - 1)
               /\ \A n \in DOMAIN printed :
                    /\ printed[n] % 65536 = Hexadecimal(Chunk(n, size)) % 65536
                    /\ Len(Chunk(n, size)) <= 3 => printed[n] = Hexadecimal(Chunk(n, size))
                    /\ -32768 <= printed[n] /\ printed[n] <= 32767
<1> DEFINE whole == slen \div size
           rest == slen % size
           count == whole + (IF rest > 0 THEN 1 ELSE 0)
           width(n) == IF n <= whole THEN size ELSE rest
           printed == Chunks(str, slen, size)
<1>1. /\ whole \in Int /\ rest \in Int /\ slen = size * whole + rest /\ 0 <= rest /\ rest < size
  BY Divides
<1>2. printed = [n \in 1..count |-> bt_char2_to_byte(str, slen, (n - 1) * size, width(n))]
  BY DEF Chunks
<1> HIDE DEF whole, rest, printed
<1>3. whole \in Nat
  <2>1. ASSUME whole <= -1 PROVE FALSE
    <3>1. size * (whole + 1) <= 0
      BY <1>1, <2>1
    <3>2. size * (whole + 1) = size * whole + size
      BY <1>1
    <3> QED
      BY <1>1, <3>1, <3>2
  <2> QED
    BY <1>1, <2>1
<1>4. count \in Nat /\ Len(printed) = count /\ DOMAIN printed = 1..count
  BY <1>1, <1>2, <1>3
<1>5. size * count \in slen..(slen + size - 1)
  <2>1. CASE rest > 0
    <3>1. count = whole + 1 /\ size * (whole + 1) = size * whole + size
      BY <1>1, <2>1
    <3>2. PICK w \in Int : w = size * whole
      BY <1>1
    <3>3. size * count = w + size /\ slen = w + rest
      BY <1>1, <3>1, <3>2
    <3> QED
      BY <1>1, <2>1, <3>2, <3>3
  <2>2. CASE ~(rest > 0)
    <3>1. rest = 0 /\ count = whole
      BY <1>1, <1>3, <2>2
    <3> QED
      BY <1>1, <1>3, <3>1
  <2> QED
    BY <2>1, <2>2
<1>6. ASSUME NEW n \in 1..count
      PROVE  /\ (n - 1) * size \in Nat /\ width(n) \in Nat \ {0} /\ (n - 1) * size + width(n) <= slen
             /\ Min({size, slen - (n - 1) * size}) = width(n)
  <2>0. n \in Nat /\ n - 1 \in Nat /\ n <= whole + 1
    BY <1>1, <1>3
  <2>1. PICK f \in Nat : f = (n - 1) * size
    BY <2>0
  <2>2. CASE n <= whole
    <3>1. size * (whole - n) >= 0
      BY <1>3, <2>0, <2>2
    <3>2. size * (whole - n) = size * whole - f - size
      BY <1>3, <2>0, <2>1
    <3>3. f + size <= slen /\ width(n) = size
      BY <1>1, <2>1, <2>2, <3>1, <3>2
    <3>4. Min({size, slen - f}) = size
      <4>1. slen - f \in Int /\ size <= slen - f /\ size \in Int
        BY <2>1, <3>3
      <4> QED
        BY <4>1 DEF Min
    <3> QED
      BY <2>1, <3>3, <3>4
  <2>3. CASE ~(n <= whole)
    <3>1. n = whole + 1 /\ rest > 0 /\ width(n) = rest
      BY <1>1, <1>3, <2>0, <2>3
    <3>2. f = size * whole
      BY <1>3, <2>1, <3>1
    <3>3. slen - f = rest
      BY <1>1, <1>3, <2>1, <3>2
    <3>4. Min({size, rest}) = rest
      BY <1>1 DEF Min
    <3>5. f + rest <= slen /\ rest \in Nat \ {0}
      BY <1>1, <2>1, <3>1, <3>3
    <3>6. Min({size, slen - f}) = rest
      BY <3>3, <3>4
    <3> HIDE DEF width
    <3> QED
      BY <2>1, <3>1, <3>5, <3>6
  <2> QED
    BY <2>2, <2>3
<1> HIDE DEF count, width
<1>7. ASSUME NEW n \in 1..count
      PROVE  /\ printed[n] % 65536 = Hexadecimal(Chunk(n, size)) % 65536
             /\ Len(Chunk(n, size)) <= 3 => printed[n] = Hexadecimal(Chunk(n, size))
             /\ -32768 <= printed[n] /\ printed[n] <= 32767
  <2>1. PICK f \in Nat, w \in Nat \ {0} : /\ f = (n - 1) * size /\ w = width(n) /\ f + w <= slen
                                          /\ Min({size, slen - (n - 1) * size}) = w
    BY <1>6
  <2>2. Chunk(n, size) = [m \in 1..w |-> str[f + m - 1]]
    BY <2>1 DEF Chunk
  <2>3. printed[n] = bt_char2_to_byte(str, slen, f, w)
    BY <1>2, <2>1
  <2> DEFINE digits == [m \in 1..w |-> str[f + m - 1]]
  <2>4. \A k \in 0..(slen - 1) : str[k] \in Int
    <3>1. \A k \in 0..(slen - 1) : str[k] \in Chars
      BY DEF IsString
    <3> QED
      <4>1. -128..127 \subseteq Int
        OBVIOUS
      <4>2. Chars \subseteq Int
        BY ONLY <4>1, CodesAssumption, Zenon
      <4> QED
        BY <3>1, <4>2
  <2>5. ASSUME NEW m \in 1..w PROVE digits[m] = str[f + m - 1] /\ digits[m] \in Int
    <3>1. f + m - 1 \in 0..(slen - 1)
      BY <2>1
    <3> QED
      BY <2>4, <3>1
  <2>6. Len(digits) = w
    OBVIOUS
  <2>7. ~(slen - f < w)
    BY <2>1
  <2> HIDE DEF digits
  <2> DEFINE r == bt_char2_to_byte(str, slen, f, w)
             h == Hexadecimal(digits)
  <2>8. w \in Nat
    OBVIOUS
  <2>9. /\ r \in Int /\ -32768 <= r /\ r <= 32767 /\ r % 65536 = h % 65536 /\ (w <= 3 => r = h)
    <3>1. slen \in Nat /\ f \in Nat /\ w \in Nat
      OBVIOUS
    <3> QED
      <4>1. Stand(digits, str, f, w)
        BY <2>5, <2>6 DEF Stand
      <4>2. ReadAs(digits, w, bt_char2_to_byte(str, slen, f, w))
        BY <2>7, <3>1, <4>1, ChunkRead
      <4> QED
        BY <4>2 DEF ReadAs
  <2> HIDE DEF r, h
  <2>10. printed[n] = r /\ Hexadecimal(Chunk(n, size)) = h /\ Len(Chunk(n, size)) = w
    BY <2>2, <2>3, <2>6 DEF r, h, digits
  <2> QED
    BY <2>9, <2>10
<1>8. /\ size * Len(printed) \in slen..(slen + size - 1)
      /\ \A n \in DOMAIN printed :
           /\ printed[n] % 65536 = Hexadecimal(Chunk(n, size)) % 65536
           /\ Len(Chunk(n, size)) <= 3 => printed[n] = Hexadecimal(Chunk(n, size))
           /\ -32768 <= printed[n] /\ printed[n] <= 32767
  BY <1>4, <1>5, <1>7
<1> QED
  BY <1>8 DEF printed

\* Every digit that hex-dec prints belongs to its own chunk, and a chunk is read as the low 16
\* bits, with their sign, of its hexadecimal number, for strings of every length and every size.
THEOREM ChunksCorrect == Spec => []ChunksInHex
  <1>1. Inv => ChunksInHex
    <2> SUFFICES ASSUME Inv, NEW size \in 1..(MaxStr + 1)
                 PROVE  LET printed == Chunks(str, slen, size)
                        IN  /\ size * Len(printed) \in slen..(slen + size - 1)
                            /\ \A n \in DOMAIN printed :
                                 /\ printed[n] % 65536 = Hexadecimal(Chunk(n, size)) % 65536
                                 /\ Len(Chunk(n, size)) <= 3 => printed[n] = Hexadecimal(Chunk(n, size))
                                 /\ -32768 <= printed[n] /\ printed[n] <= 32767
      BY DEF ChunksInHex
    <2>1. slen \in Nat /\ IsString(str, slen) /\ size \in Nat \ {0}
      BY DEF Inv, TypeOK
    <2> QED BY <2>1, ChunksRead
  <1> QED BY <1>1, InvHolds, PTL

-----------------------------------------------------------------------------
(* The walk over a FAT image                                               *)

DirTypeOK ==
    /\ clusters \in Nat \ {0} /\ perCluster \in Nat \ {0}
    /\ image \in [1..(clusters * perCluster) -> Entries(clusters) \cup {Unread}]
    /\ stack \in Seq([addr : Nat, idx : Nat, long : Nat, depth : Nat])
    /\ phase \in {"walk", "done", "overflow"}
    /\ phase = "walk" => stack # <<>>
    /\ phase = "done" => stack = <<>>
    /\ \E T : shown \in Seq(T)

\* What has been read of the directory in cluster c, and which clusters have been reached
\* by it: unlike what is listed in an image of which entries are yet to be chosen, it stays.
Seen(c) ==
    {p \in Place(c) : \A q \in ClusterAddr(c)..p : image[q].kind \notin {"unread", "end"}}
SeenChildren(c) ==
    {image[p].cluster : p \in {q \in Seen(c) : image[q].kind = "dir"}} \cap Clusters
SeenReached ==
    {c \in Clusters : \A T \in SUBSET Clusters :
        CLUST_FIRST \in T /\ (\A d \in T : SeenChildren(d) \subseteq T) => c \in T}

\* Entries are only read, and stay as they are.
Grows ==
    /\ clusters' = clusters /\ perCluster' = perCluster
    /\ \A p \in 1..(clusters * perCluster) : image[p].kind # "unread" => image'[p] = image[p]

\* The clusters of an image are in it.
LEMMA Places ==
    ASSUME DirTypeOK
    PROVE  /\ clusters * perCluster \in Nat /\ Len(image) = clusters * perCluster
           /\ DOMAIN image = 1..(clusters * perCluster)
           /\ \A p \in Nat : LastRead(p) \in Int /\ LastRead(p) <= clusters * perCluster
           /\ \A c \in Clusters : ClusterAddr(c) \in Nat \ {0}
           /\ CLUST_FIRST \in Clusters /\ ClusterAddr(CLUST_FIRST) = 1
<1> DEFINE n == clusters * perCluster
<1>1. n \in Nat
  BY DEF DirTypeOK
<1>2. image \in [1..n -> Entries(clusters) \cup {Unread}]
  BY DEF DirTypeOK
<1> HIDE DEF n
<1>3. Len(image) = n /\ DOMAIN image = 1..n
  BY <1>1, <1>2
<1>4. ASSUME NEW a \in Int, NEW b \in Int PROVE Min({a, b}) \in Int /\ Min({a, b}) <= b
  BY DEF Min
<1>5. \A p \in Nat : LastRead(p) \in Int /\ LastRead(p) <= n
  <2> SUFFICES ASSUME NEW p \in Nat PROVE LastRead(p) \in Int /\ LastRead(p) <= n
    OBVIOUS
  <2>1. p + BufEntries - 1 \in Int /\ n \in Int
    BY <1>1, FatAssumption
  <2>2. LastRead(p) = Min({p + BufEntries - 1, n})
    BY <1>3 DEF LastRead
  <2> QED
    BY <1>4, <2>1, <2>2
<1>6. \A c \in Clusters : ClusterAddr(c) \in Nat \ {0}
  <2>1. \A c \in Clusters : c - CLUST_FIRST \in Nat
    BY DEF Clusters, DirTypeOK, CLUST_FIRST
  <2>2. \A a \in Nat : a * perCluster + 1 \in Nat \ {0}
    <3>1. \A a, b \in Nat : a * b \in Nat
      OBVIOUS
    <3>2. \A b \in Nat : b + 1 \in Nat \ {0}
      OBVIOUS
    <3>3. perCluster \in Nat
      BY DEF DirTypeOK
    <3>4. \A a \in Nat : a * perCluster \in Nat
      BY <3>1, <3>3
    <3> QED
      BY <3>2, <3>4
  <2> QED
    BY <2>1, <2>2 DEF ClusterAddr
<1>7. CLUST_FIRST \in Clusters
  BY DEF CLUST_FIRST, Clusters, DirTypeOK
<1>8. ClusterAddr(CLUST_FIRST) = 1
  <2>1. 0 * perCluster + 1 = 1 /\ CLUST_FIRST - CLUST_FIRST = 0
    BY DEF DirTypeOK, CLUST_FIRST
  <2> QED
    BY <2>1 DEF ClusterAddr
<1> QED
  BY <1>1, <1>3, <1>5, <1>6, <1>7, <1>8 DEF n

\* What has been seen stays.
LEMMA SeenStays ==
    ASSUME DirTypeOK, DirTypeOK', Grows
    PROVE  /\ Clusters' = Clusters
           /\ \A c : ClusterAddr(c)' = ClusterAddr(c)
           /\ \A p : LastRead(p)' = LastRead(p)
           /\ \A c \in Clusters : Seen(c) \subseteq Seen(c)' /\ \A p \in Seen(c) : image'[p] = image[p]
           /\ SeenReached \subseteq SeenReached'
<1>1. clusters' = clusters /\ perCluster' = perCluster /\ Len(image') = Len(image)
  <2>1. Len(image) = clusters * perCluster /\ (Len(image) = clusters * perCluster)'
    BY Places, PTL
  <2> QED
    BY <2>1 DEF Grows
<1>2. Clusters' = Clusters
  BY <1>1 DEF Clusters
<1>3. \A c : ClusterAddr(c)' = ClusterAddr(c)
  BY <1>1 DEF ClusterAddr
<1>4. \A p : LastRead(p)' = LastRead(p)
  BY <1>1 DEF LastRead
<1>5. ASSUME NEW c \in Clusters PROVE Seen(c) \subseteq Seen(c)' /\ \A p \in Seen(c) : image'[p] = image[p]
  <2>1. Place(c)' = Place(c)
    BY <1>3, <1>4 DEF Place
  <2>2. ClusterAddr(c) \in Nat \ {0} /\ LastRead(ClusterAddr(c)) <= clusters * perCluster
        /\ LastRead(ClusterAddr(c)) \in Int /\ clusters * perCluster \in Nat
    BY Places
  <2>3. ASSUME NEW p \in Seen(c), NEW q \in ClusterAddr(c)..p PROVE image'[q] = image[q]
    <3>1. p \in Place(c) /\ image[q].kind # "unread"
      BY DEF Seen
    <3>2. q \in 1..(clusters * perCluster)
      BY <2>2, <3>1 DEF Place
    <3> QED
      BY <3>1, <3>2 DEF Grows
  <2>4. ASSUME NEW p \in Seen(c) PROVE p \in Seen(c)' /\ image'[p] = image[p]
    <3>1. p \in Place(c) /\ p \in ClusterAddr(c)..p
      BY <2>2 DEF Seen, Place
    <3>2. \A q \in ClusterAddr(c)..p : image'[q].kind \notin {"unread", "end"}
      BY <2>3 DEF Seen
    <3> QED
      BY <1>3, <2>1, <2>3, <3>1, <3>2 DEF Seen
  <2> QED
    BY <2>4
<1>6. ASSUME NEW c \in Clusters PROVE SeenChildren(c) \subseteq SeenChildren(c)'
  BY <1>2, <1>5 DEF SeenChildren
<1>7. SeenReached \subseteq SeenReached'
  BY <1>2, <1>6 DEF SeenReached
<1> QED
  BY <1>2, <1>3, <1>4, <1>5, <1>7

\* The root is reached, and a subdirectory of what is reached.
LEMMA ReachedOn ==
    ASSUME DirTypeOK
    PROVE  /\ CLUST_FIRST \in SeenReached /\ SeenReached \subseteq Clusters
           /\ \A c \in SeenReached : SeenChildren(c) \subseteq SeenReached
<1>1. CLUST_FIRST \in SeenReached /\ SeenReached \subseteq Clusters
  BY Places DEF SeenReached
<1>2. ASSUME NEW c \in SeenReached, NEW d \in SeenChildren(c) PROVE d \in SeenReached
  BY <1>2 DEF SeenReached, SeenChildren
<1> QED
  BY <1>1, <1>2

\* What has been seen is listed.
LEMMA SeenIsListed ==
    ASSUME DirTypeOK
    PROVE  /\ \A c : Seen(c) \subseteq Listed(c)
           /\ SeenReached \subseteq Reached
<1>1. \A c : Seen(c) \subseteq Listed(c)
  BY DEF Seen, Listed
<1>2. \A c : SeenChildren(c) \subseteq Children(c)
  BY <1>1 DEF SeenChildren, Children
<1>3. SeenReached \subseteq Reached
  BY <1>2 DEF SeenReached, Reached, ReachedFrom
<1> QED
  BY <1>1, <1>3

-----------------------------------------------------------------------------
(* The invariant of the walk                                               *)

ShownPlaces == {shown[k].place : k \in 1..Len(shown)}

\* One of the first n lines names the directory in cluster c, or it is the root.
Named(c, depth, n) ==
    \/ c = CLUST_FIRST /\ depth = 0
    \/ \E j \in 1..n :
         /\ image[shown[j].place].kind = "dir" /\ image[shown[j].place].cluster = c
         /\ depth = shown[j].depth + 1

\* The entries of a call up to idx are read, and shown if they are to be.
FrameOK(f) ==
    /\ \E c \in SeenReached : f.addr = ClusterAddr(c) /\ Named(c, f.depth, Len(shown))
    /\ f.idx \in f.addr..(LastRead(f.addr) + 1)
    /\ \A p \in f.addr..(f.idx - 1) :
         /\ image[p].kind \notin {"unread", "end"}
         /\ image[p].kind \in {"file", "dir"} => p \in ShownPlaces
    /\ f.long = 0 <=> (f.idx = f.addr \/ image[f.idx - 1].kind # "long")

\* The entries from r to the one before p are a whole long name.
WholeName(r, p) ==
    /\ image[r].kind = "long" /\ image[r].bit6
    /\ \A q \in (r + 1)..(p - 1) : image[q].kind = "long" /\ ~image[q].bit6

LineOK(l, n) ==
    \E c \in SeenReached :
        /\ l.place \in Seen(c) /\ image[l.place].kind \in {"file", "dir"}
        /\ Named(c, l.depth, n)
        /\ \A r \in ClusterAddr(c)..(l.place - 1) : WholeName(r, l.place) => l.name = r
        /\ l.place = ClusterAddr(c) \/ image[l.place - 1].kind # "long" => l.name = l.place

\* All of a directory is shown.
Finished(c) ==
    \E e \in ClusterAddr(c)..(LastRead(ClusterAddr(c)) + 1) :
        /\ \A p \in ClusterAddr(c)..(e - 1) :
             /\ image[p].kind \notin {"unread", "end"}
             /\ image[p].kind \in {"file", "dir"} => p \in ShownPlaces
        /\ e <= LastRead(ClusterAddr(c)) => image[e].kind = "end"

\* A directory that is named is gone through, or a call is at it.
Complete ==
    phase # "overflow" =>
        \A c \in Clusters :
            (\E depth : Named(c, depth, Len(shown))) =>
                Finished(c) \/ \E i \in 1..Len(stack) : stack[i].addr = ClusterAddr(c)

WalkOK ==
    /\ DirTypeOK
    /\ \A i \in 1..Len(stack) : FrameOK(stack[i])
    /\ \A k \in 1..Len(shown) : LineOK(shown[k], k - 1)
    /\ Complete

\* Lines are only added.
Prints ==
    /\ Len(shown) <= Len(shown')
    /\ \A k \in 1..Len(shown) : shown'[k] = shown[k]

\* What is shown has been read.
LEMMA ShownRead ==
    ASSUME WalkOK
    PROVE  /\ Len(shown) \in Nat
           /\ \A k \in 1..Len(shown) : \E c \in Clusters : shown[k].place \in Seen(c)
<1>1. Len(shown) \in Nat
  BY DEF WalkOK, DirTypeOK
<1> QED
  BY <1>1, ReachedOn DEF WalkOK, LineOK

\* What is so of calls, lines and directories stays so while entries are read and lines
\* are added.
LEMMA Stays ==
    ASSUME WalkOK, DirTypeOK', Grows, Prints
    PROVE  /\ \A c, depth : \A n \in 0..Len(shown) : Named(c, depth, n) => Named(c, depth, n)'
           /\ \A f : f.idx \in Nat /\ FrameOK(f) => FrameOK(f)'
           /\ \A l : \A n \in 0..Len(shown) : LineOK(l, n) => LineOK(l, n)'
           /\ \A c \in Clusters : Finished(c) => Finished(c)'
<1>1. /\ Clusters' = Clusters
      /\ \A c : ClusterAddr(c)' = ClusterAddr(c)
      /\ \A p : LastRead(p)' = LastRead(p)
      /\ \A c \in Clusters : Seen(c) \subseteq Seen(c)' /\ \A p \in Seen(c) : image'[p] = image[p]
      /\ SeenReached \subseteq SeenReached' /\ SeenReached \subseteq Clusters
  BY SeenStays, ReachedOn DEF WalkOK
<1>2. Len(shown) \in Nat /\ Len(shown') \in Nat /\ Len(shown) <= Len(shown')
      /\ \A k \in 1..Len(shown) : shown'[k] = shown[k]
  <2>1. Len(shown) \in Nat
    BY ShownRead
  <2>2. Len(shown') \in Nat
    <3>1. PICK T : shown' \in Seq(T)
      BY DEF DirTypeOK
    <3> QED
      BY <3>1
  <2> QED
    BY <2>1, <2>2 DEF Prints
<1>3. \A k \in 1..Len(shown) : image'[shown[k].place] = image[shown[k].place]
  BY <1>1, ShownRead
<1>4. ASSUME NEW c, NEW depth, NEW n \in 0..Len(shown), Named(c, depth, n) PROVE Named(c, depth, n)'
  <2>1. CASE c = CLUST_FIRST /\ depth = 0
    BY <2>1 DEF Named
  <2>2. CASE ~(c = CLUST_FIRST /\ depth = 0)
    <3>1. PICK j \in 1..n : /\ image[shown[j].place].kind = "dir"
                            /\ image[shown[j].place].cluster = c
                            /\ depth = shown[j].depth + 1
      BY <1>4, <2>2 DEF Named
    <3>2. j \in 1..Len(shown)
      BY <1>2
    <3> QED
      BY <1>2, <1>3, <3>1, <3>2 DEF Named
  <2> QED
    BY <2>1, <2>2
<1>5. ShownPlaces \subseteq ShownPlaces'
  BY <1>2 DEF ShownPlaces
<1>6. \A p \in 1..(clusters * perCluster) : image[p].kind # "unread" => image'[p] = image[p]
  BY DEF Grows
<1>7. ASSUME NEW f, f.idx \in Nat, FrameOK(f) PROVE FrameOK(f)'
  <2>1. PICK c \in SeenReached : f.addr = ClusterAddr(c) /\ Named(c, f.depth, Len(shown))
    BY <1>7 DEF FrameOK
  <2>2. /\ f.addr \in Nat \ {0} /\ LastRead(f.addr) \in Int /\ LastRead(f.addr) <= clusters * perCluster
        /\ clusters * perCluster \in Nat
    BY <1>1, <2>1, Places DEF WalkOK
  <2>3. Named(c, f.depth, Len(shown))'
    <3>1. CASE c = CLUST_FIRST /\ f.depth = 0
      BY <3>1 DEF Named
    <3>2. CASE ~(c = CLUST_FIRST /\ f.depth = 0)
      <4>1. PICK j \in 1..Len(shown) : /\ image[shown[j].place].kind = "dir"
                                       /\ image[shown[j].place].cluster = c
                                       /\ f.depth = shown[j].depth + 1
        BY <2>1, <3>2 DEF Named
      <4>2. /\ j \in 1..Len(shown') /\ shown'[j] = shown[j]
            /\ image'[shown[j].place] = image[shown[j].place]
        BY <1>2, <1>3
      <4> QED
        BY <4>1, <4>2 DEF Named
    <3> QED
      BY <3>1, <3>2
  <2>4. c \in SeenReached' /\ f.addr = ClusterAddr(c)'
    BY <1>1, <2>1
  <2>5. f.idx \in f.addr..(LastRead(f.addr)' + 1)
    BY <1>1, <1>7 DEF FrameOK
  <2>6. ASSUME NEW p \in f.addr..(f.idx - 1)
        PROVE  /\ image'[p] = image[p] /\ image[p].kind \notin {"unread", "end"}
               /\ image[p].kind \in {"file", "dir"} => p \in ShownPlaces
    <3>1. p \in 1..(clusters * perCluster)
      BY <1>7, <2>2 DEF FrameOK
    <3> QED
      BY <1>6, <1>7, <3>1 DEF FrameOK
  <2>7. f.long = 0 <=> (f.idx = f.addr \/ image'[f.idx - 1].kind # "long")
    <3>1. f.idx # f.addr => f.idx - 1 \in f.addr..(f.idx - 1)
      BY <2>2, <1>7 DEF FrameOK
    <3> QED
      BY <1>7, <2>6, <3>1 DEF FrameOK
  <2> QED
    BY <1>5, <2>3, <2>4, <2>5, <2>6, <2>7 DEF FrameOK
<1>8. ASSUME NEW l, NEW n \in 0..Len(shown), LineOK(l, n) PROVE LineOK(l, n)'
  <2>1. PICK c \in SeenReached :
          /\ l.place \in Seen(c) /\ image[l.place].kind \in {"file", "dir"}
          /\ Named(c, l.depth, n)
          /\ \A r \in ClusterAddr(c)..(l.place - 1) : WholeName(r, l.place) => l.name = r
          /\ l.place = ClusterAddr(c) \/ image[l.place - 1].kind # "long" => l.name = l.place
    BY <1>8 DEF LineOK
  <2>2. /\ c \in SeenReached' /\ l.place \in Seen(c)' /\ image'[l.place] = image[l.place]
        /\ Named(c, l.depth, n)'
    BY <1>1, <1>4, <2>1
  <2>3. ClusterAddr(c) \in Nat /\ l.place \in Int /\ LastRead(ClusterAddr(c)) \in Int
    BY <1>1, <2>1, Places DEF Seen, Place, WalkOK
  <2>4. ASSUME NEW q \in ClusterAddr(c)..l.place PROVE image'[q] = image[q]
    <3>1. q \in Seen(c)
      BY <2>1, <2>3 DEF Seen, Place
    <3> QED
      BY <1>1, <3>1
  <2>5. ASSUME NEW r \in ClusterAddr(c)..(l.place - 1), WholeName(r, l.place)' PROVE l.name = r
    <3>1. WholeName(r, l.place)
      <4>1. image'[r] = image[r] /\ \A q \in (r + 1)..(l.place - 1) : image'[q] = image[q]
        BY <2>3, <2>4
      <4> QED
        BY <2>5, <4>1 DEF WholeName
    <3> QED
      BY <2>1, <3>1
  <2>6. ClusterAddr(c)' = ClusterAddr(c)
    BY <1>1
  <2>7. l.place = ClusterAddr(c) \/ image'[l.place - 1].kind # "long" => l.name = l.place
    <3>1. l.place # ClusterAddr(c) => l.place - 1 \in ClusterAddr(c)..l.place
      BY <2>1, <2>3 DEF Seen, Place
    <3> QED
      BY <2>1, <2>4, <3>1
  <2> QED
    BY <2>1, <2>2, <2>5, <2>6, <2>7 DEF LineOK
<1>9. ASSUME NEW c \in Clusters, Finished(c) PROVE Finished(c)'
  <2>0. PICK a : a = ClusterAddr(c)
    OBVIOUS
  <2>1. PICK e \in a..(LastRead(a) + 1) :
          /\ \A p \in a..(e - 1) :
               /\ image[p].kind \notin {"unread", "end"}
               /\ image[p].kind \in {"file", "dir"} => p \in ShownPlaces
          /\ e <= LastRead(a) => image[e].kind = "end"
    BY <1>9, <2>0 DEF Finished
  <2>2. /\ a \in Nat \ {0} /\ LastRead(a) \in Int /\ LastRead(a) <= clusters * perCluster
        /\ clusters * perCluster \in Nat
    BY <2>0, Places DEF WalkOK
  <2>3. ASSUME NEW p \in a..(e - 1)
        PROVE  /\ image'[p].kind \notin {"unread", "end"}
               /\ image'[p].kind \in {"file", "dir"} => p \in ShownPlaces'
    <3>1. p \in 1..(clusters * perCluster)
      BY <2>2
    <3>2. image'[p] = image[p]
      BY <1>6, <2>1, <3>1
    <3> QED
      BY <1>5, <2>1, <3>2
  <2>4. e <= LastRead(a) => image'[e].kind = "end"
    <3>1. e <= LastRead(a) => e \in 1..(clusters * perCluster)
      BY <2>2
    <3> QED
      BY <1>6, <2>1, <3>1
  <2>5. LastRead(a)' = LastRead(a) /\ ClusterAddr(c)' = a
    BY <1>1, <2>0
  <2> QED
    BY <2>3, <2>4, <2>5 DEF Finished
<1> QED
  BY <1>4, <1>7, <1>8, <1>9

\* The kinds of entries.
LEMMA Kinds ==
    ASSUME NEW n \in Nat \ {0}, NEW e \in Entries(n)
    PROVE  /\ e.kind \in {"end", "dotdir", "file", "long", "dir"}
           /\ e.kind = "dir" => e.cluster \in CLUST_FIRST..(CLUST_FIRST + n)
<1> DEFINE C == CLUST_FIRST..(CLUST_FIRST + n)
<1>1. CASE e \in {End, DotDir}
  BY <1>1 DEF End, DotDir
<1>2. CASE e \in UNION {{Long(b), File(b)} \cup {Dir(b, c) : c \in C} : b \in BOOLEAN}
  <2>1. PICK b \in BOOLEAN : e \in {Long(b), File(b)} \cup {Dir(b, c) : c \in C}
    BY <1>2, Zenon
  <2>2. CASE e \in {Long(b), File(b)}
    BY <2>2 DEF Long, File
  <2>3. CASE e \in {Dir(b, c) : c \in C}
    <3>1. PICK c \in C : e = Dir(b, c)
      BY <2>3, Zenon
    <3> QED
      BY <3>1 DEF Dir
  <2> QED
    BY <2>1, <2>2, <2>3
<1> QED
  BY <1>1, <1>2 DEF Entries

\* The innermost call.
LEMMA TopOK ==
    ASSUME WalkOK, phase = "walk"
    PROVE  /\ Depth \in Nat \ {0} /\ Depth = Len(stack)
           /\ Top \in [addr : Nat, idx : Nat, long : Nat, depth : Nat] /\ FrameOK(Top)
           /\ \A i \in 1..Depth : stack[i] \in [addr : Nat, idx : Nat, long : Nat, depth : Nat]
           /\ Top.addr \in Nat \ {0} /\ Top.idx >= Top.addr
           /\ LastRead(Top.addr) \in Int /\ LastRead(Top.addr) <= clusters * perCluster
           /\ clusters * perCluster \in Nat
<1>1. Depth \in Nat \ {0}
  BY DEF WalkOK, DirTypeOK, Depth
<1>2. /\ Top \in [addr : Nat, idx : Nat, long : Nat, depth : Nat]
      /\ \A i \in 1..Depth : stack[i] \in [addr : Nat, idx : Nat, long : Nat, depth : Nat]
  <2> DEFINE V == [addr : Nat, idx : Nat, long : Nat, depth : Nat]
  <2>1. stack \in Seq(V) /\ Depth = Len(stack)
    BY DEF WalkOK, DirTypeOK, Depth
  <2> HIDE DEF V
  <2>2. \A i \in 1..Depth : stack[i] \in V
    BY <1>1, <2>1
  <2>3. Top = stack[Depth] /\ Depth \in 1..Depth
    BY <1>1 DEF Top
  <2> QED
    BY <2>2, <2>3 DEF V
<1>3. FrameOK(Top)
  BY <1>1 DEF WalkOK, Depth, Top
<1>4. PICK c \in SeenReached : Top.addr = ClusterAddr(c)
  BY <1>3 DEF FrameOK
<1>5. /\ Top.addr \in Nat \ {0} /\ LastRead(Top.addr) \in Int
      /\ LastRead(Top.addr) <= clusters * perCluster /\ clusters * perCluster \in Nat
  BY <1>4, ReachedOn, Places DEF WalkOK
<1>6. Top.idx >= Top.addr
  BY <1>2, <1>3, <1>5 DEF FrameOK
<1> QED
  BY <1>1, <1>2, <1>3, <1>5, <1>6 DEF Depth

\* The loop looks at an entry.
LEMMA LooksAt ==
    ASSUME WalkOK, NEW e \in Entries(clusters), Looks(e),
           clusters' = clusters, perCluster' = perCluster
    PROVE  /\ Grows
           /\ image' \in [1..(clusters' * perCluster') -> Entries(clusters') \cup {Unread}]
           /\ image'[Top.idx] = e /\ e.kind # "unread"
           /\ Top.idx \in 1..(clusters * perCluster)
<1>1. Top.idx \in 1..(clusters * perCluster)
  BY TopOK DEF Looks, InBuffer
<1>2. /\ image[Top.idx] \in {Unread, e} /\ image' = [image EXCEPT ![Top.idx] = e]
      /\ image \in [1..(clusters * perCluster) -> Entries(clusters) \cup {Unread}]
  BY DEF Looks, WalkOK, DirTypeOK
<1>3. image'[Top.idx] = e /\ \A p \in 1..(clusters * perCluster) : p # Top.idx => image'[p] = image[p]
  BY <1>1, <1>2
<1>4. e.kind # "unread"
  BY Kinds DEF WalkOK, DirTypeOK
<1>5. Grows
  BY <1>2, <1>3 DEF Grows, Unread
<1>6. image' \in [1..(clusters' * perCluster') -> Entries(clusters') \cup {Unread}]
  <2> DEFINE n == clusters * perCluster
             V == Entries(clusters) \cup {Unread}
  <2>1. image \in [1..n -> V] /\ e \in V /\ image' = [image EXCEPT ![Top.idx] = e]
    BY <1>2
  <2>2. n = clusters' * perCluster' /\ V = Entries(clusters') \cup {Unread}
    OBVIOUS
  <2> HIDE DEF n, V
  <2>3. image' \in [1..n -> V]
    BY <2>1
  <2> QED
    BY <2>2, <2>3
<1> QED
  BY <1>1, <1>3, <1>4, <1>5, <1>6

\* What has been looked at, as the call and the lines have it.
LEMMA EntrySeen ==
    ASSUME WalkOK, NEW e \in Entries(clusters), e.kind # "end", Looks(e),
           clusters' = clusters, perCluster' = perCluster, DirTypeOK', Prints
    PROVE  \E c \in SeenReached :
             /\ Top.addr = ClusterAddr(c) /\ Named(c, Top.depth, Len(shown))
             /\ Top.idx \in Seen(c)'
<1>1. PICK c \in SeenReached : Top.addr = ClusterAddr(c) /\ Named(c, Top.depth, Len(shown))
  BY TopOK DEF FrameOK, Looks
<1>2. Grows /\ image'[Top.idx] = e /\ e.kind # "unread" /\ Top.idx \in 1..(clusters * perCluster)
  BY LooksAt
<1>0. PICK a, i : a = Top.addr /\ i = Top.idx
  OBVIOUS
<1>3. ClusterAddr(c)' = a /\ LastRead(a)' = LastRead(a)
  <2>1. /\ \A d : ClusterAddr(d)' = ClusterAddr(d)
        /\ \A p : LastRead(p)' = LastRead(p)
    BY <1>2, SeenStays DEF WalkOK
  <2> QED
    BY <1>0, <1>1, <2>1
<1>4. ASSUME NEW q \in Top.addr..Top.idx PROVE image'[q].kind \notin {"unread", "end"}
  <2>1. CASE q = Top.idx
    BY <1>2, <2>1
  <2>2. CASE q # Top.idx
    <3>1. q \in Top.addr..(Top.idx - 1) /\ q \in 1..(clusters * perCluster)
      BY <1>2, <2>2, TopOK DEF Looks
    <3>2. image[q].kind \notin {"unread", "end"}
      BY <3>1, TopOK DEF FrameOK, Looks
    <3> QED
      BY <1>2, <3>1, <3>2 DEF Grows
  <2> QED
    BY <2>1, <2>2
<1>5. Top.idx \in Top.addr..LastRead(Top.addr)
  BY TopOK DEF Looks, InBuffer
<1>6. Top.idx \in Seen(c)'
  <2>1. i \in a..LastRead(a)' /\ \A q \in a..i : image'[q].kind \notin {"unread", "end"}
    BY <1>0, <1>3, <1>4, <1>5
  <2>2. i \in Seen(c)'
    BY <1>3, <2>1 DEF Seen, Place
  <2> QED
    BY <1>0, <2>2
<1> QED
  BY <1>1, <1>6

\* The innermost call after a turn of its loop.
LEMMA TurnedFrame ==
    ASSUME WalkOK, NEW e \in Entries(clusters), e.kind # "end", Looks(e),
           clusters' = clusters, perCluster' = perCluster, DirTypeOK', Prints,
           e.kind \in {"file", "dir"} => Top.idx \in ShownPlaces',
           NEW long \in Nat, long = 0 <=> e.kind # "long",
           NEW f, f = [Top EXCEPT !.idx = @ + 1, !.long = long]
    PROVE  FrameOK(f)'
<1>1. /\ Grows /\ image'[Top.idx] = e /\ Top.idx \in 1..(clusters * perCluster)
      /\ e.kind # "unread"
  BY LooksAt
<1>2. phase = "walk" /\ Top.idx <= LastRead(Top.addr)
  BY DEF Looks, InBuffer
<1>3. /\ FrameOK(Top) /\ Top \in [addr : Nat, idx : Nat, long : Nat, depth : Nat]
      /\ Top.idx >= Top.addr /\ LastRead(Top.addr) \in Int
  BY <1>2, TopOK
<1>4. PICK a, i : a = Top.addr /\ i = Top.idx
  OBVIOUS
<1>5. /\ f.addr = a /\ f.idx = i + 1 /\ f.long = long /\ f.depth = Top.depth
      /\ i \in Nat /\ a \in Nat /\ a <= i
  BY <1>3, <1>4
<1>6. LastRead(a)' = LastRead(a)
  <2>1. \A p : LastRead(p)' = LastRead(p)
    BY <1>1, SeenStays DEF WalkOK
  <2> QED
    BY <2>1
<1>7. PICK g : g = Top
  OBVIOUS
<1>8. FrameOK(g)'
  BY <1>1, <1>3, <1>7, Stays
<1>9. f.idx \in f.addr..(LastRead(f.addr)' + 1)
  BY <1>2, <1>3, <1>4, <1>5, <1>6
<1>10. ASSUME NEW p \in f.addr..(f.idx - 1)
       PROVE  /\ image'[p].kind \notin {"unread", "end"}
              /\ image'[p].kind \in {"file", "dir"} => p \in ShownPlaces'
  <2>1. CASE p = i
    BY <1>1, <1>4, <2>1
  <2>2. CASE p # i
    <3>1. p \in g.addr..(g.idx - 1)
      BY <1>4, <1>5, <1>7, <2>2
    <3> QED
      BY <1>8, <3>1 DEF FrameOK
  <2> QED
    BY <2>1, <2>2
<1>11. f.long = 0 <=> (f.idx = f.addr \/ image'[f.idx - 1].kind # "long")
  BY <1>1, <1>4, <1>5
<1>12. (\E c \in SeenReached : f.addr = ClusterAddr(c) /\ Named(c, f.depth, Len(shown)))'
  <2>1. f.addr = g.addr /\ f.depth = g.depth
    BY <1>4, <1>5, <1>7
  <2> QED
    BY <1>8, <2>1 DEF FrameOK
<1> QED
  BY <1>9, <1>10, <1>11, <1>12 DEF FrameOK

\* A whole long name before the entry looked at is the one that is taken.
LEMMA NameTaken ==
    ASSUME WalkOK, phase = "walk", NEW r \in Top.addr..(Top.idx - 1), WholeName(r, Top.idx)
    PROVE  Line.name = r
<1>1. /\ FrameOK(Top) /\ Top \in [addr : Nat, idx : Nat, long : Nat, depth : Nat]
      /\ Top.idx >= Top.addr
  BY TopOK
<1>2. image[Top.idx - 1].kind = "long"
  <2>1. CASE r = Top.idx - 1
    BY <2>1 DEF WholeName
  <2>2. CASE r # Top.idx - 1
    <3>1. Top.idx - 1 \in (r + 1)..(Top.idx - 1)
      BY <1>1, <2>2
    <3> QED
      BY <3>1 DEF WholeName
  <2> QED
    BY <2>1, <2>2
<1>3. Top.long > 0
  BY <1>1, <1>2 DEF FrameOK
<1> DEFINE a == Top.addr
           S == {a} \cup {k \in a..(Top.idx - 1) : image[k].bit6}
<1>4. S \in SUBSET Int /\ r \in S
  BY <1>1 DEF WholeName
<1>5. ASSUME NEW k \in S PROVE r >= k
  <2>1. CASE k = a
    BY <1>1, <2>1
  <2>2. CASE k # a
    <3>1. k \in a..(Top.idx - 1) /\ image[k].bit6
      BY <2>2
    <3>2. k \notin (r + 1)..(Top.idx - 1)
      BY <3>1 DEF WholeName
    <3> QED
      BY <1>1, <3>1, <3>2
  <2> QED
    BY <2>1, <2>2
<1>6. Line.name = Max(S)
  BY <1>3 DEF Line, NameStart
<1> HIDE DEF S
<1> QED
  BY <1>4, <1>5, <1>6, MaxIs

\* An entry with no long entry before it is printed with its own name.
LEMMA OwnNameTaken ==
    ASSUME WalkOK, phase = "walk", Top.idx = Top.addr \/ image[Top.idx - 1].kind # "long"
    PROVE  Line.name = Top.idx
  BY TopOK DEF FrameOK, Line

\* The line that is printed.
LEMMA LineFits ==
    ASSUME WalkOK, NEW e \in Entries(clusters), e.kind \in {"file", "dir"}, Looks(e),
           clusters' = clusters, perCluster' = perCluster, DirTypeOK', Prints,
           NEW l, l = Line, NEW n, n = Len(shown)
    PROVE  LineOK(l, n)'
<1>1. PICK c \in SeenReached :
        /\ Top.addr = ClusterAddr(c) /\ Named(c, Top.depth, Len(shown))
        /\ Top.idx \in Seen(c)'
  BY EntrySeen
<1>2. Grows /\ image'[Top.idx] = e
  BY LooksAt
<1>3. l.place = Top.idx /\ l.depth = Top.depth /\ l.name = Line.name
  BY DEF Line
<1>4. /\ SeenReached \subseteq SeenReached' /\ \A d : ClusterAddr(d)' = ClusterAddr(d)
  BY <1>2, SeenStays DEF WalkOK
<1>5. Named(c, l.depth, n)'
  <2>1. n \in 0..Len(shown) /\ Named(c, l.depth, n)
    BY <1>1, <1>3, ShownRead
  <2>2. \A d, depth : \A m \in 0..Len(shown) : Named(d, depth, m) => Named(d, depth, m)'
    BY <1>2, Stays
  <2> QED
    BY <2>1, <2>2
<1>9. /\ FrameOK(Top) /\ Top.idx \in Nat /\ Top.addr \in Nat \ {0} /\ phase = "walk"
      /\ Top.idx >= Top.addr
      /\ LastRead(Top.addr) \in Int /\ LastRead(Top.addr) <= clusters * perCluster
      /\ clusters * perCluster \in Nat
  BY TopOK DEF Looks
<1>10. ASSUME NEW q \in Top.addr..(Top.idx - 1) PROVE image'[q] = image[q]
  <2>1. image[q].kind # "unread"
    BY <1>9 DEF FrameOK
  <2>2. q \in 1..(clusters * perCluster)
    BY <1>9 DEF FrameOK
  <2> QED
    BY <1>2, <2>1, <2>2 DEF Grows
<1>6. ASSUME NEW r \in Top.addr..(l.place - 1), WholeName(r, l.place)' PROVE l.name = r
  <2>1. WholeName(r, Top.idx)
    <3>1. image'[r] = image[r] /\ \A q \in (r + 1)..(Top.idx - 1) : image'[q] = image[q]
      BY <1>3, <1>9, <1>10
    <3> QED
      BY <1>3, <1>6, <3>1 DEF WholeName
  <2> QED
    BY <1>3, <1>6, <1>9, <2>1, NameTaken
<1>11. l.place = ClusterAddr(c)' \/ image'[l.place - 1].kind # "long" => l.name = l.place
  <2>1. Top.idx # Top.addr => Top.idx - 1 \in Top.addr..(Top.idx - 1)
    BY <1>9
  <2>2. Top.idx = Top.addr \/ image'[Top.idx - 1].kind # "long"
          => Top.idx = Top.addr \/ image[Top.idx - 1].kind # "long"
    BY <1>10, <2>1
  <2> QED
    BY <1>1, <1>3, <1>4, <1>9, <2>2, OwnNameTaken
<1>7. \A r \in ClusterAddr(c)'..(l.place - 1) : WholeName(r, l.place)' => l.name = r
  BY <1>1, <1>4, <1>6
<1>8. l.place \in Seen(c)' /\ image'[l.place].kind \in {"file", "dir"} /\ c \in SeenReached'
  BY <1>1, <1>2, <1>3, <1>4
<1> QED
  BY <1>5, <1>7, <1>8, <1>11 DEF LineOK

Frames == [addr : Nat, idx : Nat, long : Nat, depth : Nat]

\* The calls after a turn of the innermost one.
LEMMA TurnIs ==
    ASSUME WalkOK, phase = "walk", NEW long \in Nat, NEW st, st = Turn(long)
    PROVE  /\ st \in Seq(Frames) /\ Len(st) = Depth /\ st # <<>>
           /\ \A i \in 1..Depth : i # Depth => st[i] = stack[i]
           /\ st[Depth] = [Top EXCEPT !.idx = @ + 1, !.long = long]
<1>1. /\ Depth \in Nat \ {0} /\ Depth = Len(stack) /\ Top \in Frames
      /\ \A i \in 1..Depth : stack[i] \in Frames
  BY TopOK DEF Frames
<1>2. stack \in Seq(Frames) /\ DOMAIN stack = 1..Depth
  BY <1>1 DEF WalkOK, DirTypeOK, Frames
<1> DEFINE f == [Top EXCEPT !.idx = @ + 1, !.long = long]
<1>3. f \in Frames
  <2>1. Top.idx + 1 \in Nat /\ Top.addr \in Nat /\ Top.depth \in Nat
    BY <1>1 DEF Frames
  <2>2. PICK t : t = Top
    OBVIOUS
  <2>3. ASSUME NEW i \in Nat PROVE [t EXCEPT !.idx = i, !.long = long] \in Frames
    BY <1>1, <2>2 DEF Frames
  <2>4. f = [t EXCEPT !.idx = t.idx + 1, !.long = long]
    BY <2>2
  <2> HIDE DEF f
  <2> QED
    BY <2>1, <2>2, <2>3, <2>4
<1>4. st = [i \in 1..Depth |-> IF i = Depth THEN f ELSE stack[i]]
  BY <1>1, <1>2 DEF Turn, Top
<1> HIDE DEF f
<1>5. \A i \in 1..Depth : st[i] \in Frames
  BY <1>1, <1>3, <1>4
<1>6. st \in Seq(Frames) /\ Len(st) = Depth
  BY <1>1, <1>4, <1>5
<1>7. st # <<>>
  BY <1>1, <1>6
<1>8. st[Depth] = f /\ \A i \in 1..Depth : i # Depth => st[i] = stack[i]
  BY <1>1, <1>4
<1> QED
  BY <1>6, <1>7, <1>8 DEF f

\* One line more, or none.
LEMMA MayPrint ==
    ASSUME WalkOK,
           \/ shown' = shown
           \/ \E l : shown' = Append(shown, l)
    PROVE  Prints /\ \E T : shown' \in Seq(T)
<1>1. PICK T : shown \in Seq(T)
  BY DEF WalkOK, DirTypeOK
<1>2. CASE shown' = shown
  BY <1>1, <1>2 DEF Prints
<1>3. ASSUME NEW l, shown' = Append(shown, l) PROVE Prints /\ \E U : shown' \in Seq(U)
  <2>1. shown \in Seq(T \cup {l})
    BY <1>1
  <2>2. shown' \in Seq(T \cup {l}) /\ Len(shown') = Len(shown) + 1
    BY <1>3, <2>1
  <2>3. Prints
    BY <1>1, <1>3, <2>2 DEF Prints
  <2> QED
    BY <2>2, <2>3
<1> QED
  BY <1>2, <1>3

\* The lines after the entry e is shown.
LEMMA LinesFit ==
    ASSUME WalkOK, NEW e \in Entries(clusters), e.kind # "end", Looks(e),
           clusters' = clusters, perCluster' = perCluster, DirTypeOK',
           IF e.kind \in {"file", "dir"} THEN shown' = Append(shown, Line) ELSE shown' = shown
    PROVE  /\ Prints
           /\ \A k \in 1..Len(shown') : LineOK(shown[k], k - 1)'
           /\ e.kind \in {"file", "dir"} =>
                /\ Top.idx \in ShownPlaces' /\ Len(shown') = Len(shown) + 1
                /\ shown'[Len(shown) + 1] = Line
<1>1. Prints
  BY MayPrint
<1>2. Grows
  BY LooksAt
<1>3. Len(shown) \in Nat /\ Len(shown') \in Nat
  BY ShownRead DEF DirTypeOK
<1>4. ASSUME NEW k \in 1..Len(shown) PROVE LineOK(shown[k], k - 1)'
  <2>1. PICK l : l = shown[k]
    OBVIOUS
  <2>2. k - 1 \in 0..Len(shown) /\ LineOK(l, k - 1)
    BY <1>3, <2>1 DEF WalkOK
  <2>3. LineOK(l, k - 1)'
    BY <1>1, <1>2, <2>2, Stays
  <2>4. shown'[k] = l
    BY <1>1, <2>1 DEF Prints
  <2> QED
    BY <2>3, <2>4
<1>5. CASE e.kind \in {"file", "dir"}
  <2>1. Len(shown') = Len(shown) + 1 /\ shown'[Len(shown) + 1] = Line
    <3>1. PICK T : shown \in Seq(T)
      BY DEF WalkOK, DirTypeOK
    <3> QED
      BY <1>5, <3>1
  <2>2. PICK l, n : l = Line /\ n = Len(shown)
    OBVIOUS
  <2>3. LineOK(l, n)'
    BY <1>1, <1>5, <2>2, LineFits
  <2>4. shown'[n + 1] = l /\ (n + 1) - 1 = n
    BY <1>3, <2>1, <2>2
  <2>5. LineOK(shown[n + 1], (n + 1) - 1)'
    BY <2>3, <2>4
  <2>6. \A k \in 1..Len(shown') : LineOK(shown[k], k - 1)'
    <3>1. \A k \in 1..Len(shown') : k = n + 1 \/ k \in 1..Len(shown)
      BY <1>3, <2>1, <2>2
    <3> QED
      BY <1>4, <2>5, <3>1
  <2>7. Top.idx \in ShownPlaces'
    <3>1. l.place = Top.idx /\ n + 1 \in 1..Len(shown')
      BY <1>3, <2>1, <2>2 DEF Line
    <3> QED
      BY <2>4, <3>1 DEF ShownPlaces
  <2> QED
    BY <1>1, <2>1, <2>6, <2>7
<1>6. CASE e.kind \notin {"file", "dir"}
  BY <1>1, <1>4, <1>6
<1> QED
  BY <1>5, <1>6

\* A directory that is named afterwards was named before, or is named by the entry e.
LEMMA NamedSince ==
    ASSUME WalkOK, NEW e \in Entries(clusters), Looks(e),
           clusters' = clusters, perCluster' = perCluster, Prints,
           IF e.kind \in {"file", "dir"} THEN shown' = Append(shown, Line) ELSE shown' = shown,
           NEW c, \E depth : Named(c, depth, Len(shown))'
    PROVE  (\E depth : Named(c, depth, Len(shown))) \/ (e.kind = "dir" /\ e.cluster = c)
<1>1. Grows /\ image'[Top.idx] = e
  BY LooksAt
<1>2. PICK depth : Named(c, depth, Len(shown))'
  OBVIOUS
<1>3. CASE c = CLUST_FIRST /\ depth = 0
  BY <1>3 DEF Named
<1>4. CASE ~(c = CLUST_FIRST /\ depth = 0)
  <2>1. PICK j \in 1..Len(shown') : /\ image'[shown'[j].place].kind = "dir"
                                    /\ image'[shown'[j].place].cluster = c
                                    /\ depth = shown'[j].depth + 1
    BY <1>2, <1>4 DEF Named
  <2>2. CASE j \in 1..Len(shown)
    <3>1. shown'[j] = shown[j]
      BY <2>2 DEF Prints
    <3>2. PICK d \in Clusters : shown[j].place \in Seen(d)
      BY <2>2, ShownRead
    <3>3. image[shown[j].place].kind # "unread" /\ shown[j].place \in 1..(clusters * perCluster)
      <4>1. /\ ClusterAddr(d) \in Nat \ {0} /\ LastRead(ClusterAddr(d)) <= clusters * perCluster
            /\ LastRead(ClusterAddr(d)) \in Int /\ clusters * perCluster \in Nat
        BY Places DEF WalkOK
      <4>2. shown[j].place \in ClusterAddr(d)..LastRead(ClusterAddr(d))
        BY <3>2 DEF Seen, Place
      <4> QED
        BY <3>2, <4>1, <4>2 DEF Seen
    <3>4. image'[shown[j].place] = image[shown[j].place]
      BY <1>1, <3>3 DEF Grows
    <3> QED
      BY <2>1, <2>2, <3>1, <3>4 DEF Named
  <2>3. CASE j \notin 1..Len(shown)
    <3>1. PICK T : shown \in Seq(T)
      BY DEF WalkOK, DirTypeOK
    <3>2. shown' = Append(shown, Line)
      BY <2>1, <2>3
    <3>3. j = Len(shown) + 1 /\ shown'[j] = Line
      BY <2>1, <2>3, <3>1, <3>2
    <3>4. Line.place = Top.idx
      BY DEF Line
    <3> QED
      BY <1>1, <2>1, <3>3, <3>4
  <2> QED
    BY <2>2, <2>3
<1> QED
  BY <1>3, <1>4

\* The loop goes on in the same call.
LEMMA TurnStep ==
    ASSUME WalkOK, NEW e \in Entries(clusters), e.kind # "end", ~Descends(e), Looks(e),
           clusters' = clusters, perCluster' = perCluster, phase' = phase,
           IF e.kind \in {"file", "dir"} THEN shown' = Append(shown, Line) ELSE shown' = shown,
           NEW long \in Nat, stack' = Turn(long), long = 0 <=> e.kind # "long"
    PROVE  WalkOK'
<1>1. phase = "walk"
  BY DEF Looks
<1>2. PICK st : st = Turn(long)
  OBVIOUS
<1>3. /\ st \in Seq(Frames) /\ Len(st) = Depth /\ st # <<>> /\ stack' = st
      /\ \A i \in 1..Depth : i # Depth => st[i] = stack[i]
      /\ st[Depth] = [Top EXCEPT !.idx = @ + 1, !.long = long]
  BY <1>1, <1>2, TurnIs
<1>4. Depth \in Nat \ {0} /\ Depth = Len(stack) /\ Top = stack[Depth]
      /\ \A i \in 1..Depth : stack[i].idx \in Nat
  BY <1>1, TopOK DEF Top
<1>5. Prints /\ \E T : shown' \in Seq(T)
  BY MayPrint
<1>6. DirTypeOK'
  BY <1>1, <1>3, <1>5, LooksAt DEF WalkOK, DirTypeOK, Frames
<1>7. Grows
  BY LooksAt
<1>8. /\ \A k \in 1..Len(shown') : LineOK(shown[k], k - 1)'
      /\ e.kind \in {"file", "dir"} => Top.idx \in ShownPlaces'
  BY <1>6, LinesFit
<1>9. ASSUME NEW i \in 1..Len(stack') PROVE FrameOK(stack[i])'
  <2>1. i \in 1..Depth
    BY <1>3
  <2>2. PICK f : f = stack'[i]
    OBVIOUS
  <2>3. FrameOK(f)'
    <3>1. CASE i = Depth
      BY <1>3, <1>5, <1>6, <1>8, <2>2, <3>1, TurnedFrame
    <3>2. CASE i # Depth
      <4>1. f = stack[i] /\ FrameOK(f) /\ f.idx \in Nat
        BY <1>3, <1>4, <2>1, <2>2, <3>2 DEF WalkOK
      <4> QED
        BY <1>5, <1>6, <1>7, <4>1, Stays
    <3> QED
      BY <3>1, <3>2
  <2> QED
    BY <2>2, <2>3
<1>10. Complete'
  <2> SUFFICES ASSUME NEW c \in Clusters', \E depth : Named(c, depth, Len(shown))'
               PROVE  Finished(c)' \/ \E i \in 1..Len(stack') : stack'[i].addr = ClusterAddr(c)'
    BY DEF Complete
  <2>1. c \in Clusters /\ ClusterAddr(c)' = ClusterAddr(c)
    BY <1>6, <1>7, SeenStays DEF WalkOK
  <2>2. \E depth : Named(c, depth, Len(shown))
    <3>1. ~(e.kind = "dir" /\ e.cluster = c)
      BY <2>1 DEF Descends, Clusters, WalkOK, DirTypeOK, CLUST_FIRST
    <3> QED
      BY <1>5, <3>1, NamedSince
  <2>3. CASE Finished(c)
    BY <1>5, <1>6, <1>7, <2>1, <2>3, Stays
  <2>4. CASE ~Finished(c)
    <3>1. PICK i \in 1..Len(stack) : stack[i].addr = ClusterAddr(c)
      BY <1>1, <2>1, <2>2, <2>4 DEF WalkOK, Complete
    <3>2. i \in 1..Len(stack') /\ stack'[i].addr = stack[i].addr
      BY <1>1, <1>3, <1>4, <3>1, TopOK
    <3> QED
      BY <2>1, <3>1, <3>2
  <2> QED
    BY <2>3, <2>4
<1> QED
  BY <1>6, <1>8, <1>9, <1>10 DEF WalkOK

\* Multiples of one number are in the order of the factors.
LEMMA TimesMonotone ==
    ASSUME NEW a \in Nat, NEW b \in Nat, NEW m \in Nat, a <= b
    PROVE  a * m <= b * m
<1>1. PICK d \in Nat : b = a + d
  <2>1. b - a \in Nat /\ b = a + (b - a)
    OBVIOUS
  <2> QED
    BY <2>1
<1>2. (a + d) * m = a * m + d * m
  OBVIOUS
<1>3. a * m \in Nat /\ d * m \in Nat
  OBVIOUS
<1> QED
  BY <1>1, <1>2, <1>3

\* Clusters follow each other, and the last one is within the image.
LEMMA ClustersFollow ==
    ASSUME DirTypeOK, NEW c \in Clusters
    PROVE  /\ ClusterAddr(c + 1) = ClusterAddr(c) + perCluster
           /\ ClusterAddr(c + 1) <= clusters * perCluster + 1
           /\ \A d \in Clusters : c < d => ClusterAddr(c + 1) <= ClusterAddr(d)
           /\ LastRead(ClusterAddr(c)) >= ClusterAddr(c)
<1> DEFINE k == c - CLUST_FIRST
           m == perCluster
<1>1. k \in Nat /\ k + 1 <= clusters /\ m \in Nat \ {0} /\ clusters \in Nat
  BY DEF Clusters, CLUST_FIRST, DirTypeOK
<1>2. ClusterAddr(c) = k * m + 1
  BY DEF ClusterAddr
<1>3. ClusterAddr(c + 1) = (k + 1) * m + 1
  <2>1. (c + 1) - CLUST_FIRST = k + 1
    BY DEF Clusters, CLUST_FIRST, DirTypeOK
  <2> QED
    BY <2>1 DEF ClusterAddr
<1> HIDE DEF k, m
<1>4. (k + 1) * m = k * m + m /\ k * m \in Nat /\ (k + 1) * m \in Nat
  BY <1>1
<1>5. (k + 1) * m <= clusters * m
  BY <1>1, TimesMonotone
<1>6. ASSUME NEW d \in Clusters, c < d PROVE ClusterAddr(c + 1) <= ClusterAddr(d)
  <2> DEFINE j == d - CLUST_FIRST
  <2>1. j \in Nat /\ k + 1 <= j
    BY <1>6 DEF k, Clusters, CLUST_FIRST, DirTypeOK
  <2>2. ClusterAddr(d) = j * m + 1
    BY DEF ClusterAddr, m
  <2> HIDE DEF j
  <2>3. (k + 1) * m <= j * m
    BY <1>1, <2>1, TimesMonotone
  <2>4. j * m \in Nat
    BY <1>1, <2>1
  <2> QED
    BY <1>3, <1>4, <2>2, <2>3, <2>4
<1>7. LastRead(ClusterAddr(c)) >= ClusterAddr(c)
  <2>2. ASSUME NEW a \in Int, NEW x \in Int, NEW y \in Int, a <= x, a <= y
        PROVE  a <= Min({x, y})
    BY <2>2 DEF Min
  <2>3. PICK a : a = ClusterAddr(c)
    OBVIOUS
  <2>4. a \in Nat /\ Len(image) = clusters * m /\ clusters * m \in Nat
    BY <2>3, Places DEF m
  <2>5. a <= clusters * m
    BY <1>1, <1>2, <1>4, <1>5, <2>3, <2>4
  <2>6. a + BufEntries - 1 \in Int /\ a <= a + BufEntries - 1
    BY <2>4, FatAssumption
  <2>7. LastRead(a) = Min({a + BufEntries - 1, clusters * m})
    BY <2>4 DEF LastRead
  <2>8. a <= Min({a + BufEntries - 1, clusters * m})
    BY <2>2, <2>4, <2>5, <2>6
  <2>9. LastRead(a) \in Int
    BY <2>4, Places
  <2> QED
    BY <2>3, <2>4, <2>7, <2>8
<1>8. clusters * m \in Nat
  BY <1>1
<1>9. ClusterAddr(c + 1) <= clusters * m + 1
  BY <1>3, <1>4, <1>5, <1>8
<1>10. ClusterAddr(c + 1) = ClusterAddr(c) + m
  BY <1>1, <1>2, <1>3, <1>4
<1>11. m = perCluster
  BY DEF m
<1> QED
  BY <1>6, <1>7, <1>9, <1>10, <1>11

\* The call returns.
LEMMA ReturnStep ==
    ASSUME WalkOK, DirReturn PROVE WalkOK'
<1>1. /\ phase = "walk" /\ phase' \in {"walk", "done"}
      /\ IF InBuffer THEN Looks(End) ELSE image' = image
      /\ stack' = SubSeq(stack, 1, Depth - 1)
      /\ phase' = IF Depth = 1 THEN "done" ELSE "walk"
      /\ clusters' = clusters /\ perCluster' = perCluster /\ shown' = shown
  BY DEF DirReturn
<1>2. /\ Depth \in Nat \ {0} /\ Depth = Len(stack) /\ Top = stack[Depth]
      /\ \A i \in 1..Depth : stack[i] \in Frames
  BY <1>1, TopOK DEF Top, Frames
<1>3. stack' \in Seq(Frames) /\ Len(stack') = Depth - 1 /\ \A i \in 1..(Depth - 1) : stack'[i] = stack[i]
  BY <1>1, <1>2
<1>4. End \in Entries(clusters)
  BY DEF Entries
<1>5. /\ Grows
      /\ image' \in [1..(clusters' * perCluster') -> Entries(clusters') \cup {Unread}]
  <2>1. CASE InBuffer
    BY <1>1, <1>4, <2>1, LooksAt
  <2>2. CASE ~InBuffer
    BY <1>1, <2>2 DEF Grows, WalkOK, DirTypeOK
  <2> QED
    BY <2>1, <2>2
<1>6. Prints /\ \E T : shown' \in Seq(T)
  BY <1>1, MayPrint
<1>7. DirTypeOK'
  <2>1. phase' = "walk" => stack' # <<>>
    <3>1. ASSUME phase' = "walk", stack' = <<>> PROVE FALSE
      <4>1. Len(<<>>) = 0
        OBVIOUS
      <4>2. Len(stack') = 0
        BY <3>1, <4>1, Zenon
      <4> QED
        BY <1>1, <1>2, <1>3, <3>1, <4>2
    <3> QED
      BY <3>1
  <2>2. phase' = "done" => stack' = <<>>
    BY <1>1, <1>2, <1>3
  <2> QED
    BY <1>1, <1>3, <1>5, <1>6, <2>1, <2>2 DEF WalkOK, DirTypeOK, Frames
<1>8. ASSUME NEW i \in 1..Len(stack') PROVE FrameOK(stack[i])'
  <2>1. PICK f : f = stack'[i]
    OBVIOUS
  <2>2. f = stack[i] /\ i \in 1..Len(stack) /\ f.idx \in Nat
    <3>1. i \in 1..(Depth - 1) /\ i \in 1..Len(stack) /\ i \in 1..Depth
      BY <1>2, <1>3
    <3>2. f = stack[i]
      BY <1>3, <2>1, <3>1
    <3>3. stack[i] \in Frames
      BY <1>2, <3>1
    <3> QED
      BY <3>1, <3>2, <3>3 DEF Frames
  <2>3. FrameOK(f)'
    BY <1>5, <1>6, <1>7, <2>2, Stays DEF WalkOK
  <2> QED
    BY <2>1, <2>3
<1>9. ASSUME NEW k \in 1..Len(shown') PROVE LineOK(shown[k], k - 1)'
  <2>1. PICK l : l = shown'[k]
    OBVIOUS
  <2>2. l = shown[k] /\ k - 1 \in 0..Len(shown) /\ k \in 1..Len(shown)
    BY <1>1, <2>1, ShownRead
  <2>3. LineOK(l, k - 1)'
    BY <1>5, <1>6, <1>7, <2>2, Stays DEF WalkOK
  <2> QED
    BY <2>1, <2>3
<1>10. Complete'
  <2> SUFFICES ASSUME NEW c \in Clusters', \E depth : Named(c, depth, Len(shown))'
               PROVE  Finished(c)' \/ \E i \in 1..Len(stack') : stack'[i].addr = ClusterAddr(c)'
    BY DEF Complete
  <2>1. /\ c \in Clusters /\ ClusterAddr(c)' = ClusterAddr(c)
        /\ \A p : LastRead(p)' = LastRead(p)
    BY <1>5, <1>7, SeenStays DEF WalkOK
  <2>2. \E depth : Named(c, depth, Len(shown))
    <3>1. CASE InBuffer
      <4>1. End.kind = "end" /\ End.kind \notin {"file", "dir"}
        BY DEF End
      <4> QED
        BY <1>1, <1>4, <1>6, <3>1, <4>1, NamedSince
    <3>2. CASE ~InBuffer
      BY <1>1, <3>2 DEF Named
    <3> QED
      BY <3>1, <3>2
  <2>3. CASE Finished(c)
    BY <1>5, <1>6, <1>7, <2>1, <2>3, Stays
  <2>4. CASE ~Finished(c)
    <3>1. PICK i \in 1..Len(stack) : stack[i].addr = ClusterAddr(c)
      BY <1>1, <2>1, <2>2, <2>4 DEF WalkOK, Complete
    <3>2. CASE i # Depth
      <4>1. i \in 1..Len(stack') /\ stack'[i] = stack[i]
        BY <1>2, <1>3, <3>2
      <4> QED
        BY <2>1, <3>1, <4>1
    <3>3. CASE i = Depth
      <4>1. PICK g : g = Top
        OBVIOUS
      <4>2. FrameOK(g) /\ g \in Frames
        BY <1>1, <4>1, TopOK DEF Frames
      <4>3. FrameOK(g)'
        BY <1>5, <1>6, <1>7, <4>2, Stays DEF Frames
      <4>4. g.addr = ClusterAddr(c)'
        BY <1>2, <2>1, <3>1, <3>3, <4>1
      <4>5. g.idx <= LastRead(g.addr)' => image'[g.idx].kind = "end"
        <5>1. g.idx <= LastRead(g.addr)' => InBuffer
          BY <2>1, <4>1 DEF InBuffer
        <5>2. InBuffer => image'[g.idx] = End
          BY <1>1, <1>4, <4>1, LooksAt
        <5> QED
          BY <5>1, <5>2 DEF End
      <4>6. Finished(c)'
        <5>1. g.idx \in g.addr..(LastRead(g.addr)' + 1)
          BY <4>3 DEF FrameOK
        <5>2. \A p \in g.addr..(g.idx - 1) :
                /\ image'[p].kind \notin {"unread", "end"}
                /\ image'[p].kind \in {"file", "dir"} => p \in ShownPlaces'
          BY <4>3 DEF FrameOK
        <5> QED
          BY <4>4, <4>5, <5>1, <5>2 DEF Finished
      <4> QED
        BY <4>6
    <3> QED
      BY <3>2, <3>3
  <2> QED
    BY <2>3, <2>4
<1> QED
  BY <1>7, <1>8, <1>9, <1>10 DEF WalkOK

\* A directory entry that is gone into names a cluster of the image.
LEMMA Descent ==
    ASSUME DirTypeOK, NEW e \in Entries(clusters), Descends(e)
    PROVE  e.kind = "dir" /\ e.cluster \in Clusters
<1>1. clusters \in Nat \ {0} /\ e.kind = "dir" /\ e.cluster < CLUST_FIRST + clusters
  BY DEF DirTypeOK, Descends
<1>2. e.cluster \in CLUST_FIRST..(CLUST_FIRST + clusters)
  BY <1>1, Kinds
<1> QED
  BY <1>1, <1>2 DEF Clusters, CLUST_FIRST

\* A directory entry that names a cluster of the image: what is the same whether its call
\* is made or not.
LEMMA DirectoryShown ==
    ASSUME WalkOK, NEW e \in Entries(clusters), Descends(e), Looks(e),
           clusters' = clusters, perCluster' = perCluster, DirTypeOK',
           shown' = Append(shown, Line)
    PROVE  /\ e.kind = "dir" /\ Grows /\ Prints /\ Top.idx \in ShownPlaces'
           /\ \A k \in 1..Len(shown') : LineOK(shown[k], k - 1)'
           /\ e.cluster \in Clusters /\ e.cluster \in SeenReached'
           /\ \A d : d = Top.depth + 1 => Named(e.cluster, d, Len(shown))'
<1>1. e.kind = "dir" /\ e.cluster \in Clusters
  BY Descent DEF WalkOK
<1>2. Grows /\ image'[Top.idx] = e
  BY LooksAt
<1>0. (\A c \in SeenReached : SeenChildren(c) \subseteq SeenReached)'
  BY ReachedOn, PTL
<1>3. /\ Prints /\ \A k \in 1..Len(shown') : LineOK(shown[k], k - 1)'
      /\ Top.idx \in ShownPlaces' /\ Len(shown') = Len(shown) + 1
      /\ shown'[Len(shown) + 1] = Line
  BY <1>1, LinesFit
<1>4. PICK c \in SeenReached : Top.idx \in Seen(c)'
  BY <1>1, <1>3, EntrySeen
<1>5. Clusters' = Clusters /\ c \in SeenReached'
  BY <1>2, <1>4, SeenStays DEF WalkOK
<1>6. e.cluster \in SeenChildren(c)'
  BY <1>1, <1>2, <1>4, <1>5 DEF SeenChildren
<1>7. e.cluster \in SeenReached'
  BY <1>0, <1>5, <1>6
<1>8. ASSUME NEW d, d = Top.depth + 1 PROVE Named(e.cluster, d, Len(shown))'
  <2>1. Len(shown) + 1 \in 1..Len(shown')
    BY <1>3, ShownRead
  <2>2. Line.place = Top.idx /\ Line.depth = Top.depth
    BY DEF Line
  <2> QED
    BY <1>1, <1>2, <1>3, <1>8, <2>1, <2>2 DEF Named
<1> QED
  BY <1>1, <1>2, <1>3, <1>7, <1>8

\* There is something to read of a cluster.
LEMMA Buffers ==
    ASSUME DirTypeOK
    PROVE  /\ \A c \in Clusters : LastRead(ClusterAddr(c)) >= ClusterAddr(c)
           /\ \A p \in Nat : LastRead(p) \in Int
  BY ClustersFollow, Places

\* A subdirectory is gone into.
LEMMA DescendStep ==
    ASSUME WalkOK, NEW e \in Entries(clusters), Descends(e), Looks(e),
           clusters' = clusters, perCluster' = perCluster, phase' = phase,
           shown' = Append(shown, Line),
           stack' = Append(AfterEntry, Frame(e.cluster, CallDepth(Top.depth)))
    PROVE  WalkOK'
<1>1. phase = "walk"
  BY DEF Looks
<1>2. PICK st, h : st = Turn(0) /\ st = AfterEntry /\ h = Frame(e.cluster, CallDepth(Top.depth))
  BY DEF AfterEntry
<1>3. /\ st \in Seq(Frames) /\ Len(st) = Depth
      /\ \A i \in 1..Depth : i # Depth => st[i] = stack[i]
      /\ st[Depth] = [Top EXCEPT !.idx = @ + 1, !.long = 0]
  BY <1>1, <1>2, TurnIs
<1>4. /\ Depth \in Nat \ {0} /\ Depth = Len(stack) /\ Top = stack[Depth] /\ Top \in Frames
      /\ \A i \in 1..Depth : stack[i] \in Frames
  BY <1>1, TopOK DEF Top, Frames
<1>5. e.cluster \in Clusters /\ ClusterAddr(e.cluster) \in Nat \ {0}
  BY Descent, Places DEF WalkOK
<1>6. /\ h \in Frames /\ h.addr = ClusterAddr(e.cluster) /\ h.idx = h.addr
      /\ h.depth = Top.depth + 1 /\ h.long = 0
  BY <1>2, <1>4, <1>5 DEF Frame, Frames, CallDepth
<1>7. /\ stack' \in Seq(Frames) /\ Len(stack') = Depth + 1 /\ stack'[Depth + 1] = h
      /\ \A i \in 1..Depth : stack'[i] = st[i]
  BY <1>2, <1>3, <1>4, <1>6
<1>8. Prints /\ \E T : shown' \in Seq(T)
  BY MayPrint
<1>9. DirTypeOK'
  <2>1. stack' # <<>>
    <3>1. ASSUME stack' = <<>> PROVE FALSE
      <4>1. Len(<<>>) = 0
        OBVIOUS
      <4>2. Len(stack') = 0
        BY <3>1, <4>1, Zenon
      <4> QED
        BY <1>4, <1>7, <4>2
    <3> QED
      BY <3>1
  <2> QED
    BY <1>1, <1>7, <1>8, <2>1, LooksAt DEF WalkOK, DirTypeOK, Frames
<1>10. /\ e.kind = "dir" /\ Grows /\ Top.idx \in ShownPlaces'
       /\ \A k \in 1..Len(shown') : LineOK(shown[k], k - 1)'
       /\ e.cluster \in SeenReached'
       /\ \A d : d = Top.depth + 1 => Named(e.cluster, d, Len(shown))'
  BY <1>9, DirectoryShown
<1>11. (\A c : ClusterAddr(c)' = ClusterAddr(c)) /\ Clusters' = Clusters
  BY <1>9, <1>10, SeenStays DEF WalkOK
<1>12. ASSUME NEW i \in 1..Len(stack') PROVE FrameOK(stack[i])'
  <2>1. PICK f : f = stack'[i]
    OBVIOUS
  <2>2. FrameOK(f)'
    <3>1. CASE i = Depth + 1
      <4>1. f = h
        BY <1>7, <2>1, <3>1
      <4>2. f.addr = ClusterAddr(e.cluster)' /\ Named(e.cluster, f.depth, Len(shown))'
        BY <1>6, <1>10, <1>11, <4>1
      <4>3. (\A c \in Clusters : LastRead(ClusterAddr(c)) >= ClusterAddr(c))'
        BY <1>9, Buffers, PTL
      <4>4. LastRead(f.addr)' >= f.addr
        BY <1>5, <1>11, <4>2, <4>3
      <4>5. (\A p \in Nat : LastRead(p) \in Int)'
        BY <1>9, Buffers, PTL
      <4>6. LastRead(f.addr)' \in Int /\ f.addr \in Nat /\ f.idx = f.addr /\ f.long = 0
        BY <1>6, <4>1, <4>5 DEF Frames
      <4>7. f.idx \in f.addr..(LastRead(f.addr)' + 1) /\ f.addr..(f.idx - 1) = {}
        BY <4>4, <4>6
      <4> QED
        BY <1>10, <4>2, <4>6, <4>7 DEF FrameOK
    <3>2. CASE i = Depth
      <4>1. f = [Top EXCEPT !.idx = @ + 1, !.long = 0]
        BY <1>3, <1>4, <1>7, <2>1, <3>2
      <4> QED
        BY <1>8, <1>9, <1>10, <4>1, TurnedFrame
    <3>3. CASE i # Depth /\ i # Depth + 1
      <4>1. i \in 1..Depth /\ f = stack[i]
        BY <1>3, <1>4, <1>7, <2>1, <3>3
      <4>2. FrameOK(f) /\ f.idx \in Nat
        BY <1>4, <4>1 DEF WalkOK, Frames
      <4> QED
        BY <1>8, <1>9, <1>10, <4>2, Stays
    <3> QED
      BY <3>1, <3>2, <3>3
  <2> QED
    BY <2>1, <2>2
<1>13. Complete'
  <2> SUFFICES ASSUME NEW c \in Clusters', \E depth : Named(c, depth, Len(shown))'
               PROVE  Finished(c)' \/ \E i \in 1..Len(stack') : stack'[i].addr = ClusterAddr(c)'
    BY DEF Complete
  <2>1. c \in Clusters /\ ClusterAddr(c)' = ClusterAddr(c)
    BY <1>11
  <2>2. CASE e.cluster = c
    <3>1. Depth + 1 \in 1..Len(stack') /\ stack'[Depth + 1].addr = ClusterAddr(c)
      BY <1>4, <1>6, <1>7, <2>2
    <3> QED
      BY <2>1, <3>1
  <2>3. CASE e.cluster # c
    <3>1. \E depth : Named(c, depth, Len(shown))
      BY <1>8, <1>10, <2>3, NamedSince
    <3>2. CASE Finished(c)
      BY <1>8, <1>9, <1>10, <2>1, <3>2, Stays
    <3>3. CASE ~Finished(c)
      <4>1. PICK i \in 1..Len(stack) : stack[i].addr = ClusterAddr(c)
        BY <1>1, <2>1, <3>1, <3>3 DEF WalkOK, Complete
      <4>2. i \in 1..Depth /\ i \in 1..Len(stack') /\ stack'[i] = st[i]
        BY <1>4, <1>7
      <4>3. st[i].addr = stack[i].addr
        <5>1. CASE i = Depth
          BY <1>3, <1>4, <5>1 DEF Frames
        <5>2. CASE i # Depth
          BY <1>3, <4>2, <5>2
        <5> QED
          BY <5>1, <5>2
      <4> QED
        BY <2>1, <4>1, <4>2, <4>3
    <3> QED
      BY <3>2, <3>3
  <2> QED
    BY <2>2, <2>3
<1> QED
  BY <1>9, <1>10, <1>12, <1>13 DEF WalkOK

\* Lua's stack is full.
LEMMA OverflowStep ==
    ASSUME WalkOK, NEW e \in Entries(clusters), Descends(e), Looks(e),
           clusters' = clusters, perCluster' = perCluster, phase' = "overflow",
           shown' = Append(shown, Line), stack' = stack
    PROVE  WalkOK'
<1>1. Prints /\ \E T : shown' \in Seq(T)
  BY MayPrint
<1>2. DirTypeOK'
  BY <1>1, LooksAt DEF WalkOK, DirTypeOK
<1>3. Grows /\ \A k \in 1..Len(shown') : LineOK(shown[k], k - 1)'
  BY <1>2, DirectoryShown
<1>4. ASSUME NEW i \in 1..Len(stack') PROVE FrameOK(stack[i])'
  <2>1. PICK f : f = stack'[i]
    OBVIOUS
  <2>2. FrameOK(f) /\ f.idx \in Nat
    <3>1. stack \in Seq(Frames)
      BY DEF WalkOK, DirTypeOK, Frames
    <3>2. stack[i] \in Frames
      BY <3>1
    <3> QED
      BY <2>1, <3>2 DEF WalkOK, Frames
  <2>3. FrameOK(f)'
    BY <1>1, <1>2, <1>3, <2>2, Stays
  <2> QED
    BY <2>1, <2>3
<1>5. Complete'
  BY DEF Complete
<1> QED
  BY <1>2, <1>3, <1>4, <1>5 DEF WalkOK

\* Each step of the walk.
LEMMA WalkStep ==
    ASSUME WalkOK, DirNext PROVE WalkOK'
<1>1. CASE DirReturn
  BY <1>1, ReturnStep
<1>2. ASSUME NEW e \in Entries(clusters), LongEntry(e) PROVE WalkOK'
  <2>1. e.kind \notin {"end", "file", "dir"} /\ ~Descends(e)
    BY <1>2 DEF LongEntry, Descends
  <2>2. Top.long + 1 \in Nat /\ Top.long + 1 # 0 /\ e.kind = "long"
    BY <1>2, TopOK DEF LongEntry, Looks
  <2> QED
    BY <1>2, <2>1, <2>2, TurnStep DEF LongEntry
<1>3. ASSUME NEW e \in Entries(clusters), PlainEntry(e) PROVE WalkOK'
  <2>1. IF e.kind \in {"file", "dir"} THEN shown' = Append(shown, Line) ELSE shown' = shown
    BY <1>3, Kinds DEF PlainEntry, Show, WalkOK, DirTypeOK
  <2> QED
    BY <1>3, <2>1, TurnStep DEF PlainEntry, AfterEntry
<1>4. ASSUME NEW e \in Entries(clusters), SubDirectory(e) PROVE WalkOK'
  <2>1. shown' = Append(shown, Line)
    BY <1>4 DEF SubDirectory, Show, Descends
  <2> QED
    BY <1>4, <2>1, DescendStep, OverflowStep DEF SubDirectory
<1> QED
  BY <1>1, <1>2, <1>3, <1>4 DEF DirNext

\* The walk begins at the root.
LEMMA WalkStarts ==
    ASSUME DirInit PROVE WalkOK
<1>1. clusters \in Nat \ {0} /\ perCluster \in Nat \ {0}
  BY FatAssumption DEF DirInit
<1>2. /\ image = [p \in 1..(clusters * perCluster) |-> Unread] /\ phase = "walk" /\ shown = <<>>
      /\ stack = <<[addr |-> 1, idx |-> 1, long |-> 0, depth |-> 0]>>
  BY DEF DirInit
<1>3. DirTypeOK
  <2>1. image \in [1..(clusters * perCluster) -> Entries(clusters) \cup {Unread}]
    BY <1>2
  <2>2. stack \in Seq([addr : Nat, idx : Nat, long : Nat, depth : Nat]) /\ stack # <<>>
    BY <1>2
  <2>3. shown \in Seq({})
    BY <1>2
  <2> QED
    BY <1>1, <1>2, <2>1, <2>2, <2>3 DEF DirTypeOK
<1>4. Len(stack) = 1 /\ stack[1] = [addr |-> 1, idx |-> 1, long |-> 0, depth |-> 0] /\ Len(shown) = 0
  BY <1>2
<1>5. FrameOK(stack[1])
  <2>1. CLUST_FIRST \in SeenReached /\ ClusterAddr(CLUST_FIRST) = 1
    BY <1>3, ReachedOn, Places
  <2>2. LastRead(1) >= 1 /\ LastRead(1) \in Int
    BY <1>3, <2>1, Places, ClustersFollow
  <2>3. Named(CLUST_FIRST, 0, Len(shown))
    BY DEF Named
  <2>4. 1 \in 1..(LastRead(1) + 1) /\ 1..(1 - 1) = {}
    BY <2>2
  <2> QED
    BY <1>4, <2>1, <2>3, <2>4 DEF FrameOK
<1>6. \A k \in 1..Len(shown) : LineOK(shown[k], k - 1)
  BY <1>4
<1>7. Complete
  <2> SUFFICES ASSUME NEW c \in Clusters, \E depth : Named(c, depth, Len(shown))
               PROVE  \E i \in 1..Len(stack) : stack[i].addr = ClusterAddr(c)
    BY DEF Complete
  <2>1. c = CLUST_FIRST
    BY <1>4 DEF Named
  <2>2. ClusterAddr(c) = 1
    BY <1>3, <2>1, Places
  <2> QED
    BY <1>4, <2>2
<1> QED
  BY <1>3, <1>4, <1>5, <1>6, <1>7 DEF WalkOK

\* A line has the whole long name before its entry, or its own name.
LEMMA WalkNames ==
    ASSUME WalkOK PROVE NamesOwnRun
<1> SUFFICES ASSUME NEW k \in 1..Len(shown), NEW p, p = shown[k].place
             PROVE  /\ \A r \in 1..(p - 1) :
                         WholeName(r, p) /\ (\A c \in Reached : p \in Listed(c) => r \in Listed(c))
                           => shown[k].name = r
                    /\ (\A c \in Reached : p \in Listed(c) /\ p - 1 \in Listed(c)
                                            => image[p - 1].kind # "long")
                         => shown[k].name = p
  BY DEF NamesOwnRun, WholeName
<1>1. PICK c \in SeenReached :
        /\ p \in Seen(c)
        /\ \A r \in ClusterAddr(c)..(p - 1) : WholeName(r, p) => shown[k].name = r
        /\ p = ClusterAddr(c) \/ image[p - 1].kind # "long" => shown[k].name = p
  BY DEF WalkOK, LineOK
<1>2. c \in Reached /\ p \in Listed(c)
  BY <1>1, SeenIsListed DEF WalkOK
<1>3. /\ ClusterAddr(c) \in Nat /\ LastRead(ClusterAddr(c)) \in Int
      /\ p \in ClusterAddr(c)..LastRead(ClusterAddr(c))
  BY <1>1, ReachedOn, Places DEF WalkOK, Seen, Place
<1>4. ASSUME NEW r \in 1..(p - 1), WholeName(r, p), r \in Listed(c) PROVE shown[k].name = r
  <2>1. r \in ClusterAddr(c)..(p - 1)
    BY <1>3, <1>4 DEF Listed, Place
  <2> QED
    BY <1>1, <1>4, <2>1
<1>5. p # ClusterAddr(c) => p - 1 \in Listed(c)
  BY <1>2, <1>3 DEF Listed, Place
<1> QED
  BY <1>1, <1>2, <1>4, <1>5

\* A step of the shell is a step of the walk, or leaves it as it is.
LEMMA ShellStep ==
    ASSUME WalkOK, [FNext]_<<dirVars, shellVars>> PROVE WalkOK'
<1>1. CASE ReadDir
  BY <1>1, WalkStep DEF ReadDir
<1>2. CASE UNCHANGED dirVars
  <2>1. /\ clusters' = clusters /\ perCluster' = perCluster /\ image' = image
        /\ stack' = stack /\ shown' = shown /\ phase' = phase
    BY <1>2 DEF dirVars
  <2>2. Grows /\ Prints
    BY <2>1 DEF Grows, Prints, WalkOK, DirTypeOK
  <2>3. DirTypeOK'
    BY <2>1 DEF WalkOK, DirTypeOK
  <2>4. ASSUME NEW i \in 1..Len(stack') PROVE FrameOK(stack[i])'
    <3>1. PICK f : f = stack[i]
      OBVIOUS
    <3>2. f \in Frames /\ FrameOK(f)
      <4>1. stack \in Seq(Frames)
        BY DEF WalkOK, DirTypeOK, Frames
      <4>2. i \in 1..Len(stack)
        BY <2>1
      <4> QED
        BY <3>1, <4>1, <4>2 DEF WalkOK
    <3>3. FrameOK(f)'
      BY <2>2, <2>3, <3>2, Stays DEF Frames
    <3> QED
      BY <2>1, <3>1, <3>3
  <2>5. ASSUME NEW k \in 1..Len(shown') PROVE LineOK(shown[k], k - 1)'
    <3>1. PICK l : l = shown[k]
      OBVIOUS
    <3>2. LineOK(l, k - 1) /\ k - 1 \in 0..Len(shown)
      BY <2>1, <3>1, ShownRead DEF WalkOK
    <3>3. LineOK(l, k - 1)'
      BY <2>2, <2>3, <3>2, Stays
    <3> QED
      BY <2>1, <3>1, <3>3
  <2>6. Complete'
    <3>1. \A c, depth : Named(c, depth, Len(shown))' => Named(c, depth, Len(shown))
      BY <2>1 DEF Named
    <3>2. Clusters' = Clusters /\ \A c : ClusterAddr(c)' = ClusterAddr(c)
      BY <2>1 DEF Clusters, ClusterAddr
    <3>3. \A c \in Clusters : Finished(c) => Finished(c)'
      BY <2>2, <2>3, Stays
    <3> SUFFICES ASSUME phase' # "overflow", NEW c \in Clusters', \E depth : Named(c, depth, Len(shown))'
                 PROVE  Finished(c)' \/ \E i \in 1..Len(stack') : stack'[i].addr = ClusterAddr(c)'
      BY DEF Complete
    <3>4. c \in Clusters /\ \E depth : Named(c, depth, Len(shown))
      BY <3>1, <3>2
    <3>5. Finished(c) \/ \E i \in 1..Len(stack) : stack[i].addr = ClusterAddr(c)
      BY <2>1, <3>4 DEF WalkOK, Complete
    <3> QED
      BY <2>1, <3>2, <3>3, <3>4, <3>5
  <2> QED
    BY <2>3, <2>4, <2>5, <2>6 DEF WalkOK
<1> QED
  BY <1>1, <1>2 DEF FNext, ReadBoot, ReadFat, PrintFat

\* Lines, calls and what has been read agree through the whole walk.
THEOREM WalkInvariance == FSpec => []WalkOK
<1>1. FInit => WalkOK
  BY WalkStarts DEF FInit
<1>2. WalkOK /\ [FNext]_<<dirVars, shellVars>> => WalkOK'
  BY ShellStep
<1> QED
  BY <1>1, <1>2, PTL DEF FSpec

\* fat-shell prints an entry with the whole long name before it.
THEOREM NamesTaken == FSpec => []NamesOwnRun
  BY WalkInvariance, WalkNames, PTL

-----------------------------------------------------------------------------
(* The walk over a sound image                                             *)

\* What has been seen of the image already shows that it is not sound.
Tainted ==
    \/ \E c \in SeenReached : \E p \in Seen(c) : p >= ClusterAddr(c + 1)
    \/ \E c, d \in SeenReached : \E p \in Seen(c), q \in Seen(d) :
         /\ p # q /\ image[p].kind = "dir" /\ image[q].kind = "dir"
         /\ image[p].cluster = image[q].cluster
    \/ \E c \in SeenReached : \E p \in Seen(c) :
         image[p].kind = "dir" /\ image[p].cluster = CLUST_FIRST

\* No line twice, no two calls at one directory, and of the cluster a call is at, only
\* what is before its next entry has been shown.
Once ==
    phase # "overflow" =>
        /\ \A j, k \in 1..Len(shown) : shown[j].place = shown[k].place => j = k
        /\ \A i, j \in 1..Len(stack) : stack[i].addr = stack[j].addr => i = j
        /\ \A i \in 1..Len(stack), k \in 1..Len(shown) :
             shown[k].place \in stack[i].addr..(stack[i].addr + perCluster - 1) =>
                 shown[k].place < stack[i].idx

\* A place is in one cluster.
LEMMA Apart ==
    ASSUME DirTypeOK, NEW c \in Clusters, NEW d \in Clusters, NEW p \in Int,
           p >= ClusterAddr(c), p < ClusterAddr(c + 1), p >= ClusterAddr(d), p < ClusterAddr(d + 1)
    PROVE  c = d
<1>1. c \in Int /\ d \in Int
  BY DEF Clusters, DirTypeOK, CLUST_FIRST
<1>2. /\ ClusterAddr(c) \in Int /\ ClusterAddr(d) \in Int
      /\ ClusterAddr(c + 1) \in Int /\ ClusterAddr(d + 1) \in Int
  <2>1. \A x \in Clusters : ClusterAddr(x) \in Nat /\ ClusterAddr(x + 1) = ClusterAddr(x) + perCluster
    BY Places, ClustersFollow
  <2>2. perCluster \in Nat
    BY DEF DirTypeOK
  <2> QED
    BY <2>1, <2>2
<1>3. CASE c < d
  BY <1>2, <1>3, ClustersFollow
<1>4. CASE d < c
  BY <1>2, <1>4, ClustersFollow
<1> QED
  BY <1>1, <1>3, <1>4

\* Clusters begin at different places.
LEMMA Begins ==
    ASSUME DirTypeOK, NEW c \in Clusters, NEW d \in Clusters, ClusterAddr(c) = ClusterAddr(d)
    PROVE  c = d
<1>1. ClusterAddr(c) \in Int
  BY Places
<1>2. /\ ClusterAddr(c + 1) = ClusterAddr(c) + perCluster
      /\ ClusterAddr(d + 1) = ClusterAddr(d) + perCluster /\ perCluster \in Nat \ {0}
  BY ClustersFollow DEF DirTypeOK
<1>3. ClusterAddr(c) < ClusterAddr(c + 1) /\ ClusterAddr(c) < ClusterAddr(d + 1)
  BY <1>1, <1>2
<1>4. ClusterAddr(c) >= ClusterAddr(c) /\ ClusterAddr(c) >= ClusterAddr(d)
  BY <1>1
<1> QED
  BY <1>1, <1>3, <1>4, Apart

\* In a sound image a directory is within its cluster.
LEMMA Within ==
    ASSUME DirTypeOK, Sound, NEW c \in Reached, NEW p \in Listed(c)
    PROVE  p \in Int /\ p >= ClusterAddr(c) /\ p < ClusterAddr(c + 1)
<1>1. c \in Clusters
  BY DEF Reached, ReachedFrom
<1>2. /\ ClusterAddr(c) \in Nat /\ LastRead(ClusterAddr(c)) \in Int
      /\ ClusterAddr(c + 1) \in Int
  <2>1. ClusterAddr(c) \in Nat /\ LastRead(ClusterAddr(c)) \in Int
    BY <1>1, Places
  <2>2. ClusterAddr(c + 1) = ClusterAddr(c) + perCluster /\ perCluster \in Nat
    BY <1>1, ClustersFollow DEF DirTypeOK
  <2> QED
    BY <2>1, <2>2
<1>3. p \in ClusterAddr(c)..LastRead(ClusterAddr(c)) /\ \A q \in ClusterAddr(c)..p : image[q].kind # "end"
  BY DEF Listed, Place
<1>4. Ended(c)
  BY DEF Sound
<1>5. CASE LastRead(ClusterAddr(c)) = ClusterAddr(c + 1) - 1
  BY <1>2, <1>3, <1>5
<1>6. ASSUME NEW e \in Place(c), e < ClusterAddr(c + 1), image[e].kind = "end"
      PROVE  p < ClusterAddr(c + 1)
  BY <1>2, <1>3, <1>6 DEF Place
<1> QED
  BY <1>2, <1>3, <1>4, <1>5, <1>6 DEF Ended

\* An image that is seen not to be sound is not.
LEMMA TaintedUnsound ==
    ASSUME DirTypeOK, Sound PROVE ~Tainted
<1>1. SeenReached \subseteq Reached /\ \A c : Seen(c) \subseteq Listed(c)
  BY SeenIsListed
<1>2. ASSUME NEW c \in SeenReached, NEW p \in Seen(c) PROVE ~(p >= ClusterAddr(c + 1))
  <2>1. p \in Int /\ p < ClusterAddr(c + 1) /\ c \in Clusters
    BY <1>1, Within DEF SeenReached
  <2>2. ClusterAddr(c + 1) \in Int
    BY <2>1, ClustersFollow, Places DEF DirTypeOK
  <2> QED
    BY <2>1, <2>2
<1>3. \A c \in SeenReached : \A p \in Seen(c) : image[p].kind = "dir" => p \in DirPlaces
  BY <1>1 DEF DirPlaces
<1> QED
  BY <1>2, <1>3 DEF Sound, Tainted

\* What has been seen is not seen otherwise later.
LEMMA TaintedStays ==
    ASSUME DirTypeOK, DirTypeOK', Grows, Tainted PROVE Tainted'
<1>1. /\ \A c : ClusterAddr(c)' = ClusterAddr(c)
      /\ \A c \in Clusters : Seen(c) \subseteq Seen(c)' /\ \A p \in Seen(c) : image'[p] = image[p]
      /\ SeenReached \subseteq SeenReached' /\ SeenReached \subseteq Clusters
  BY SeenStays, ReachedOn
<1>2. CASE \E c \in SeenReached : \E p \in Seen(c) : p >= ClusterAddr(c + 1)
  <2>1. PICK c \in SeenReached : \E p \in Seen(c) : p >= ClusterAddr(c + 1)
    BY <1>2
  <2>2. c \in SeenReached' /\ \E p \in Seen(c)' : p >= ClusterAddr(c + 1)'
    BY <1>1, <2>1
  <2> QED
    BY <2>2 DEF Tainted
<1>3. CASE \E c, d \in SeenReached : \E p \in Seen(c), q \in Seen(d) :
             /\ p # q /\ image[p].kind = "dir" /\ image[q].kind = "dir"
             /\ image[p].cluster = image[q].cluster
  BY <1>1, <1>3 DEF Tainted
<1>4. CASE \E c \in SeenReached : \E p \in Seen(c) :
             image[p].kind = "dir" /\ image[p].cluster = CLUST_FIRST
  BY <1>1, <1>4 DEF Tainted
<1> QED
  BY <1>2, <1>3, <1>4 DEF Tainted

\* The walk is done: whatever is reached is named by a line, and all of it is shown.
LEMMA AllShown ==
    ASSUME WalkOK, phase = "done"
    PROVE  \A c \in Reached : \A p \in Listed(c) :
             image[p].kind \in {"file", "dir"} => p \in ShownPlaces
<1> DEFINE W == {c \in Clusters : \E depth : Named(c, depth, Len(shown))}
<1>1. Len(stack) = 0
  BY DEF WalkOK, DirTypeOK
<1>2. \A c \in W : Finished(c)
  BY <1>1 DEF WalkOK, Complete
<1>3. ASSUME NEW c \in W, NEW p \in Listed(c), image[p].kind \in {"file", "dir"}
      PROVE  p \in ShownPlaces
  <2>1. PICK a : a = ClusterAddr(c)
    OBVIOUS
  <2>2. a \in Nat /\ LastRead(a) \in Int
    BY <2>1, Places DEF WalkOK
  <2>3. PICK e \in a..(LastRead(a) + 1) :
          /\ \A q \in a..(e - 1) : image[q].kind \in {"file", "dir"} => q \in ShownPlaces
          /\ e <= LastRead(a) => image[e].kind = "end"
    BY <1>2, <2>1 DEF Finished
  <2>4. p \in a..LastRead(a) /\ \A q \in a..p : image[q].kind # "end"
    BY <2>1 DEF Listed, Place
  <2>5. p \in a..(e - 1)
    BY <2>2, <2>3, <2>4
  <2> QED
    BY <1>3, <2>3, <2>5
<1>4. CLUST_FIRST \in W
  BY Places DEF WalkOK, Named
<1>5. ASSUME NEW c \in W, NEW d \in Children(c) PROVE d \in W
  <2>1. PICK p \in Listed(c) : image[p].kind = "dir" /\ image[p].cluster = d
    BY DEF Children
  <2>2. PICK j \in 1..Len(shown) : shown[j].place = p
    BY <1>3, <2>1 DEF ShownPlaces
  <2>3. PICK depth : depth = shown[j].depth + 1
    OBVIOUS
  <2>4. Named(d, depth, Len(shown))
    BY <2>1, <2>2, <2>3 DEF Named
  <2> QED
    BY <2>4 DEF Children
<1>6. Reached \subseteq W
  <2>1. W \in SUBSET Clusters
    OBVIOUS
  <2> HIDE DEF W
  <2> QED
    BY <1>4, <1>5, <2>1 DEF Reached, ReachedFrom
<1> QED
  BY <1>3, <1>6

\* Of a sound image the walk lists the tree.
LEMMA WalkLists ==
    ASSUME WalkOK, Tainted \/ Once PROVE ListsTree
<1> SUFFICES ASSUME phase = "done", Sound
             PROVE  /\ ShownPlaces = {p \in UNION {Listed(c) : c \in Reached} :
                                        image[p].kind \in {"file", "dir"}}
                    /\ \A j, k \in 1..Len(shown) : shown[j].place = shown[k].place => j = k
                    /\ \A k \in 1..Len(shown) :
                         IF shown[k].place \in Listed(CLUST_FIRST) THEN shown[k].depth = 0
                         ELSE \E j \in 1..(k - 1) :
                                /\ image[shown[j].place].kind = "dir"
                                /\ shown[k].place \in Listed(image[shown[j].place].cluster)
                                /\ shown[k].depth = shown[j].depth + 1
  BY DEF ListsTree, ShownPlaces
<1>1. \A j, k \in 1..Len(shown) : shown[j].place = shown[k].place => j = k
  BY TaintedUnsound DEF WalkOK, Once
<1>2. SeenReached \subseteq Reached /\ (\A c : Seen(c) \subseteq Listed(c))
      /\ CLUST_FIRST \in Reached /\ Reached \subseteq Clusters
  BY SeenIsListed, ReachedOn DEF WalkOK, Reached, ReachedFrom
<1>3. ASSUME NEW k \in 1..Len(shown)
      PROVE  \E c \in Reached : /\ shown[k].place \in Listed(c)
                                /\ image[shown[k].place].kind \in {"file", "dir"}
                                /\ Named(c, shown[k].depth, k - 1)
  BY <1>2 DEF WalkOK, LineOK
<1>4. ShownPlaces = {p \in UNION {Listed(c) : c \in Reached} : image[p].kind \in {"file", "dir"}}
  BY <1>3, AllShown DEF ShownPlaces
<1>5. ASSUME NEW k \in 1..Len(shown), shown[k].place \in Listed(CLUST_FIRST)
      PROVE  shown[k].depth = 0
  <2>1. PICK c \in Reached : shown[k].place \in Listed(c) /\ Named(c, shown[k].depth, k - 1)
    BY <1>3
  <2>2. c = CLUST_FIRST
    BY <1>2, <1>5, <2>1, Within, Apart DEF WalkOK
  <2>3. ASSUME NEW j \in 1..(k - 1), image[shown[j].place].kind = "dir",
               image[shown[j].place].cluster = CLUST_FIRST
        PROVE  FALSE
    <3>1. j \in 1..Len(shown)
      BY ShownRead
    <3>2. shown[j].place \in DirPlaces
      BY <1>3, <2>3, <3>1 DEF DirPlaces
    <3> QED
      BY <2>3, <3>2 DEF Sound
  <2> QED
    BY <2>1, <2>2, <2>3 DEF Named
<1>6. ASSUME NEW k \in 1..Len(shown), shown[k].place \notin Listed(CLUST_FIRST)
      PROVE  \E j \in 1..(k - 1) :
               /\ image[shown[j].place].kind = "dir"
               /\ shown[k].place \in Listed(image[shown[j].place].cluster)
               /\ shown[k].depth = shown[j].depth + 1
  <2>1. PICK c \in Reached : shown[k].place \in Listed(c) /\ Named(c, shown[k].depth, k - 1)
    BY <1>3
  <2> QED
    BY <1>6, <2>1 DEF Named
<1> QED
  BY <1>1, <1>4, <1>5, <1>6

\* Of an image not seen to be unsound: what is looked at is in the cluster of the call and
\* has not been shown, and the directory it names has not been named.
LEMMA Fresh ==
    ASSUME WalkOK, Once, NEW e \in Entries(clusters), e.kind # "end", Looks(e),
           clusters' = clusters, perCluster' = perCluster, DirTypeOK', Prints, ~Tainted'
    PROVE  /\ Top.idx \in Top.addr..(Top.addr + perCluster - 1)
           /\ Top.idx \notin ShownPlaces
           /\ e.kind = "dir" => ~\E depth : Named(e.cluster, depth, Len(shown))
<1>1. /\ Depth \in Nat \ {0} /\ Depth = Len(stack) /\ Top = stack[Depth]
      /\ Top.addr \in Nat /\ Top.idx \in Nat /\ Top.idx >= Top.addr /\ phase = "walk"
  BY TopOK DEF Looks, Top
<1>2. Grows /\ image'[Top.idx] = e
  BY LooksAt
<1>3. PICK c \in SeenReached : Top.addr = ClusterAddr(c) /\ Top.idx \in Seen(c)'
  BY EntrySeen
<1>4. /\ \A d : ClusterAddr(d)' = ClusterAddr(d)
      /\ \A d \in Clusters : Seen(d) \subseteq Seen(d)' /\ \A p \in Seen(d) : image'[p] = image[p]
      /\ SeenReached \subseteq SeenReached' /\ SeenReached \subseteq Clusters
  BY <1>2, SeenStays, ReachedOn DEF WalkOK
<1>5. Top.idx \in Top.addr..(Top.addr + perCluster - 1)
  <2>1. ~(Top.idx >= ClusterAddr(c + 1)')
    BY <1>3, <1>4 DEF Tainted
  <2>2. ClusterAddr(c + 1)' = Top.addr + perCluster /\ perCluster \in Nat
    BY <1>3, <1>4, ClustersFollow DEF WalkOK, DirTypeOK
  <2> QED
    BY <1>1, <2>1, <2>2
<1>6. Top.idx \notin ShownPlaces
  <2>1. ASSUME NEW k \in 1..Len(shown), shown[k].place = Top.idx PROVE FALSE
    <3>1. Depth \in 1..Len(stack)
      BY <1>1
    <3>2. shown[k].place \in stack[Depth].addr..(stack[Depth].addr + perCluster - 1)
      BY <1>1, <1>5, <2>1
    <3>3. shown[k].place < stack[Depth].idx
      BY <1>1, <3>1, <3>2 DEF Once
    <3> QED
      BY <1>1, <2>1, <3>3
  <2> QED
    BY <2>1 DEF ShownPlaces
<1>7. ASSUME e.kind = "dir", NEW depth, Named(e.cluster, depth, Len(shown)) PROVE FALSE
  <2>1. CASE e.cluster = CLUST_FIRST
    BY <1>2, <1>3, <1>4, <1>7, <2>1 DEF Tainted
  <2>2. ASSUME NEW j \in 1..Len(shown), image[shown[j].place].kind = "dir",
               image[shown[j].place].cluster = e.cluster
        PROVE  FALSE
    <3>1. PICK d \in SeenReached : shown[j].place \in Seen(d)
      BY DEF WalkOK, LineOK
    <3>2. PICK p : p = shown[j].place
      OBVIOUS
    <3>3. d \in SeenReached' /\ c \in SeenReached' /\ p \in Seen(d)' /\ image'[p] = image[p]
      BY <1>3, <1>4, <3>1, <3>2
    <3>4. p # Top.idx
      BY <1>6, <3>2 DEF ShownPlaces
    <3>5. PICK t : t = Top.idx
      OBVIOUS
    <3>6. /\ t \in Seen(c)' /\ p # t /\ image'[p].kind = "dir" /\ image'[t].kind = "dir"
          /\ image'[p].cluster = image'[t].cluster
      BY <1>2, <1>3, <1>7, <2>2, <3>2, <3>3, <3>4, <3>5
    <3> QED
      BY <3>3, <3>6 DEF Tainted
  <2> QED
    BY <1>7, <2>1, <2>2 DEF Named
<1> QED
  BY <1>5, <1>6, <1>7

\* The lines after an entry was looked at.
LEMMA LinesNow ==
    ASSUME WalkOK, NEW b \in BOOLEAN, IF b THEN shown' = Append(shown, Line) ELSE shown' = shown
    PROVE  \A k \in 1..Len(shown') :
             \/ k \in 1..Len(shown) /\ shown'[k] = shown[k]
             \/ b /\ k = Len(shown) + 1 /\ shown'[k].place = Top.idx
<1>1. PICK T : shown \in Seq(T)
  BY DEF WalkOK, DirTypeOK
<1>2. PICK l : l = Line
  OBVIOUS
<1>3. l.place = Top.idx
  BY <1>2 DEF Line
<1>4. CASE b
  <2>1. shown' = Append(shown, l)
    BY <1>2, <1>4
  <2>2. Len(shown') = Len(shown) + 1 /\ shown'[Len(shown) + 1] = l /\ Len(shown) \in Nat
        /\ \A k \in 1..Len(shown) : shown'[k] = shown[k]
    BY <1>1, <2>1
  <2>3. \A k \in 1..Len(shown') : k \in 1..Len(shown) \/ k = Len(shown) + 1
    BY <2>2
  <2> QED
    BY <1>3, <1>4, <2>2, <2>3
<1>5. CASE ~b
  BY <1>5
<1> QED
  BY <1>4, <1>5

\* What was not shown before is shown once.
LEMMA LineOnce ==
    ASSUME WalkOK, Once, phase = "walk", Top.idx \notin ShownPlaces,
           NEW b \in BOOLEAN, IF b THEN shown' = Append(shown, Line) ELSE shown' = shown
    PROVE  \A j, k \in 1..Len(shown') : shown'[j].place = shown'[k].place => j = k
<1>1. \A k \in 1..Len(shown') :
             \/ k \in 1..Len(shown) /\ shown'[k] = shown[k]
             \/ b /\ k = Len(shown) + 1 /\ shown'[k].place = Top.idx
  BY LinesNow
<1>2. \A k \in 1..Len(shown) : shown[k].place # Top.idx
  BY DEF ShownPlaces
<1>3. \A j, k \in 1..Len(shown) : shown[j].place = shown[k].place => j = k
  BY DEF Once
<1> QED
  BY <1>1, <1>2, <1>3

\* A call and its cluster.
LEMMA CallAt ==
    ASSUME WalkOK, NEW i \in 1..Len(stack)
    PROVE  /\ stack[i] \in Frames
           /\ \E c \in Clusters : /\ stack[i].addr = ClusterAddr(c)
                                  /\ stack[i].addr + perCluster = ClusterAddr(c + 1)
                                  /\ \E depth : Named(c, depth, Len(shown))
<1>1. stack[i] \in Frames
  <2>1. stack \in Seq(Frames)
    BY DEF WalkOK, DirTypeOK, Frames
  <2> QED
    BY <2>1
<1>2. PICK c \in SeenReached : stack[i].addr = ClusterAddr(c) /\ Named(c, stack[i].depth, Len(shown))
  BY DEF WalkOK, FrameOK
<1>3. c \in Clusters
  BY ReachedOn DEF WalkOK
<1>4. stack[i].addr + perCluster = ClusterAddr(c + 1)
  BY <1>2, <1>3, ClustersFollow DEF WalkOK
<1> QED
  BY <1>1, <1>2, <1>3, <1>4

\* A place is in the cluster of one call.
LEMMA OneCall ==
    ASSUME WalkOK, Once, phase = "walk", NEW i \in 1..Len(stack), NEW j \in 1..Len(stack), NEW p \in Int,
           p \in stack[i].addr..(stack[i].addr + perCluster - 1),
           p \in stack[j].addr..(stack[j].addr + perCluster - 1)
    PROVE  i = j
<1>1. PICK c \in Clusters : stack[i].addr = ClusterAddr(c) /\ stack[i].addr + perCluster = ClusterAddr(c + 1)
  BY CallAt
<1>2. PICK d \in Clusters : stack[j].addr = ClusterAddr(d) /\ stack[j].addr + perCluster = ClusterAddr(d + 1)
  BY CallAt
<1>3. stack[i].addr \in Nat /\ stack[j].addr \in Nat /\ perCluster \in Nat
  BY CallAt DEF Frames, WalkOK, DirTypeOK
<1>4. /\ p >= stack[i].addr /\ p < stack[i].addr + perCluster
      /\ p >= stack[j].addr /\ p < stack[j].addr + perCluster
  <2>1. PICK x \in Nat, y \in Nat, w \in Nat : x = stack[i].addr /\ y = stack[j].addr /\ w = perCluster
    BY <1>3
  <2>2. p \in x..(x + w - 1) /\ p \in y..(y + w - 1)
    BY <2>1
  <2>3. p >= x /\ p < x + w /\ p >= y /\ p < y + w
    BY <2>2
  <2> QED
    BY <2>1, <2>3
<1>5. c = d
  BY <1>1, <1>2, <1>4, Apart DEF WalkOK
<1> QED
  BY <1>1, <1>2, <1>5 DEF Once

\* The calls after a turn, at the places they are at.
LEMMA CallsTurned ==
    ASSUME WalkOK, phase = "walk", NEW long \in Nat, NEW st, st = Turn(long)
    PROVE  /\ \A i \in 1..Depth : /\ st[i].addr = stack[i].addr /\ st[i].addr \in Nat
                                  /\ st[i].idx >= stack[i].idx /\ st[i].idx \in Nat
                                  /\ stack[i].idx \in Nat
           /\ st[Depth].idx = Top.idx + 1 /\ Top.idx \in Nat
<1>1. /\ \A i \in 1..Depth : i # Depth => st[i] = stack[i]
      /\ st[Depth] = [Top EXCEPT !.idx = @ + 1, !.long = long]
  BY TurnIs
<1>2. /\ Top = stack[Depth] /\ Top \in Frames
      /\ \A i \in 1..Depth : stack[i] \in Frames
  BY TopOK DEF Top, Frames
<1>3. PICK t : t = Top
  OBVIOUS
<1>4. t.idx \in Nat /\ t.addr \in Nat /\ t \in Frames
  BY <1>2, <1>3 DEF Frames
<1>5. /\ st[Depth].addr = t.addr /\ st[Depth].idx = t.idx + 1
  <2>1. st[Depth] = [t EXCEPT !.idx = t.idx + 1, !.long = long]
    BY <1>1, <1>3
  <2> QED
    BY <1>4, <2>1 DEF Frames
<1>6. \A i \in 1..Depth : stack[i].idx \in Nat /\ stack[i].addr \in Nat
  BY <1>2 DEF Frames
<1>7. stack[Depth] = t
  BY <1>2, <1>3
<1>8. ASSUME NEW i \in 1..Depth
      PROVE  /\ st[i].addr = stack[i].addr /\ st[i].addr \in Nat
             /\ st[i].idx >= stack[i].idx /\ st[i].idx \in Nat
  <2>1. CASE i = Depth
    <3>1. st[i].addr = t.addr /\ st[i].idx = t.idx + 1 /\ stack[i] = t
      BY <1>5, <1>7, <2>1
    <3> QED
      BY <1>4, <3>1
  <2>2. CASE i # Depth
    <3>1. st[i] = stack[i]
      BY <1>1, <2>2
    <3>2. stack[i].idx \in Nat /\ stack[i].addr \in Nat
      BY <1>6
    <3> QED
      BY <3>1, <3>2
  <2> QED
    BY <2>1, <2>2
<1> QED
  BY <1>3, <1>4, <1>5, <1>6, <1>8

\* The loop goes on in the same call.
LEMMA TurnOnce ==
    ASSUME WalkOK, Once, NEW e \in Entries(clusters), e.kind # "end", Looks(e),
           clusters' = clusters, perCluster' = perCluster, phase' = phase, DirTypeOK', ~Tainted',
           NEW b \in BOOLEAN, IF b THEN shown' = Append(shown, Line) ELSE shown' = shown,
           NEW long \in Nat, stack' = Turn(long)
    PROVE  Once'
<1>0. phase = "walk" /\ Prints
  BY MayPrint DEF Looks
<1>1. PICK st : st = Turn(long)
  OBVIOUS
<1>2. /\ Depth \in Nat \ {0} /\ Depth = Len(stack) /\ Top = stack[Depth]
      /\ \A i \in 1..Depth : stack[i] \in Frames
  BY <1>0, TopOK DEF Top, Frames
<1>3. /\ Len(st) = Depth /\ stack' = st
      /\ \A i \in 1..Depth : i # Depth => st[i] = stack[i]
      /\ st[Depth] = [Top EXCEPT !.idx = @ + 1, !.long = long]
  BY <1>0, <1>1, TurnIs
<1>4. /\ Top.idx \in Top.addr..(Top.addr + perCluster - 1)
      /\ Top.idx \notin ShownPlaces
  BY <1>0, Fresh
<1>5. /\ \A i \in 1..Depth : /\ st[i].addr = stack[i].addr /\ st[i].addr \in Nat
                             /\ st[i].idx >= stack[i].idx /\ st[i].idx \in Nat
                             /\ stack[i].idx \in Nat
      /\ st[Depth].idx = Top.idx + 1 /\ Top.idx \in Nat /\ perCluster \in Nat
  BY <1>0, <1>1, CallsTurned DEF WalkOK, DirTypeOK
<1>6. \A j, k \in 1..Len(shown') : shown'[j].place = shown'[k].place => j = k
  BY <1>0, <1>4, LineOnce
<1>7. \A i, j \in 1..Len(stack') : stack'[i].addr = stack'[j].addr => i = j
  BY <1>0, <1>2, <1>3, <1>5 DEF Once
<1>8. ASSUME NEW i \in 1..Len(stack'), NEW k \in 1..Len(shown'),
             shown'[k].place \in stack'[i].addr..(stack'[i].addr + perCluster - 1)
      PROVE  shown'[k].place < stack'[i].idx
  <2>1. i \in 1..Len(stack) /\ i \in 1..Depth /\ stack'[i] = st[i]
    BY <1>2, <1>3
  <2>2. shown'[k].place \in stack[i].addr..(stack[i].addr + perCluster - 1)
    BY <1>5, <1>8, <2>1
  <2>3. CASE k \in 1..Len(shown) /\ shown'[k] = shown[k]
    <3>1. shown[k].place < stack[i].idx
      BY <1>0, <2>1, <2>2, <2>3 DEF Once
    <3> QED
      <4>1. /\ stack[i].idx \in Nat /\ st[i].idx \in Nat /\ st[i].idx >= stack[i].idx
            /\ stack[i].addr \in Nat /\ perCluster \in Nat
        BY <1>5, <2>1
      <4>2. shown[k].place \in Int
        BY <2>2, <2>3, <4>1
      <4>3. shown[k].place < st[i].idx
        BY <3>1, <4>1, <4>2
      <4> QED
        BY <2>1, <2>3, <4>3
  <2>4. CASE shown'[k].place = Top.idx
    <3>1. i = Depth
      BY <1>0, <1>2, <1>4, <1>5, <2>1, <2>2, <2>4, OneCall
    <3> QED
      BY <1>5, <2>1, <2>4, <3>1
  <2> QED
    BY <2>3, <2>4, LinesNow
<1> QED
  BY <1>6, <1>7, <1>8 DEF Once

\* A subdirectory is gone into.
LEMMA DescendOnce ==
    ASSUME WalkOK, Once, NEW e \in Entries(clusters), Descends(e), Looks(e),
           clusters' = clusters, perCluster' = perCluster, DirTypeOK', ~Tainted', ~Tainted,
           shown' = Append(shown, Line),
           stack' = Append(AfterEntry, Frame(e.cluster, CallDepth(Top.depth)))
    PROVE  Once'
<1>0. phase = "walk" /\ Prints /\ e.kind = "dir" /\ e.cluster \in Clusters
  BY MayPrint, Descent DEF Looks, WalkOK
<1>1. PICK st, h : st = Turn(0) /\ st = AfterEntry /\ h = Frame(e.cluster, CallDepth(Top.depth))
  BY DEF AfterEntry
<1>2. /\ Depth \in Nat \ {0} /\ Depth = Len(stack) /\ Top = stack[Depth]
      /\ \A i \in 1..Depth : stack[i] \in Frames
  BY <1>0, TopOK DEF Top, Frames
<1>3. /\ st \in Seq(Frames) /\ Len(st) = Depth
      /\ \A i \in 1..Depth : i # Depth => st[i] = stack[i]
      /\ st[Depth] = [Top EXCEPT !.idx = @ + 1, !.long = 0]
  <2>1. 0 \in Nat
    OBVIOUS
  <2>2. st = Turn(0)
    BY <1>1
  <2> QED
    BY <1>0, <2>1, <2>2, TurnIs, Zenon
<1>4. /\ Top.idx \in Top.addr..(Top.addr + perCluster - 1)
      /\ Top.idx \notin ShownPlaces
      /\ ~\E depth : Named(e.cluster, depth, Len(shown))
  BY <1>0, Fresh
<1>5. /\ \A i \in 1..Depth : /\ st[i].addr = stack[i].addr /\ st[i].addr \in Nat
                             /\ st[i].idx >= stack[i].idx /\ st[i].idx \in Nat
                             /\ stack[i].idx \in Nat
      /\ st[Depth].idx = Top.idx + 1 /\ Top.idx \in Nat /\ perCluster \in Nat
  <2>1. perCluster \in Nat
    BY DEF WalkOK, DirTypeOK
  <2>2. 0 \in Nat
    OBVIOUS
  <2> QED
    BY <1>0, <1>1, <2>1, <2>2, CallsTurned
<1>6. h.addr = ClusterAddr(e.cluster) /\ h.idx = h.addr /\ h.depth = Top.depth + 1 /\ h.addr \in Nat
      /\ h \in Frames
  <2>1. ClusterAddr(e.cluster) \in Nat
    BY <1>0, Places DEF WalkOK
  <2> QED
    BY <1>1, <1>2, <2>1 DEF Frame, CallDepth, Frames
<1>7. /\ Len(stack') = Depth + 1 /\ stack'[Depth + 1] = h /\ \A i \in 1..Depth : stack'[i] = st[i]
  BY <1>1, <1>2, <1>3, <1>6
<1>8. \A j, k \in 1..Len(shown') : shown'[j].place = shown'[k].place => j = k
  <2>1. PICK b \in BOOLEAN : b = TRUE
    OBVIOUS
  <2>2. IF b THEN shown' = Append(shown, Line) ELSE shown' = shown
    BY <2>1
  <2> QED
    BY <1>0, <1>4, <2>2, LineOnce
<1>9. \A i \in 1..Depth : stack[i].addr # h.addr
  <2> SUFFICES ASSUME NEW i \in 1..Depth, stack[i].addr = h.addr PROVE FALSE
    OBVIOUS
  <2>1. PICK c \in Clusters : stack[i].addr = ClusterAddr(c) /\ \E depth : Named(c, depth, Len(shown))
    BY <1>2, CallAt
  <2>2. c = e.cluster
    BY <1>0, <1>6, <2>1, Begins DEF WalkOK
  <2> QED
    BY <1>4, <2>1, <2>2
<1>10. \A i, j \in 1..Len(stack') : stack'[i].addr = stack'[j].addr => i = j
  <2>1. \A i, j \in 1..Depth : stack[i].addr = stack[j].addr => i = j
    BY <1>0, <1>2 DEF Once
  <2>2. \A i \in 1..Len(stack') : i \in 1..Depth \/ i = Depth + 1
    BY <1>2, <1>7
  <2>3. ASSUME NEW i \in 1..Len(stack'), NEW j \in 1..Len(stack'),
               stack'[i].addr = stack'[j].addr, i # j
        PROVE  FALSE
    <3>1. ~(i \in 1..Depth /\ j \in 1..Depth)
      BY <1>5, <1>7, <2>1, <2>3
    <3>2. (i \in 1..Depth /\ j = Depth + 1) \/ (j \in 1..Depth /\ i = Depth + 1)
      BY <2>2, <2>3, <3>1
    <3> QED
      BY <1>5, <1>7, <1>9, <2>3, <3>2
  <2> QED
    BY <2>3
<1>11. \A k \in 1..Len(shown') :
             \/ k \in 1..Len(shown) /\ shown'[k] = shown[k]
             \/ k = Len(shown) + 1 /\ shown'[k].place = Top.idx
  <2>1. PICK b \in BOOLEAN : b = TRUE
    OBVIOUS
  <2>2. IF b THEN shown' = Append(shown, Line) ELSE shown' = shown
    BY <2>1
  <2> QED
    BY <2>2, LinesNow
<1>12. /\ ClusterAddr(e.cluster + 1) = h.addr + perCluster /\ perCluster \in Nat
  BY <1>0, <1>6, ClustersFollow DEF WalkOK, DirTypeOK
<1>13. ASSUME NEW k \in 1..Len(shown'), shown'[k].place \in h.addr..(h.addr + perCluster - 1)
       PROVE  FALSE
  <2>1. /\ shown'[k].place \in Int /\ shown'[k].place >= ClusterAddr(e.cluster)
        /\ shown'[k].place < ClusterAddr(e.cluster + 1)
    BY <1>6, <1>12, <1>13
  <2>2. CASE k \in 1..Len(shown) /\ shown'[k] = shown[k]
    <3>1. PICK c \in SeenReached : shown[k].place \in Seen(c) /\ Named(c, shown[k].depth, k - 1)
      BY <2>2 DEF WalkOK, LineOK
    <3>2. Named(c, shown[k].depth, Len(shown))
      <4>1. 1..(k - 1) \subseteq 1..Len(shown)
        BY <2>2, ShownRead
      <4> QED
        BY <3>1, <4>1 DEF Named
    <3>3. c \in Clusters
      BY ReachedOn DEF WalkOK
    <3>4. shown[k].place >= ClusterAddr(c)
      BY <3>1, <3>3, Places DEF Seen, Place, WalkOK
    <3>5. shown[k].place < ClusterAddr(c + 1)
      <4>1. ~(shown[k].place >= ClusterAddr(c + 1))
        BY <3>1 DEF Tainted
      <4>2. ClusterAddr(c + 1) \in Int
        <5>1. ClusterAddr(c) \in Nat
          BY <3>3, Places DEF WalkOK
        <5>2. ClusterAddr(c + 1) = ClusterAddr(c) + perCluster
          BY <3>3, ClustersFollow DEF WalkOK
        <5>3. perCluster \in Nat
          BY <1>5
        <5> QED
          BY <5>1, <5>2, <5>3
      <4> QED
        BY <2>1, <2>2, <4>1, <4>2
    <3>6. c = e.cluster
      BY <1>0, <2>1, <2>2, <3>3, <3>4, <3>5, Apart DEF WalkOK
    <3> QED
      BY <1>4, <3>2, <3>6
  <2>3. CASE shown'[k].place = Top.idx
    <3>1. PICK c \in Clusters : /\ Top.addr = ClusterAddr(c) /\ Top.addr + perCluster = ClusterAddr(c + 1)
                                /\ \E depth : Named(c, depth, Len(shown))
      BY <1>2, CallAt
    <3>2. Top.idx >= ClusterAddr(c) /\ Top.idx < ClusterAddr(c + 1)
      <4>1. PICK x \in Nat, y \in Nat, w \in Nat : x = Top.addr /\ y = Top.idx /\ w = perCluster
        BY <1>2, <1>5 DEF Frames
      <4>2. y >= x /\ y < x + w
        BY <1>4, <4>1
      <4> QED
        BY <3>1, <4>1, <4>2
    <3>3. c = e.cluster
      BY <1>0, <1>5, <2>1, <2>3, <3>1, <3>2, Apart DEF WalkOK
    <3> QED
      BY <1>4, <3>1, <3>3
  <2> QED
    BY <1>11, <2>2, <2>3
<1>14. ASSUME NEW i \in 1..Len(stack'), NEW k \in 1..Len(shown'),
              shown'[k].place \in stack'[i].addr..(stack'[i].addr + perCluster - 1)
       PROVE  shown'[k].place < stack'[i].idx
  <2>0. i # Depth + 1
    BY <1>7, <1>13, <1>14
  <2>1. i \in 1..Len(stack) /\ i \in 1..Depth /\ stack'[i] = st[i]
    BY <1>2, <1>7, <2>0
  <2>2. shown'[k].place \in stack[i].addr..(stack[i].addr + perCluster - 1)
    BY <1>5, <1>14, <2>1
  <2>3. CASE k \in 1..Len(shown) /\ shown'[k] = shown[k]
    <3>1. shown[k].place < stack[i].idx
      BY <1>0, <2>1, <2>2, <2>3 DEF Once
    <3> QED
      <4>1. /\ stack[i].idx \in Nat /\ st[i].idx \in Nat /\ st[i].idx >= stack[i].idx
            /\ stack[i].addr \in Nat /\ perCluster \in Nat
        BY <1>5, <2>1
      <4>2. shown[k].place \in Int
        BY <2>2, <2>3, <4>1
      <4>3. shown[k].place < st[i].idx
        BY <3>1, <4>1, <4>2
      <4> QED
        BY <2>1, <2>3, <4>3
  <2>4. CASE shown'[k].place = Top.idx
    <3>1. i = Depth
      BY <1>0, <1>2, <1>4, <1>5, <2>1, <2>2, <2>4, OneCall
    <3> QED
      BY <1>5, <2>1, <2>4, <3>1
  <2> QED
    BY <1>11, <2>3, <2>4
<1> QED
  BY <1>8, <1>10, <1>14 DEF Once

\* The call returns.
LEMMA ReturnOnce ==
    ASSUME WalkOK, Once, DirReturn PROVE Once'
<1>1. /\ phase = "walk" /\ shown' = shown /\ perCluster' = perCluster
      /\ stack' = SubSeq(stack, 1, Depth - 1)
  BY DEF DirReturn
<1>2. /\ Depth \in Nat \ {0} /\ Depth = Len(stack) /\ \A i \in 1..Depth : stack[i] \in Frames
      /\ stack \in Seq(Frames)
  BY <1>1, TopOK DEF Frames, WalkOK, DirTypeOK
<1>3. Len(stack') = Depth - 1 /\ \A i \in 1..(Depth - 1) : stack'[i] = stack[i]
  BY <1>1, <1>2
<1>4. \A i \in 1..Len(stack') : i \in 1..Len(stack) /\ stack'[i] = stack[i]
  BY <1>2, <1>3
<1> QED
  BY <1>1, <1>4 DEF Once

\* Each step: what is seen shows that the image is not sound, or nothing is shown twice.
LEMMA OnceStep ==
    ASSUME WalkOK, WalkOK', Tainted \/ Once, DirNext PROVE (Tainted \/ Once)'
<1>1. DirTypeOK /\ DirTypeOK'
  BY DEF WalkOK
<1>2. Grows
  <2>1. ASSUME NEW e \in Entries(clusters), Looks(e), clusters' = clusters, perCluster' = perCluster
        PROVE  Grows
    BY <2>1, LooksAt
  <2>2. CASE DirReturn
    <3>1. End \in Entries(clusters)
      BY DEF Entries
    <3>2. CASE image' = image
      BY <2>2, <3>2 DEF DirReturn, Grows
    <3> QED
      BY <2>1, <2>2, <3>1, <3>2 DEF DirReturn
  <2>3. CASE \E e \in Entries(clusters) : LongEntry(e) \/ PlainEntry(e) \/ SubDirectory(e)
    BY <2>1, <2>3 DEF LongEntry, PlainEntry, SubDirectory
  <2> QED
    BY <2>2, <2>3 DEF DirNext
<1>3. Tainted => Tainted'
  BY <1>1, <1>2, TaintedStays
<1> SUFFICES ASSUME ~Tainted', ~Tainted, Once PROVE Once'
  BY <1>3
<1>4. CASE DirReturn
  BY <1>4, ReturnOnce
<1>5. ASSUME NEW e \in Entries(clusters), LongEntry(e) PROVE Once'
  <2>1. PICK b \in BOOLEAN : b = FALSE
    OBVIOUS
  <2>2. /\ e.kind # "end" /\ Looks(e) /\ clusters' = clusters /\ perCluster' = perCluster
        /\ phase' = phase /\ stack' = Turn(Top.long + 1)
        /\ IF b THEN shown' = Append(shown, Line) ELSE shown' = shown
    BY <1>5, <2>1 DEF LongEntry
  <2>3. Top.long + 1 \in Nat
    BY <2>2, TopOK DEF Looks
  <2> QED
    BY <1>1, <2>2, <2>3, TurnOnce
<1>6. ASSUME NEW e \in Entries(clusters), PlainEntry(e) PROVE Once'
  <2>1. PICK b \in BOOLEAN : b = (e.kind # "dotdir")
    OBVIOUS
  <2>2. /\ e.kind # "end" /\ Looks(e) /\ clusters' = clusters /\ perCluster' = perCluster
        /\ phase' = phase /\ stack' = Turn(0) /\ 0 \in Nat
        /\ IF b THEN shown' = Append(shown, Line) ELSE shown' = shown
    BY <1>6, <2>1 DEF PlainEntry, Show, AfterEntry
  <2> QED
    BY <1>1, <2>2, TurnOnce
<1>7. ASSUME NEW e \in Entries(clusters), SubDirectory(e) PROVE Once'
  <2>1. /\ Descends(e) /\ Looks(e) /\ clusters' = clusters /\ perCluster' = perCluster
        /\ shown' = Append(shown, Line)
    BY <1>7 DEF SubDirectory, Show, Descends
  <2>2. CASE stack' = Append(AfterEntry, Frame(e.cluster, CallDepth(Top.depth)))
    BY <1>1, <2>1, <2>2, DescendOnce
  <2>3. CASE phase' = "overflow"
    BY <2>3 DEF Once
  <2> QED
    BY <1>7, <2>2, <2>3 DEF SubDirectory
<1> QED
  BY <1>4, <1>5, <1>6, <1>7 DEF DirNext

\* The walk begins with nothing shown.
LEMMA OnceStarts ==
    ASSUME DirInit PROVE Once
<1>1. Len(stack) = 1 /\ Len(shown) = 0
  BY DEF DirInit
<1> QED
  BY <1>1 DEF Once

\* What is seen of an image shows that it is not sound, or no line is shown twice and no
\* directory entered twice.
THEOREM ShownOnce == FSpec => [](Tainted \/ Once)
<1>1. FInit => Tainted \/ Once
  BY OnceStarts DEF FInit
<1>2. WalkOK /\ WalkOK' /\ (Tainted \/ Once) /\ [FNext]_<<dirVars, shellVars>> => (Tainted \/ Once)'
  <2> SUFFICES ASSUME WalkOK, WalkOK', Tainted \/ Once, [FNext]_<<dirVars, shellVars>>
               PROVE  (Tainted \/ Once)'
    OBVIOUS
  <2>1. CASE ReadDir
    BY <2>1, OnceStep DEF ReadDir
  <2>2. CASE UNCHANGED dirVars
    <3>1. /\ clusters' = clusters /\ perCluster' = perCluster /\ image' = image
          /\ stack' = stack /\ shown' = shown /\ phase' = phase
      BY <2>2 DEF dirVars
    <3>2. Grows
      BY <3>1 DEF Grows
    <3>3. Tainted => Tainted'
      BY <3>2, TaintedStays DEF WalkOK
    <3>4. Once => Once'
      BY <3>1 DEF Once
    <3> QED
      BY <3>3, <3>4
  <2> QED
    BY <2>1, <2>2 DEF FNext, ReadBoot, ReadFat, PrintFat
<1> QED
  BY <1>1, <1>2, WalkInvariance, PTL DEF FSpec

\* Of a sound image fat-shell lists the tree, each entry once and with its depth.
THEOREM TreeListed == FSpec => []ListsTree
  BY WalkInvariance, ShownOnce, WalkLists, PTL

\* There is one way to divide.
LEMMA Quotient ==
    ASSUME NEW x \in Int, NEW s \in Nat \ {0}, NEW q \in Int, NEW r \in Int,
           0 <= r, r < s, x = s * q + r
    PROVE  x \div s = q /\ x % s = r
<1>1. PICK a \in Int, b \in Int : a = x \div s /\ b = x % s /\ x = s * a + b /\ 0 <= b /\ b < s
  BY Divides
<1>2. \A d \in Int : d >= 1 => s * d >= s
  OBVIOUS
<1>3. s * (a - q) = r - b /\ s * (q - a) = b - r
  BY <1>1
<1>4. CASE a > q
  <2>1. s * (a - q) >= s
    BY <1>2, <1>4
  <2> QED
    BY <1>1, <1>3, <2>1
<1>5. CASE a < q
  <2>1. s * (q - a) >= s
    BY <1>2, <1>5
  <2> QED
    BY <1>1, <1>3, <2>1
<1> QED
  BY <1>1, <1>4, <1>5

\* How many clusters read_boot counts.
LEMMA ClustersCounted ==
    ASSUME NEW b \in Boots, b.RootDirEnts = 0, NEW n \in Nat \ {0},
           n = DataSectors(b) \div b.SecPerClust
    PROVE  NumClusters(b) = IF DataSectors(b) = n * b.SecPerClust THEN n + 1 ELSE n + 2
<1>1. /\ b.SecPerClust \in Nat \ {0} /\ b.ResSectors \in Nat /\ b.NumFATs \in Nat
      /\ b.FATsecs \in Nat /\ b.NumSectors \in Nat
      /\ BytesPerSec \in Nat \ {0} /\ BytesPerSec % 4 = 0
  BY ShellAssumption DEF EntrySize
<1>2. PICK s \in Nat \ {0}, fats \in Nat, data \in Int :
        s = b.SecPerClust /\ fats = b.NumFATs * b.FATsecs
        /\ data = b.NumSectors - b.ResSectors - fats /\ data = DataSectors(b)
  BY <1>1 DEF DataSectors
<1>3. PICK r \in Int : data = s * n + r /\ 0 <= r /\ r < s
  BY <1>2, Divides
<1>4. Ceil(b.RootDirEnts * DirEntrySize + BytesPerSec - 1, BytesPerSec) = 1
  <2>1. BytesPerSec >= 2
    BY <1>1
  <2>2. b.RootDirEnts * DirEntrySize = 0
    BY DEF DirEntrySize
  <2>3. PICK x \in Int : x = 2 * BytesPerSec - 2
    BY <1>1
  <2>4. x \div BytesPerSec = 1
    <3>1. PICK m \in Nat \ {0}, k \in Int : m = BytesPerSec /\ k = m - 2
      BY <1>1
    <3>2. x = m * 1 + k /\ 0 <= k /\ k < m
      BY <2>1, <2>3, <3>1
    <3>3. x \div m = 1
      BY <3>2, Quotient
    <3> QED
      BY <3>1, <3>3
  <2>5. (0 + BytesPerSec - 1) + BytesPerSec - 1 = x
    BY <1>1, <2>3
  <2> QED
    BY <2>2, <2>4, <2>5 DEF Ceil
<1>5. b.NumSectors - ClusterOffset(b) = data - 1 + 2 * s
  <2>1. ClusterOffset(b) = 1 + b.ResSectors + fats - 2 * s
    BY <1>2, <1>4 DEF ClusterOffset, CLUST_FIRST
  <2> QED
    BY <1>1, <1>2, <2>1
<1>6. NumClusters(b) = (data - 1 + 2 * s) \div s
  BY <1>2, <1>5 DEF NumClusters
<1>7. CASE r = 0
  <2>1. data = n * s
    BY <1>3, <1>7
  <2>2. data - 1 + 2 * s = s * (n + 1) + (s - 1)
    BY <1>3, <1>7
  <2>3. data - 1 + 2 * s \in Int /\ n + 1 \in Int /\ s - 1 \in Int /\ 0 <= s - 1 /\ s - 1 < s
    OBVIOUS
  <2>4. (data - 1 + 2 * s) \div s = n + 1
    BY <2>2, <2>3, Quotient
  <2> QED
    BY <1>2, <1>6, <2>1, <2>4
<1>8. CASE r # 0
  <2>1. data # n * s
    BY <1>3, <1>8
  <2>2. data - 1 + 2 * s = s * (n + 2) + (r - 1)
    BY <1>3
  <2>3. data - 1 + 2 * s \in Int /\ n + 2 \in Int /\ r - 1 \in Int /\ 0 <= r - 1 /\ r - 1 < s
    BY <1>3, <1>8
  <2>4. (data - 1 + 2 * s) \div s = n + 2
    BY <2>2, <2>3, Quotient
  <2> QED
    BY <1>2, <1>6, <2>1, <2>4
<1> QED
  BY <1>7, <1>8

\* How many sectors of a FAT there are to be read, where the active one begins.
SectorsOfFat(b) ==
    LET active == IF b.ValidFat = -1 THEN 0 ELSE b.ValidFat
        rest == b.NumSectors - b.ResSectors - active * b.FATsecs
    IN  IF active < b.NumFATs \/ rest > b.FATsecs THEN b.FATsecs ELSE rest

LEMMA LengthIs ==
    ASSUME NEW b \in Boots, DataSectors(b) >= 0
    PROVE  /\ SectorsOfFat(b) \in Int /\ SectorsOfFat(b) <= b.FATsecs
           /\ FatLength(b) = SectorsOfFat(b) * BytesPerSec
<1>1. /\ b.FATsecs \in Nat \ {0} /\ b.ResSectors \in Nat /\ b.ValidFat \in Nat \cup {-1}
      /\ b.NumFATs \in Nat /\ b.NumSectors \in Nat /\ BytesPerSec \in Nat \ {0}
  BY ShellAssumption
<1>2. PICK active \in Nat : active = IF b.ValidFat = -1 THEN 0 ELSE b.ValidFat
  BY <1>1
<1>3. active = IF b.ValidFat >= 0 THEN b.ValidFat ELSE 0
  BY <1>1, <1>2
<1>4. PICK f \in Nat \ {0}, m \in Nat \ {0}, rest \in Int :
        f = b.FATsecs /\ m = BytesPerSec /\ rest = b.NumSectors - b.ResSectors - active * b.FATsecs
  <2>1. active * b.FATsecs \in Nat
    BY <1>1
  <2>2. b.NumSectors - b.ResSectors - active * b.FATsecs \in Int
    BY <1>1, <2>1
  <2> QED
    BY <1>1, <2>2, Zenon
<1>5. active < b.NumFATs => rest >= f
  <2>1. ASSUME active < b.NumFATs PROVE rest >= f
    <3>1. PICK d \in Nat \ {0} : b.NumFATs = active + d
      <4>1. b.NumFATs - active \in Nat \ {0} /\ b.NumFATs = active + (b.NumFATs - active)
        BY <1>1, <2>1
      <4> QED
        BY <4>1
    <3>2. b.NumFATs * f = active * f + d * f
      BY <1>1, <3>1
    <3>3. d * f >= f
      OBVIOUS
    <3>4. PICK x \in Nat, y \in Nat, z \in Nat : x = b.NumFATs * f /\ y = active * f /\ z = d * f
      BY <1>1
    <3>5. b.NumSectors - b.ResSectors - x >= 0 /\ rest = b.NumSectors - b.ResSectors - y
      BY <1>4, <3>4 DEF DataSectors
    <3> QED
      BY <1>1, <3>2, <3>3, <3>4, <3>5
  <2> QED
    BY <2>1
<1>6. SectorsOfFat(b) = IF active < b.NumFATs \/ rest > f THEN f ELSE rest
  BY <1>2, <1>4 DEF SectorsOfFat
<1>7. b.NumSectors * m - FatOffset(b) = rest * m
  <2>1. PICK y \in Nat : y = active * f
    OBVIOUS
  <2>2. FatOffset(b) = (b.ResSectors + y) * m
    BY <1>3, <1>4, <2>1 DEF FatOffset
  <2>3. \A i, j, k \in Nat : i * k - j * k = (i - j) * k
    OBVIOUS
  <2>4. b.NumSectors * m - (b.ResSectors + y) * m = (b.NumSectors - (b.ResSectors + y)) * m
    BY <1>1, <2>3
  <2>5. b.NumSectors - (b.ResSectors + y) = rest
    BY <1>1, <1>4, <2>1
  <2> QED
    BY <2>2, <2>4, <2>5
<1>8. FatLength(b) = IF rest * m < f * m THEN rest * m ELSE f * m
  BY <1>4, <1>7 DEF FatLength
<1>9. rest * m < f * m <=> rest < f
  <2>1. \A d \in Int : d >= 1 => d * m >= m
    OBVIOUS
  <2>2. (f - rest) * m = f * m - rest * m /\ (rest - f) * m = rest * m - f * m
    OBVIOUS
  <2>3. PICK x \in Int, y \in Int : x = rest * m /\ y = f * m
    OBVIOUS
  <2>4. ASSUME rest < f PROVE x < y
    BY <2>1, <2>2, <2>3, <2>4
  <2>5. ASSUME rest > f PROVE x > y
    BY <2>1, <2>2, <2>3, <2>5
  <2>6. ASSUME rest = f PROVE x = y
    BY <2>3, <2>6
  <2> QED
    BY <2>3, <2>4, <2>5, <2>6
<1> QED
  BY <1>4, <1>5, <1>6, <1>8, <1>9

\* What the table has for a cluster.
LEMMA SlotTaken ==
    ASSUME NEW b \in Boots, NEW c \in Nat, DataSectors(b) >= 0
    PROVE  LET slots == (SectorsOfFat(b) * BytesPerSec) \div EntrySize
               active == IF b.ValidFat = -1 THEN 0 ELSE b.ValidFat
           IN  (IF Reads(FatLength(b), EntrySize * c, EntrySize)
                THEN Slot(b, FatOffset(b) + EntrySize * c) ELSE Free)
               = IF c >= slots - 1 THEN Free ELSE [copy |-> active, slot |-> c]
<1>1. /\ b.FATsecs \in Nat \ {0} /\ b.ResSectors \in Nat /\ b.ValidFat \in Nat \cup {-1}
      /\ BytesPerSec \in Nat \ {0} /\ BytesPerSec % 4 = 0
  BY ShellAssumption DEF EntrySize
<1>2. PICK active \in Nat : active = IF b.ValidFat = -1 THEN 0 ELSE b.ValidFat
  BY <1>1
<1>3. active = IF b.ValidFat >= 0 THEN b.ValidFat ELSE 0
  BY <1>1, <1>2
<1>4. PICK w \in Nat \ {0} : BytesPerSec = 4 * w
  <2>1. BytesPerSec = 4 * (BytesPerSec \div 4) + 0 /\ BytesPerSec \div 4 \in Int
    BY <1>1, Divides
  <2> QED
    BY <1>1, <2>1
<1>12. PICK k \in Int : k = SectorsOfFat(b) /\ k <= b.FATsecs /\ FatLength(b) = k * BytesPerSec
  BY LengthIs
<1>5. PICK slots \in Int : slots = k * w
  BY <1>4
<1>6. PICK size \in Nat \ {0}, length \in Int :
        /\ size = b.FATsecs * BytesPerSec /\ length = k * BytesPerSec
        /\ length = 4 * slots /\ length <= size
  <2>1. k * (4 * w) = 4 * (k * w)
    BY <1>4
  <2>2. \A d \in Nat : d * BytesPerSec >= 0
    BY <1>1
  <2>3. (b.FATsecs - k) * BytesPerSec = b.FATsecs * BytesPerSec - k * BytesPerSec
    BY <1>1
  <2>4. k * BytesPerSec <= b.FATsecs * BytesPerSec
    <3>1. b.FATsecs - k \in Nat
      BY <1>1, <1>12
    <3>2. PICK x \in Int, y \in Int : x = b.FATsecs * BytesPerSec /\ y = k * BytesPerSec
      BY <1>1
    <3>3. x - y >= 0
      BY <2>2, <2>3, <3>1, <3>2
    <3> QED
      BY <3>2, <3>3
  <2>5. b.FATsecs * BytesPerSec \in Nat \ {0} /\ k * BytesPerSec \in Int
    BY <1>1
  <2> QED
    BY <1>4, <1>5, <2>1, <2>4, <2>5
<1>7. length \div 4 = slots
  <2>1. length = 4 * slots + 0
    BY <1>6
  <2> QED
    BY <2>1, Quotient
<1>8. Reads(length, 4 * c, 4) <=> ~(c >= slots - 1)
  BY <1>6 DEF Reads
<1>9. ASSUME ~(c >= slots - 1) PROVE Slot(b, FatOffset(b) + 4 * c) = [copy |-> active, slot |-> c]
  <2>0. PICK off : off = FatOffset(b) + 4 * c
    OBVIOUS
  <2>1. PICK from \in Int : from = off - b.ResSectors * BytesPerSec
                            /\ from = size * active + 4 * c
    <3>1. PICK x \in Nat, y \in Nat : x = b.ResSectors * BytesPerSec /\ y = size * active
      BY <1>1
    <3>2. FatOffset(b) = x + y
      <4>1. FatOffset(b) = (b.ResSectors + active * b.FATsecs) * BytesPerSec
        BY <1>3 DEF FatOffset
      <4>2. (b.ResSectors + active * b.FATsecs) * BytesPerSec
              = b.ResSectors * BytesPerSec + (active * b.FATsecs) * BytesPerSec
        <5>1. \A i, j, m \in Nat : (i + j) * m = i * m + j * m
          OBVIOUS
        <5>2. active * b.FATsecs \in Nat
          BY <1>1
        <5> QED
          BY <1>1, <5>1, <5>2
      <4>3. (active * b.FATsecs) * BytesPerSec = (b.FATsecs * BytesPerSec) * active
        <5>1. \A i, j, m \in Nat : (i * j) * m = (j * m) * i
          OBVIOUS
        <5> QED
          BY <1>1, <5>1
      <4> QED
        BY <1>6, <3>1, <4>1, <4>2, <4>3
    <3>3. off = (x + y) + 4 * c
      BY <2>0, <3>2
    <3> QED
      BY <3>1, <3>3
  <2>2. 4 * c \in Int /\ 0 <= 4 * c /\ 4 * c < size
    BY <1>6, <1>9
  <2>3. from \div size = active /\ from % size = 4 * c
    <3>1. PICK r \in Int : r = 4 * c /\ 0 <= r /\ r < size /\ from = size * active + r
      BY <2>1, <2>2
    <3>2. active \in Int /\ from \in Int
      OBVIOUS
    <3>3. from \div size = active /\ from % size = r
      BY <3>1, <3>2, Quotient, Zenon
    <3> QED
      BY <3>1, <3>3
  <2>4. (4 * c) \div 4 = c
    <3>1. 4 * c = 4 * c + 0 /\ 4 * c \in Int
      OBVIOUS
    <3> QED
      BY <3>1, Quotient
  <2>5. Slot(b, FatOffset(b) + 4 * c) = [copy |-> from \div size, slot |-> (from % size) \div 4]
    <3>1. Slot(b, off) = [copy |-> from \div size, slot |-> (from % size) \div 4]
      BY <1>6, <2>1 DEF Slot, EntrySize
    <3> QED
      BY <2>0, <3>1
  <2> QED
    BY <2>3, <2>4, <2>5
<1>10. EntrySize = 4 /\ (SectorsOfFat(b) * BytesPerSec) \div EntrySize = slots
  BY <1>6, <1>7, <1>12 DEF EntrySize
<1>11. (IF Reads(length, 4 * c, 4) THEN Slot(b, FatOffset(b) + 4 * c) ELSE Free)
         = IF c >= slots - 1 THEN Free ELSE [copy |-> active, slot |-> c]
  BY <1>8, <1>9
<1> QED
  BY <1>2, <1>6, <1>10, <1>11, <1>12

\* The boot sector and the image agree until the table is printed.
ShellOK ==
    /\ stage \in {"boot", "table", "print"} =>
         boot \in Boots /\ clusters = DataSectors(boot) \div boot.SecPerClust
    /\ stage = "table" => boot.RootDirEnts = 0
    /\ TableOfImage

\* read_fat.
LEMMA TableRead ==
    ASSUME clusters \in Nat \ {0}, ShellOK, ReadFat, ~Raise PROVE TableOfImage'
<1>1. PICK b \in Boots, n \in Nat \ {0} :
        /\ b = boot /\ n = clusters /\ n = DataSectors(b) \div b.SecPerClust /\ b.RootDirEnts = 0
  BY DEF ReadFat, ShellOK
<1>2. PICK table : table = fatents'
  OBVIOUS
<1>3. /\ boot' = b /\ clusters' = n
      /\ table = [c \in 0..(NumClusters(b) - 1) \cup {0, 1} |->
                     IF c >= CLUST_FIRST /\ Reads(FatLength(b), EntrySize * c, EntrySize)
                     THEN Slot(b, FatOffset(b) + EntrySize * c) ELSE Free]
  BY <1>1, <1>2 DEF ReadFat, dirVars
<1>4. NumClusters(b) = IF DataSectors(b) = n * b.SecPerClust THEN n + 1 ELSE n + 2
  BY <1>1, ClustersCounted
<1>5. /\ NumClusters(b) - 1 = IF DataSectors(b) = n * b.SecPerClust
                               THEN (CLUST_FIRST + n - 1) - 1 ELSE CLUST_FIRST + n - 1
      /\ NumClusters(b) \in Int /\ NumClusters(b) - 1 >= 1
  BY <1>4 DEF CLUST_FIRST
<1>6. DOMAIN table = 0..(NumClusters(b) - 1)
  BY <1>3, <1>5
<1>7. DOMAIN table = 0..(IF DataSectors(b) = n * b.SecPerClust
                         THEN (CLUST_FIRST + n - 1) - 1 ELSE CLUST_FIRST + n - 1)
  BY <1>5, <1>6
<1>8. PICK slots, active : /\ slots = (SectorsOfFat(b) * BytesPerSec) \div EntrySize
                           /\ active = IF b.ValidFat = -1 THEN 0 ELSE b.ValidFat
  OBVIOUS
<1>10. DataSectors(b) >= 0
  <2>1. PICK s \in Nat \ {0}, x \in Int : s = b.SecPerClust /\ x = DataSectors(b)
    BY ShellAssumption DEF DataSectors
  <2>4. n = x \div s
    BY <1>1, <2>1, Zenon
  <2>2. x = s * n + (x % s) /\ x % s >= 0 /\ x % s \in Int
    BY <2>4, Divides
  <2>3. s * n >= 0
    OBVIOUS
  <2> QED
    BY <2>1, <2>2, <2>3
<1>9. ASSUME NEW c \in DOMAIN table \ {0, 1}
      PROVE  table[c] = IF c >= slots - 1 THEN Free ELSE [copy |-> active, slot |-> c]
  <2>1. c \in Nat /\ c >= CLUST_FIRST /\ c \in 0..(NumClusters(b) - 1)
    BY <1>5, <1>6 DEF CLUST_FIRST
  <2>2. table[c] = IF Reads(FatLength(b), EntrySize * c, EntrySize)
                   THEN Slot(b, FatOffset(b) + EntrySize * c) ELSE Free
    BY <1>3, <2>1
  <2> QED
    BY <1>8, <1>10, <2>1, <2>2, SlotTaken
<1> QED
  BY <1>2, <1>3, <1>7, <1>8, <1>9 DEF TableOfImage, SectorsOfFat

\* What fat-shell knows of an image is what the image has.
THEOREM ShellInvariance == FSpec => []ShellOK
<1>1. FInit => ShellOK
  BY DEF FInit, ShellOK, TableOfImage
<1>2. WalkOK /\ ShellOK /\ [FNext]_<<dirVars, shellVars>> => ShellOK'
  <2> SUFFICES ASSUME WalkOK, ShellOK, [FNext]_<<dirVars, shellVars>> PROVE ShellOK'
    OBVIOUS
  <2>1. CASE ReadBoot
    BY <2>1 DEF ReadBoot, Raise, dirVars, ShellOK, TableOfImage
  <2>2. CASE ReadFat
    <3>1. CASE Raise
      BY <2>2, <3>1 DEF ReadFat, Raise, dirVars, ShellOK, TableOfImage
    <3>2. CASE ~Raise
      <4>1. TableOfImage'
        BY <2>2, <3>2, TableRead DEF WalkOK, DirTypeOK
      <4> QED
        BY <2>2, <3>2, <4>1 DEF ReadFat, dirVars, ShellOK
    <3> QED
      BY <3>1, <3>2
  <2>3. CASE PrintFat
    BY <2>3 DEF PrintFat, Raise, ShellOK, TableOfImage
  <2>4. CASE ReadDir
    BY <2>4 DEF ReadDir, shellVars, ShellOK, TableOfImage
  <2>5. CASE UNCHANGED <<dirVars, shellVars>>
    BY <2>5 DEF dirVars, shellVars, ShellOK, TableOfImage
  <2> QED
    BY <2>1, <2>2, <2>3, <2>4, <2>5 DEF FNext
<1> QED
  BY <1>1, <1>2, WalkInvariance, PTL DEF FSpec

\* The table that fat-shell reads is the active FAT of the image.
THEOREM TableRight == FSpec => []TableOfImage
<1>1. ShellOK => TableOfImage
  BY DEF ShellOK
<1> QED
  BY <1>1, ShellInvariance, PTL
=============================================================================

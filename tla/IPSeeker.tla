------------------------------ MODULE IPSeeker ------------------------------
(***************************************************************************)
(* tools/qqwry-ip/evaipseeker.cpp: searchIP, the binary search of an IP in *)
(* the index of the database, as a loop over its variables i, j, mOffset.  *)
(*                                                                         *)
(* The index has the entries 0..last.  Entry k says that the addresses     *)
(* from start[k] on belong to record k, and record k ends at end[k].  An   *)
(* offset is an index entry <<"index", k>> (the code's offset is           *)
(* firstIndexOffset + k * IP_RECORD_LENGTH), a record <<"record", k>>,     *)
(* NoOffset, the code's 0, or Anywhere, an offset read from bytes that are *)
(* no index entry.  i, j and mOffset are index entries and kept as their   *)
(* numbers.                                                                *)
(***************************************************************************)
EXTENDS Integers

CONSTANTS
    MaxEntries,    \* bound on the entries of the index
    MaxIP          \* greatest address, 2^32 - 1 in the code

ASSUME IPAssumption == MaxEntries \in Nat \ {0} /\ MaxIP \in Nat

VARIABLES
    last, start, end,   \* the database
    ip,                 \* the address looked for
    pc,                 \* "entry", "loop", "exit" or "return"
    i, j, mOffset,      \* the locals of searchIP; mOffset -1: not assigned
    result              \* what searchIP returns

database == <<last, start, end, ip>>
vars == <<last, start, end, ip, pc, i, j, mOffset, result>>

IPs == 0..MaxIP
NoOffset == <<"none", 0>>
Anywhere == <<"anywhere", 0>>
IndexEntry(k) == <<"index", k>>
Record(k) == <<"record", k>>
Records == {Record(k) : k \in 0..last}

\* The index is sorted and the ranges of its entries do not overlap.
Database ==
    /\ last \in 0..(MaxEntries - 1)
    /\ start \in [0..last -> IPs]
    /\ end \in [0..last -> IPs]
    /\ \A k \in 0..last : start[k] <= end[k]
    /\ \A k, l \in 0..last : k < l => end[k] < start[l]

Init ==
    /\ Database
    /\ ip \in IPs
    /\ pc = "entry"
    /\ i = 0 /\ j = 0 /\ mOffset = -1
    /\ result = NoOffset

Return(offset) == result' = offset /\ pc' = "return"

\* The two comparisons with the first entry, and the head of the for loop.
Enter ==
    /\ pc = "entry"
    /\ \/ ip = start[0] /\ Return(IndexEntry(0)) /\ UNCHANGED <<i, j>>
       \/ ip < start[0] /\ Return(NoOffset) /\ UNCHANGED <<i, j>>
       \/ /\ ip > start[0]
          /\ i' = 0 /\ j' = last
          /\ pc' = IF last > 0 THEN "loop" ELSE "exit"
          /\ UNCHANGED result
    /\ UNCHANGED <<database, mOffset>>

\* Faulty variant of Middle: the middle of two neighbours is the left one.
MiddleLeft(b, e) == b + (e - b) \div 2

\* getMiddleOffset
Middle(b, e) == LET records == (e - b) \div 2
                IN  b + (IF records = 0 THEN 1 ELSE records)

GoRight(m) == i' = m /\ j' = j /\ mOffset' = m

GoLeft(m) ==
    /\ i' = i
    /\ j' = IF m = j THEN j - 1 ELSE m
    /\ mOffset' = IF m = j THEN j - 1 ELSE m

\* One round of the loop, with the test i < j of the next one.
Loop ==
    LET m == Middle(i, j)
    IN  /\ pc = "loop"
        /\ \/ /\ ip > start[m] /\ GoRight(m)
              /\ pc' = IF i' < j' THEN "loop" ELSE "exit"
              /\ UNCHANGED result
           \/ /\ ip < start[m] /\ GoLeft(m)
              /\ pc' = IF i' < j' THEN "loop" ELSE "exit"
              /\ UNCHANGED result
           \/ /\ ip = start[m] /\ mOffset' = m /\ Return(Record(m))
              /\ UNCHANGED <<i, j>>
        /\ UNCHANGED database

\* Faulty variant of Exit: the end of the range is not looked at.
ExitUnchecked ==
    /\ pc = "exit"
    /\ \E m \in IF mOffset = -1 THEN 0..last ELSE {mOffset} : Return(Record(m))
    /\ UNCHANGED <<database, i, j, mOffset>>

\* The record of the entry mOffset, if ip is within it.  With a single entry the
\* loop has not assigned mOffset: whatever bytes it then points to are taken for
\* the offset of a record and its end of range, so any offset can come out.
Exit ==
    /\ pc = "exit"
    /\ IF mOffset # -1
         THEN Return(IF ip <= end[mOffset] THEN Record(mOffset) ELSE NoOffset)
         ELSE \E offset \in {NoOffset, Anywhere} \cup Records : Return(offset)
    /\ UNCHANGED <<database, i, j, mOffset>>

Done == pc = "return" /\ UNCHANGED vars

Next == Enter \/ Loop \/ Exit \/ Done

Spec == Init /\ [][Next]_vars

-----------------------------------------------------------------------------
(* Properties                                                              *)

TypeOK ==
    /\ Database
    /\ ip \in IPs
    /\ pc \in {"entry", "loop", "exit", "return"}
    /\ i \in 0..last /\ j \in 0..last
    /\ mOffset \in -1..last
    /\ result \in {NoOffset, Anywhere, IndexEntry(0)} \cup Records

\* What a search by definition returns: the record whose range holds ip.
Holder == {k \in 0..last : start[k] <= ip /\ ip <= end[k]}
Wanted == IF Holder = {} THEN NoOffset ELSE Record(CHOOSE k \in Holder : TRUE)

\* searchIP finds the record whose range holds ip, or returns 0 if there is none,
\* whenever the index has two entries or more and ip is not the very first
\* address (see ReturnsRecord for that one).
FindsHolder ==
    pc = "return" /\ last > 0 /\ ip # start[0] => result = Wanted

\* The bounds close in on the last entry that starts before ip: it is never left
\* out, on the right or on the left.  This is the loop invariant.
Bracket ==
    /\ pc = "loop" => i < j
    /\ pc \in {"loop", "exit"} =>
         /\ start[i] < ip
         /\ i <= j
         /\ j < last => ip < start[j + 1]
         /\ last > 0 /\ pc = "exit" => i = j /\ mOffset = i

\* "return the offset of IP record if found" (evaipseeker.cpp:78).  The code
\* violates it for the first address of the index, where line 93 returns the
\* offset of the index entry instead of that of the record.
ReturnsRecord == pc = "return" /\ last > 0 => result \in {NoOffset} \cup Records
=============================================================================

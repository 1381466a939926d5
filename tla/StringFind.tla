----------------------------- MODULE StringFind -----------------------------
(***************************************************************************)
(* c/string-find.c: string_find and the tail-recursive search it calls.    *)
(*                                                                         *)
(* A string of n characters is a function on 0..n whose last value, and    *)
(* only that one, is NUL.  A call of string_find_recurse is a step that    *)
(* replaces its arguments pos and target_len; str_len and dst_len are the  *)
(* lengths of the strings and never change.                                *)
(***************************************************************************)
EXTENDS Integers

CONSTANTS
    Chars,      \* the characters other than NUL
    NUL,
    MaxStr,     \* bound on the length of str
    MaxDst      \* bound on the length of dst

ASSUME StringAssumption ==
    /\ NUL \notin Chars
    /\ MaxStr \in Nat /\ MaxDst \in Nat

VARIABLES
    str, slen,      \* the string searched in
    dst, dlen,      \* the string searched for
    pc,             \* "call", "recurse", "return" or "undefined"
    pos, target_len,
    result

strings == <<str, slen, dst, dlen>>
vars == <<str, slen, dst, dlen, pc, pos, target_len, result>>

IsString(s, n) ==
    /\ s \in [0..n -> Chars \cup {NUL}]
    /\ \A k \in 0..n : s[k] = NUL <=> k = n

Init ==
    /\ slen \in 0..MaxStr /\ dlen \in 0..MaxDst
    /\ IsString(str, slen) /\ IsString(dst, dlen)
    /\ pc = "call"
    /\ pos = 0 /\ target_len = dlen
    /\ result = -1

Return(position) ==
    /\ pc' = "return" /\ result' = position
    /\ UNCHANGED <<strings, pos, target_len>>

Recurse(p, t) ==
    /\ pc' = "recurse" /\ pos' = p /\ target_len' = t
    /\ UNCHANGED <<strings, result>>

\* string_find
Call ==
    /\ pc = "call"
    /\ \/ slen < dlen /\ Return(-1)
       \/ slen >= dlen /\ Recurse(0, dlen)

offset == dlen - target_len
InStrings == pos + offset \in 0..slen /\ offset \in 0..dlen

Same == str[pos + offset] = dst[offset]

\* Reading a byte outside of a string is undefined behaviour, after which
\* nothing is said about the program.
ReadOutside ==
    /\ pc = "recurse" /\ ~InStrings
    /\ pc' = "undefined"
    /\ UNCHANGED <<strings, pos, target_len, result>>

\* Faulty variant of Match: the last character is not compared.
MatchAllButOne ==
    /\ pc = "recurse" /\ InStrings /\ Same
    /\ IF target_len <= 2 THEN Return(pos) ELSE Recurse(pos, target_len - 1)

Match ==
    /\ pc = "recurse" /\ InStrings /\ Same
    /\ IF target_len = 1 THEN Return(pos) ELSE Recurse(pos, target_len - 1)

\* Faulty variant of Mismatch: the search goes on until str has been used up.
MismatchToEnd ==
    /\ pc = "recurse" /\ InStrings /\ ~Same
    /\ IF pos > slen THEN Return(-1) ELSE Recurse(pos + 1, dlen)

\* A new search at the next position, unless the rest of str is too short.
Mismatch ==
    /\ pc = "recurse" /\ InStrings /\ ~Same
    /\ IF pos >= slen - target_len THEN Return(-1) ELSE Recurse(pos + 1, dlen)

Done == pc \in {"return", "undefined"} /\ UNCHANGED vars

Step == Call \/ ReadOutside \/ Match \/ Mismatch
Next == Step \/ Done

Spec == Init /\ [][Next]_vars

-----------------------------------------------------------------------------
(* Properties                                                              *)

TypeOK ==
    /\ slen \in Nat /\ IsString(str, slen)
    /\ dlen \in Nat /\ IsString(dst, dlen)
    /\ pc \in {"call", "recurse", "return", "undefined"}
    /\ pos \in 0..slen
    /\ target_len \in -1..dlen
    /\ result \in -1..slen

OccursAt(p) == p + dlen <= slen /\ \A k \in 0..(dlen - 1) : str[p + k] = dst[k]

\* string_find returns the first position of dst in str, or -1 if there is none.
FindsFirst ==
    pc = "return" =>
        /\ result >= 0 => OccursAt(result)
        /\ \A p \in 0..slen : result = -1 \/ p < result => ~OccursAt(p)

\* No byte outside of the two strings is read, though pos and target_len are never
\* compared with str_len together: the NUL at the end of str ends every match in
\* time.  Only an empty dst, whose target_len of 0 steps over 1, gets outside.
ReadsInside == pc = "undefined" => dlen = 0
=============================================================================

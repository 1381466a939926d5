-------------------------- MODULE StringAlgorithms --------------------------
(***************************************************************************)
(* The algorithms on strings that are pure functions: string_compare of    *)
(* c/string-find.c and the chunks of c/hex-dec.c.  A string is a function  *)
(* as in StringFind, whose characters are here their codes; each algorithm *)
(* is compared with its reference on the strings StringFind starts from.   *)
(***************************************************************************)
EXTENDS StringFind, Sequences, SequencesExt, FiniteSetsExt

\* A char is signed.
ASSUME CodesAssumption == Chars \subseteq -128..127 /\ NUL = 0

-----------------------------------------------------------------------------
(* c/string-find.c                                                         *)

\* The turns of the loop of string_compare: characters that agree, before either NUL.
Turns(s, t, len) ==
    Max({k \in 0..len : \A m \in 0..(k - 1) :
           m \in DOMAIN s /\ m \in DOMAIN t /\ s[m] = t[m] /\ s[m] # NUL})

\* Faulty variant of string_compare: the rest of s is not looked at.
string_compareStops(s, t, len) == IF Turns(s, t, len) = len THEN 0 ELSE -1

string_compare(s, t, len) ==
    LET k == Turns(s, t, len)
    IN  IF k = len THEN (IF s[k] = NUL THEN 0 ELSE 1) ELSE -1

-----------------------------------------------------------------------------
(* c/hex-dec.c                                                             *)

\* Faulty variant of UPCASE: letters are shifted by 26.
UPCASE26(c) == IF c \in 97..122 THEN c - 26 ELSE c

\* The distance of `a' and `A' is 32 and not 27.
UPCASE(c) == IF c \in 97..122 THEN c - 27 ELSE c

IS_HEX_CHAR(c) == c \in 48..57 \cup 65..70 \cup 97..102

hex_char_to_dec(c) ==
    IF ~IS_HEX_CHAR(c) THEN 0 ELSE IF c > 57 THEN c - 65 + 10 ELSE c - 48

\* The code's byte is a short of 16 bits.
Short(n) == ((n + 32768) % 65536) - 32768

\* bt_char2_to_byte of the size characters from position from on; ret wraps with each.
\* base is what an int that wraps, too, has in its lower 16 bits, and above it nothing
\* that ret could keep.
bt_char2_to_byte(s, length, from, size) ==
    LET base[n \in 0..size] == IF n = 0 THEN 1 ELSE 16 * base[n - 1]
        ret[n \in 0..size] ==
            IF n = 0 THEN 0
            ELSE Short(ret[n - 1] + hex_char_to_dec(UPCASE(s[from + size - n])) * base[n - 1])
    IN  IF length - from < size THEN 0 ELSE ret[size]

\* What main prints for a size and a string: whole chunks, and what is left over.
Chunks(s, length, size) ==
    [n \in 1..((length \div size) + (IF length % size > 0 THEN 1 ELSE 0)) |->
        bt_char2_to_byte(s, length, (n - 1) * size,
                         IF n <= length \div size THEN size ELSE length % size)]

-----------------------------------------------------------------------------
(* Properties                                                              *)

\* strncmp: the sign of the first difference among len characters up to the NUL.
strncmp(s, t, len) ==
    LET differ == {k \in 0..(len - 1) : k \in DOMAIN s /\ k \in DOMAIN t /\ s[k] # t[k]}
    IN  IF differ = {} THEN 0
        ELSE IF s[Min(differ)] < t[Min(differ)] THEN -1 ELSE 1

\* string_compare returns what strncmp does (TEST_CMP, string-find.c:65-72, 141-145),
\* except that it goes on to the NUL of str1 after len characters that agree, that a
\* len beyond the end of two equal strings is "less", and that "greater" is only ever
\* said of a longer string.
CompareAsStrncmp ==
    pc = "call" => \A len \in 0..(MaxStr + 1) :
        LET agree == strncmp(str, dst, len) = 0
        IN  string_compare(str, dst, len) =
              IF agree THEN (IF len < slen THEN 1 ELSE IF len > slen THEN -1 ELSE 0) ELSE -1

\* What a character counts for in hex-dec, and the number that such characters write.
Digit(c) == IF c \in 48..57 THEN c - 48 ELSE IF c \in 65..70 THEN c - 55
            ELSE IF c = 97 THEN 15 ELSE 0
Hexadecimal(digits) ==
    LET value[m \in 0..Len(digits)] == IF m = 0 THEN 0 ELSE 16 * value[m - 1] + Digit(digits[m])
    IN  value[Len(digits)]
\* The n-th chunk of str, the last one possibly shorter.
Chunk(n, size) == [m \in 1..Min({size, slen - (n - 1) * size}) |-> str[(n - 1) * size + m - 1]]

\* Every digit printed by hex-dec belongs to its own chunk, and up to three digits are
\* read as their hexadecimal number, of four or more the low 16 bits with their sign:
\* but of the lower case letters only `a' counts, and for fifteen.
ChunksInHex ==
    pc = "call" /\ dlen = 0 => \A size \in 1..(MaxStr + 1) :
        LET printed == Chunks(str, slen, size)
        IN  /\ size * Len(printed) \in slen..(slen + size - 1)
            /\ \A n \in DOMAIN printed :
                 /\ printed[n] % 65536 = Hexadecimal(Chunk(n, size)) % 65536
                 /\ Len(Chunk(n, size)) <= 3 => printed[n] = Hexadecimal(Chunk(n, size))
                 /\ -32768 <= printed[n] /\ printed[n] <= 32767
=============================================================================

---------------------------- MODULE EvaIPAddress ----------------------------
(***************************************************************************)
(* tools/qqwry-ip/evaipaddress.cpp: an address from its text, and back.    *)
(*                                                                         *)
(* An address has four parts below Base (256 in the code).  A text is a    *)
(* sequence of digits, dots and other characters; what toString prints is  *)
(* the numbers, since nothing reads it again.                              *)
(***************************************************************************)
EXTENDS Integers, Sequences, FiniteSetsExt, SequencesExt

CONSTANTS
    Base,
    IntSpan,    \* how many values an int has, 2^32
    LongMax,    \* the greatest long: 2^63 - 1, or 2^31 - 1 where a long is an int
    AddressLen  \* what toString's buffer holds, 16 in the code

\* A part is an even number of values, as many as a byte has at most.
ASSUME BaseAssumption == Base \in 2..256 /\ Base % 2 = 0

\* An int has all parts below its greatest value.  As an int, the greatest long is the
\* greatest int or -1.
ASSUME IntAssumption ==
    /\ IntSpan \in Nat /\ IntSpan % 2 = 0 /\ Base < IntSpan \div 2
    /\ LongMax \in Nat /\ LongMax >= IntSpan \div 2 - 1
    /\ LongMax % IntSpan \in {IntSpan \div 2 - 1, IntSpan - 1}

Dot == -1
Other == -2
IsDigit(c) == c \in 0..9

\* std::string::substr counts from 0, and takes what there is if the count is negative.
Substr(t, from, count) == SubSeq(t, from + 1, IF count < 0 THEN Len(t) ELSE from + count)

\* The number that digits write.
Number(t) ==
    LET number[n \in 0..Len(t)] == IF n = 0 THEN 0 ELSE 10 * number[n - 1] + t[n]
    IN  number[Len(t)]

\* What the cast of a long to an int leaves: its lower half, with a sign.
AsInt(long) ==
    LET low == long % IntSpan
    IN  IF low >= IntSpan \div 2 THEN low - IntSpan ELSE low

\* atoi of digits: strtol, which stops at the greatest long, cast to int.
Strtol(number) == IF number > LongMax THEN LongMax ELSE number
Atoi(t) == AsInt(Strtol(Number(t)))

\* Four parts put into one number.
Horner(parts) == ((parts[1] * Base + parts[2]) * Base + parts[3]) * Base + parts[4]

\* Where the n-th turn of the loop over the parts leaves `end': at the n-th dot.  There
\* is no fourth, and in the last turn `end' keeps its value.
Dots(t) == {d \in 0..(Len(t) - 1) : t[d + 1] = Dot}
Stop(t, n) == CHOOSE d \in Dots(t) : Cardinality({e \in Dots(t) : e <= d}) = IF n = 4 THEN 3 ELSE n
Start(t, n) == IF n = 1 THEN 0 ELSE Stop(t, n - 1) + 1

\* Faulty variant of Field: the last part ends where the third did.
FieldEnds(t, n) == SubSeq(t, Start(t, n) + 1, Stop(t, n))

\* In the last turn the count is negative.
Field(t, n) == Substr(t, Start(t, n), Stop(t, n) - Start(t, n))

\* getIntIP: 0 if the text is refused.
getIntIP(t) ==
    IF /\ Cardinality(Dots(t)) = 3
       /\ \A j \in DOMAIN t : t[j] = Dot \/ IsDigit(t[j])
       /\ \A n \in 1..4 : Atoi(Field(t, n)) \in 0..(Base - 1)
    THEN Horner([n \in 1..4 |-> Atoi(Field(t, n))]) ELSE 0

\* The constructor from a text.
isValid(t) == getIntIP(t) # 0

\* The n-th part from the right, in 0..3.
Weight(n) == <<1, Base, Base * Base, Base * Base * Base>>[n + 1]
Part(address, n) == (address \div Weight(n)) % Base

\* Faulty variant of toString: every part is taken for a signed number.
toStringSigned(address) ==
    LET signed(p) == IF p >= Base \div 2 THEN p - Base ELSE p
    IN  [n \in 1..4 |-> signed(Part(address, 4 - n))]

\* toString, as the four numbers it prints.  The first is cast to int before the shift,
\* so that its highest bit is a sign.
toString(address) ==
    LET first == Part(address, 3)
    IN  <<IF first >= Base \div 2 THEN first - Base ELSE first,
          Part(address, 2), Part(address, 1), Part(address, 0)>>

Decimal(p) == IF p < 10 THEN <<p>> ELSE IF p < 100 THEN <<p \div 10, p % 10>>
              ELSE <<p \div 100, (p \div 10) % 10, p % 10>>

\* An address printed without a sign, and its NUL, fit the buffer.
ASSUME AddressAssumption ==
    AddressLen \in Nat /\ \A p \in 0..(Base - 1) : 4 * Len(Decimal(p)) + 3 < AddressLen

\* The characters that %d prints, and whether four numbers with their dots and the NUL
\* are more than the buffer holds.
Printed(n) == IF n < 0 THEN 1 + Len(Decimal(-n)) ELSE Len(Decimal(n))
Overruns(parts) ==
    Printed(parts[1]) + Printed(parts[2]) + Printed(parts[3]) + Printed(parts[4]) + 3 >= AddressLen
=============================================================================

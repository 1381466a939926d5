----------------------------- MODULE IPLocation -----------------------------
(***************************************************************************)
(* tools/qqwry-ip: getIPLocation, from an address to the country and area  *)
(* that the database has for it, and the loop of main over its arguments.  *)
(* The search is IPSeeker's, the address EvaIPAddress's.                   *)
(*                                                                         *)
(* A record is chosen when it is read, so a behaviour stands for every     *)
(* file with such records.  An offset within a record is a place and a     *)
(* distance from it: <<"record", 4>> follows the end of the range.  What   *)
(* the search finds elsewhere than at a record reads as Garbage.           *)
(***************************************************************************)
EXTENDS IPSeeker, EvaIPAddress

CONSTANTS
    Bounds,         \* the addresses at which ranges begin and end, and given as numbers
    StringLen,      \* STRING_LEN, 80 in the code
    MaxText, Digits \* the texts given: their length, and the digits in them

ASSUME LocationAssumption ==
    /\ Bounds \subseteq IPs /\ MaxIP = Base * Base * Base * Base - 1
    /\ StringLen \in Nat \ {0} /\ MaxText \in Nat /\ Digits \subseteq 0..9

VARIABLES
    file,       \* "sound", "absent", or "broken": an index offset of the header is -1
    isOpen,     \* ipFile.is_open()
    stage,      \* "idle", "call", "search", "answered" or "undefined"
    query,      \* the argument of getIPLocation: a text or a number
    record,     \* what the record that was read is to say
    answer

search == <<pc, i, j, mOffset, result>>
locationVars == <<vars, file, isOpen, stage, query, record, answer>>

Texts == UNION {[1..n -> Digits \cup {Dot, Other}] : n \in 0..MaxText}
TextOf(a) == Decimal(Part(a, 3)) \o <<Dot>> \o Decimal(Part(a, 2)) \o <<Dot>>
             \o Decimal(Part(a, 1)) \o <<Dot>> \o Decimal(Part(a, 0))

\* Texts that are no addresses are refused before the file is opened; they are tried
\* where there is none.
Queries ==
    {<<"number", a>> : a \in Bounds} \cup {<<"text", TextOf(a)>> : a \in IPs}
    \cup (IF file = "absent" THEN {<<"text", t>> : t \in Texts} ELSE {<<"text", <<Other>>>>})

Address(q) == IF q[1] = "text" THEN getIntIP(q[2]) ELSE q[2]

NoAnswer == <<"none">>

LInit ==
    /\ file \in {"sound", "absent", "broken"}
    /\ last \in IF file = "sound" THEN 0..(MaxEntries - 1) ELSE {0}
    /\ start \in [0..last -> IF file = "sound" THEN Bounds ELSE {0}]
    /\ end \in [0..last -> IF file = "sound" THEN Bounds ELSE {0}]
    /\ ip = 0
    /\ Init
    /\ isOpen = FALSE /\ stage = "idle"
    /\ query = <<"number", 0>> /\ record = NoAnswer /\ answer = NoAnswer

-----------------------------------------------------------------------------
(* Records                                                                 *)

Redirect(mode, to) == <<"redirect", mode, to>>
Text(what, length) == <<"text", what, length>>
Size(item) == IF item[1] = "redirect" THEN 4 ELSE item[3] + 1
Nowhere == <<"zero", 0>>

\* The ways to write a country and an area.
Countries == {"plain", "mode2", "mode1", "mode1mode2"}
Areas == {"plain", "zero", "mode1", "mode2"}
Lengths == {StringLen - 1, StringLen}
Layouts == {l \in [country : Countries, clen : Lengths, area : Areas, alen : Lengths] :
                l.area = "zero" => l.alen = StringLen}

\* The file around a record: what is written at which offset.
File(l) ==
    LET at      == IF l.country \in {"mode1", "mode1mode2"} THEN <<"block", 0>> ELSE <<"record", 4>>
        country == IF l.country \in {"mode2", "mode1mode2"} THEN Redirect(2, <<"country", 0>>)
                   ELSE Text("country", l.clen)
        area    == IF l.area = "plain" THEN Text("area", l.alen)
                   ELSE Redirect(IF l.area = "mode1" THEN 1 ELSE 2,
                                 IF l.area = "zero" THEN Nowhere ELSE <<"area", 0>>)
        place   == <<at[1], at[2] + Size(country)>>
        offsets == {<<"record", 4>>, at, place, <<"country", 0>>, <<"area", 0>>}
    IN  [o \in offsets |-> IF o = at THEN country
                           ELSE IF o = place THEN area
                           ELSE IF o = <<"record", 4>> THEN Redirect(1, at)
                           ELSE Text(o[1], IF o[1] = "area" THEN l.alen ELSE l.clen)]

Garbage == <<"garbage", 0>>
Lost == <<"lost", 0>>
Unknown == <<"Unknow Area", 0>>

IsText(f, o) == o \in DOMAIN f /\ f[o][1] = "text"
IsRedirect(f, o, modes) == o \in DOMAIN f /\ f[o][1] = "redirect" /\ f[o][2] \in modes

\* readString: what does not fit the buffer is cut off, and the stream has failed.
readString(f, o) == IF ~IsText(f, o) THEN Garbage
                    ELSE <<f[o][2], IF f[o][3] < StringLen THEN f[o][3] ELSE StringLen - 1>>
FailsAt(f, o) == IsText(f, o) /\ f[o][3] >= StringLen

\* Where the stream stands after readString(o).
TellAfter(f, o) == IF IsText(f, o) THEN <<o[1], o[2] + Size(f[o])>> ELSE o

readArea(f, o) == IF ~IsRedirect(f, o, {1, 2}) THEN readString(f, o)
                  ELSE IF f[o][3] = Nowhere THEN Unknown
                  ELSE readString(f, f[o][3])

Plus(o, n) == <<o[1], o[2] + n>>

\* A failed stream reads nothing more: the area is empty.
AreaAfter(f, country, o) == IF FailsAt(f, country) THEN Lost ELSE readArea(f, o)

\* Faulty variant of getIPRecord: after a second redirection the area is looked for
\* behind the country.
getIPRecordBehind(f) ==
    LET o      == <<"record", 0>>
        flag   == f[Plus(o, 4)]
        block  == IF IsRedirect(f, Plus(o, 4), {1}) THEN flag[3] ELSE Plus(o, 4)
        string == IF IsRedirect(f, block, {2}) THEN f[block][3] ELSE block
    IN  <<readString(f, string), AreaAfter(f, string, TellAfter(f, string))>>

\* getIPRecord, at the offset of a record
getIPRecord(f) ==
    LET o      == <<"record", 0>>
        flag   == f[Plus(o, 4)]
        block  == flag[3]
    IN  IF IsRedirect(f, Plus(o, 4), {1})
        THEN IF IsRedirect(f, block, {2})
             THEN <<readString(f, f[block][3]), AreaAfter(f, f[block][3], Plus(block, 4))>>
             ELSE <<readString(f, block), AreaAfter(f, block, TellAfter(f, block))>>
        ELSE IF IsRedirect(f, Plus(o, 4), {2})
        THEN <<readString(f, flag[3]), AreaAfter(f, flag[3], Plus(o, 8))>>
        ELSE <<readString(f, Plus(o, 4)), AreaAfter(f, Plus(o, 4), TellAfter(f, Plus(o, 4)))>>

-----------------------------------------------------------------------------
(* The steps of a query                                                    *)

\* main takes the next argument; nothing else of the seeker has changed.
Ask ==
    /\ stage = "idle"
    /\ \E q \in Queries : query' = q /\ ip' = Address(q)
    /\ stage' = "call"
    /\ UNCHANGED <<last, start, end, search, file, isOpen, record, answer>>

Answer(a) == answer' = a /\ stage' = "answered"

\* toString prints into a buffer.  What overruns it may still be answered, or anything
\* may happen: the behaviour is undefined from there on.
Echo ==
    \/ Answer(<<"address", toString(ip)>>)
    \/ Overruns(toString(ip)) /\ stage' = "undefined" /\ UNCHANGED answer

Refuse ==
    /\ stage = "call" /\ query[1] = "text" /\ ~isValid(query[2])
    /\ Echo
    /\ UNCHANGED <<vars, file, isOpen, query, record>>

Accepted == stage = "call" /\ (query[1] = "text" => isValid(query[2]))

\* isQQWryExisted: opening a stream that is open fails, too.
NoFile ==
    /\ Accepted /\ (file = "absent" \/ isOpen)
    /\ Echo
    /\ UNCHANGED <<vars, file, isOpen, query, record>>

\* getIndexOffset fails, and the file is closed.
NoIndex ==
    /\ Accepted /\ ~isOpen /\ file = "broken"
    /\ Echo
    /\ UNCHANGED <<vars, file, isOpen, query, record>>

OpenFile ==
    /\ Accepted /\ ~isOpen /\ file = "sound"
    /\ isOpen' = TRUE /\ stage' = "search"
    /\ UNCHANGED <<vars, file, query, record, answer>>

\* searchIP opens and closes the file for every address it reads.
Search ==
    /\ stage = "search"
    /\ Enter \/ Loop \/ Exit
    /\ isOpen' = FALSE
    /\ UNCHANGED <<file, stage, query, record, answer>>

\* Faulty variant of Locate: the file is left open.
LocateOpen ==
    /\ stage = "search" /\ pc = "return"
    /\ record' \in IF result \in Records THEN Layouts ELSE {NoAnswer}
    /\ Answer(<<"location", IF result \in Records THEN getIPRecord(File(record')) ELSE Garbage>>)
    /\ isOpen' = TRUE
    /\ UNCHANGED <<vars, file, query>>

\* getIPRecord(searchIP(...)), which ends with the file closed.
Locate ==
    /\ stage = "search" /\ pc = "return"
    /\ record' \in IF result \in Records THEN Layouts ELSE {NoAnswer}
    /\ Answer(<<"location", IF result \in Records THEN getIPRecord(File(record')) ELSE Garbage>>)
    /\ isOpen' = FALSE
    /\ UNCHANGED <<vars, file, query>>

\* main prints the answer; the locals of the call are gone.
PrintLocation ==
    /\ stage = "answered" /\ stage' = "idle"
    /\ ip' = 0 /\ query' = <<"number", 0>> /\ record' = NoAnswer /\ answer' = NoAnswer
    /\ pc' = "entry" /\ i' = 0 /\ j' = 0 /\ mOffset' = -1 /\ result' = NoOffset
    /\ UNCHANGED <<last, start, end, file, isOpen>>

Undefined == stage = "undefined" /\ UNCHANGED locationVars

Query == Refuse \/ NoFile \/ NoIndex \/ OpenFile \/ Search \/ Locate
LNext == Ask \/ Query \/ PrintLocation \/ Undefined

\* A call goes on; main may have no further argument.
LSpec == LInit /\ [][LNext]_locationVars /\ WF_locationVars(Query)

-----------------------------------------------------------------------------
(* Properties                                                              *)

\* A text is taken for an address if it has three dots, only digits besides, every number,
\* an absent one counting as 0, is below Base when it is cut down to an int, and not all
\* are 0 then; these are the parts of the address.  A number that no int holds may pass, as
\* in 4294967297.0.0.1, which is taken for 1.0.0.1; one that no long holds does not.
Value(t, n) ==
    LET before(k) == Cardinality({d \in 1..(k - 1) : t[d] = Dot})
        own == {k \in DOMAIN t : t[k] # Dot /\ before(k) = n - 1}
    IN  IF own = {} THEN 0 ELSE Number(SubSeq(t, Min(own), Max(own)))
Held(t, n) == Value(t, n) % IntSpan
IsDotted(t) == /\ Cardinality({k \in DOMAIN t : t[k] = Dot}) = 3
               /\ \A k \in DOMAIN t : t[k] # Other
               /\ \A n \in 1..4 : Value(t, n) <= LongMax /\ Held(t, n) \in 0..(Base - 1)
               /\ \E n \in 1..4 : Held(t, n) # 0
ParsesDotted ==
    stage = "call" /\ query[1] = "text" =>
        /\ isValid(query[2]) <=> IsDotted(query[2])
        /\ IsDotted(query[2]) => \A n \in 1..4 : Part(ip, 4 - n) = Held(query[2], n)

\* "if IP is not valid or the Data file missed then return IP address"
\* (evaipseeker.cpp:273): without a usable file, and only then, a valid address is
\* answered by its own parts, whatever queries the seeker has had before, except that a
\* first part from Base / 2 on is printed as a negative number.  A text that is no
\* address is answered by 0.0.0.0, not by itself.  The one thing that can go wrong is the
\* sign: with it, and only with it, what is printed may overrun the buffer.
EchoesAddress ==
    /\ stage = "answered" =>
         IF query[1] = "text" /\ ~IsDotted(query[2])
         THEN answer = <<"address", <<0, 0, 0, 0>>>>
         ELSE IF file = "sound" THEN answer[1] = "location"
         ELSE /\ answer[1] = "address"
              /\ \A n \in 2..4 : answer[2][n] = Part(ip, 4 - n)
              /\ answer[2][1] \in {Part(ip, 3), Part(ip, 3) - Base}
              /\ answer[2][1] < 0 <=> 2 * ip > MaxIP
    /\ stage = "undefined" => file # "sound" /\ 2 * ip > MaxIP

Fitting(length) == IF length < StringLen THEN length ELSE StringLen - 1

\* An address in a range of the index, but the first of all, is answered by the country
\* and the area of the range's record, however they are reached; an area that is not
\* known says so.  A country longer than the buffer is cut off and loses its area.
LocatesRecord ==
    stage = "answered" /\ answer[1] = "location" /\ last > 0 /\ Holder # {} /\ ip # start[0] =>
        /\ result = Wanted
        /\ answer[2] = <<<<"country", Fitting(record.clen)>>,
                         IF record.clen >= StringLen THEN Lost
                         ELSE IF record.area = "zero" THEN Unknown
                         ELSE <<"area", Fitting(record.alen)>>>>

\* Every query is answered, or its answer overruns the buffer: the search ends, whatever
\* the index.
Answers == stage = "call" ~> stage \in {"answered", "undefined"}
=============================================================================

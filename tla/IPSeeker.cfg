\* Every index of one to four ranges that begin and end at five of the addresses 0.0.0.0 to 1.1.1.1.
CONSTANTS
    MaxEntries = 4
    MaxIP = 15
    Base = 2
    Bounds = {0, 1, 4, 7, 15}
    StringLen = 3
    MaxText = 6
    Digits = {1, 7}
    IntSpan = 16
    LongMax = 127
    AddressLen = 8
SPECIFICATION LSpec
INVARIANTS
    FindsHolder
    ParsesDotted
    EchoesAddress
    LocatesRecord
PROPERTY Answers

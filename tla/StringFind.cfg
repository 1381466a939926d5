\* Every string of up to three characters in every string of up to four, over `1', `F', `a' and `b'.
CONSTANTS
    Chars = {49, 70, 97, 98}
    NUL = 0
    MaxStr = 4
    MaxDst = 3
SPECIFICATION Spec
INVARIANTS
    ReadsInside
    FindsFirst
    CompareAsStrncmp
    ChunksInHex

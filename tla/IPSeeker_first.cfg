\* The first address of an index of two entries.
CONSTANTS
    MaxEntries = 2
    MaxIP = 3
SPECIFICATION Spec
INVARIANT ReturnsRecord

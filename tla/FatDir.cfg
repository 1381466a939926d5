\* Every image of these geometries, each with boot sectors that differ in the reserved
\* sectors, the length and the active copy of the FAT, the kind of FAT, and in whether
\* clusters fill the data area.  The walk is done, or Lua has given up.
CONSTANTS
    Geometries <- MCGeometries
    BufEntries = 3
    StackLimit = 3
    Boots <- MCBoots
    BytesPerSec = 16
    Printed = 3
CHECK_DEADLOCK FALSE
SPECIFICATION FSpec
INVARIANTS
    TableOfImage
    ListsTree
    NamesOwnRun
PROPERTY ShellEnds

------------------------------ MODULE FatShell ------------------------------
(***************************************************************************)
(* lua/fat-shell.lua: the boot sector of an image and what fat.lua derives *)
(* from it, the table of its FAT, and then the walk of FatDir.             *)
(*                                                                         *)
(* An image is sectors: the reserved ones, the copies of the FAT, and the  *)
(* data, whose last whole cluster may be followed by sectors of zeros.     *)
(* What a slot of a FAT holds is known by the copy and the slot.  is_dirty *)
(* and the fields that are only printed are left out.  A read from outside *)
(* of the image gives nil, on which Bytes raises.                          *)
(***************************************************************************)
EXTENDS FatDir

CONSTANTS
    Boots,      \* the boot sectors
    BytesPerSec,
    Printed     \* how many entries fat-shell prints, 15 in the code

EntrySize == 4     \* of a FAT32
DirEntrySize == 32

ASSUME ShellAssumption ==
    /\ Boots \subseteq [SecPerClust : Nat \ {0}, ResSectors : Nat \ {0}, NumFATs : Nat \ {0},
                        FATsecs : Nat \ {0}, ValidFat : Nat \cup {-1}, RootDirEnts : Nat,
                        FSInfo : Nat, NumSectors : Nat]
    \* A sector holds whole entries of a FAT: it has 512 bytes or a multiple of them.
    /\ BytesPerSec \in Nat \ {0} /\ BytesPerSec % EntrySize = 0 /\ Printed \in Nat

VARIABLES
    boot,
    fatents,   \* what the table has for a cluster, or <<>> while there is no table
    stage      \* "boot", "table", "print", "dir" or "raised"

shellVars == <<boot, fatents, stage>>

\* The data area as it is.
DataSectors(b) == b.NumSectors - b.ResSectors - b.NumFATs * b.FATsecs

FInit ==
    /\ DirInit /\ boot \in Boots
    /\ clusters = DataSectors(boot) \div boot.SecPerClust
    /\ perCluster * DirEntrySize = boot.SecPerClust * BytesPerSec
    /\ fatents = <<>> /\ stage = "boot"

Raise == stage' = "raised" /\ UNCHANGED <<boot, fatents>>

\* read_boot with read_fsinfo.  Without FLAG_FAT32 there is no field flags, and `&' of
\* nil raises.
ReadBoot ==
    /\ stage = "boot"
    /\ IF boot.RootDirEnts = 0 /\ boot.FSInfo < boot.NumSectors
         THEN stage' = "table" /\ UNCHANGED <<boot, fatents>>
         ELSE Raise
    /\ UNCHANGED dirVars

Ceil(n, d) == (n + d - 1) \div d

\* The division of the code is exact, and ceil makes one sector of no entries at all.
ClusterOffset(b) ==
    Ceil(b.RootDirEnts * DirEntrySize + BytesPerSec - 1, BytesPerSec)
      + b.ResSectors + b.NumFATs * b.FATsecs - CLUST_FIRST * b.SecPerClust

NumClusters(b) == (b.NumSectors - ClusterOffset(b)) \div b.SecPerClust

\* Bytes reads n bytes at an offset of a buffer only if there is one more, counted from 1.
Reads(length, offset, n) == length > offset + 1 + n

\* What is found at an offset of the image, counted in FATs: past the copies it is data.
Slot(b, offset) ==
    LET size == b.FATsecs * BytesPerSec
        from == offset - b.ResSectors * BytesPerSec
    IN  [copy |-> from \div size, slot |-> (from % size) \div EntrySize]

\* Faulty variant of FatOffset: the first copy, whichever is active.
FatOffsetFirst(b) == b.ResSectors * BytesPerSec

FatOffset(b) ==
    (b.ResSectors + (IF b.ValidFat >= 0 THEN b.ValidFat ELSE 0) * b.FATsecs) * BytesPerSec

Free == [copy |-> -1, slot |-> 0]

\* How much of a FAT F.read finds, if the active one is a copy or not.
FatLength(b) ==
    LET rest == b.NumSectors * BytesPerSec - FatOffset(b)
    IN  IF rest < b.FATsecs * BytesPerSec THEN rest ELSE b.FATsecs * BytesPerSec

\* read_fat: clusters 0 and 1 are 0, and so is what Bytes does not read.
ReadFat ==
    /\ stage = "table"
    /\ IF FatLength(boot) <= 0 /\ NumClusters(boot) > CLUST_FIRST THEN Raise
       ELSE /\ fatents' = [c \in 0..(NumClusters(boot) - 1) \cup {0, 1} |->
                             IF c >= CLUST_FIRST /\ Reads(FatLength(boot), EntrySize * c, EntrySize)
                             THEN Slot(boot, FatOffset(boot) + EntrySize * c) ELSE Free]
            /\ stage' = "print" /\ UNCHANGED boot
    /\ UNCHANGED dirVars

\* fat-shell prints the first entries, and indexes nil if there are not so many.  The
\* walk uses nothing else of the table and the boot sector: they are forgotten here.
PrintFat ==
    /\ stage = "print"
    /\ IF \A c \in 0..(Printed - 1) : c \in DOMAIN fatents
       THEN stage' = "dir" /\ fatents' = <<>> /\ boot' = <<>>
       ELSE Raise
    /\ UNCHANGED dirVars

ReadDir == stage = "dir" /\ DirNext /\ UNCHANGED shellVars

FNext == ReadBoot \/ ReadFat \/ PrintFat \/ ReadDir

FSpec == FInit /\ [][FNext]_<<dirVars, shellVars>> /\ WF_<<dirVars, shellVars>>(FNext)

-----------------------------------------------------------------------------
(* Properties                                                              *)

\* The table has, for every cluster of the image and for no more, the slot of the active
\* FAT; but the last cluster is missing where whole clusters fill the data area, and the
\* last slot of a FAT comes out as free, as do clusters that a FAT has no slot for.  If
\* the active FAT is no copy, it has what lies in its place, as far as the image goes.
TableOfImage ==
    stage = "print" =>
        LET lastCluster == CLUST_FIRST + clusters - 1
            filled == DataSectors(boot) = clusters * boot.SecPerClust
            active == IF boot.ValidFat = -1 THEN 0 ELSE boot.ValidFat
            rest == boot.NumSectors - boot.ResSectors - active * boot.FATsecs
            slots == ((IF active < boot.NumFATs \/ rest > boot.FATsecs THEN boot.FATsecs ELSE rest)
                       * BytesPerSec) \div EntrySize
        IN  /\ DOMAIN fatents = 0..(IF filled THEN lastCluster - 1 ELSE lastCluster)
            /\ \A c \in DOMAIN fatents \ {0, 1} :
                 fatents[c] = IF c >= slots - 1 THEN Free ELSE [copy |-> active, slot |-> c]

\* fat-shell comes to its end: the walk is done, or fills Lua's stack since directories
\* form a cycle, or an error is raised, which happens to images that are not FAT32, that
\* have hardly a cluster, or whose FSInfo sector or active FAT is outside of the image,
\* and to no other.
ShellEnds ==
    <>(\/ phase = "done"
       \/ phase = "overflow" /\ ~Acyclic
       \/ /\ stage = "raised"
          /\ \/ boot.RootDirEnts > 0 \/ clusters < Printed - 1
             \/ boot.FSInfo >= boot.NumSectors
             \/ boot.ResSectors + boot.ValidFat * boot.FATsecs >= boot.NumSectors)
=============================================================================

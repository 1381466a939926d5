------------------------------ MODULE MCFatDir ------------------------------
(* Images of clusters as large as the buffer, larger, and smaller, with sectors of half *)
(* a directory entry or of four slots of the FAT.                                       *)
EXTENDS FatShell

MCGeometries == {<<3, 2>>, <<1, 4>>, <<1, 3>>}

Boot(secs, res, fats, fatsecs, valid, ents, fsinfo, data) ==
    [SecPerClust |-> secs, ResSectors |-> res, NumFATs |-> fats, FATsecs |-> fatsecs,
     ValidFat |-> valid, RootDirEnts |-> ents, FSInfo |-> fsinfo, NumSectors |-> res + fats * fatsecs + data]

\* A FAT may be too short, full, or have room.  There are two copies; the active one may
\* be neither, but lie in the data, across the end of the image, or beyond, and the
\* FSInfo sector may be the last one of the larger image, or beyond.
MCBoots ==
    {b \in UNION {{Boot(2 * g[2], res, 2, Ceil(EntrySize * (CLUST_FIRST + g[1]), BytesPerSec) + more,
                 valid, ents, fsinfo, 2 * g[1] * g[2] + over) :
              res \in {1, 2}, more \in -1..1, valid \in {-1, 0, 1, 2, 8, 15}, ents \in {0, 16},
              fsinfo \in {1, 15}, over \in {0, 1}} :
           g \in MCGeometries} : b.FATsecs > 0}
=============================================================================

------------------------------- MODULE FatDir -------------------------------
(***************************************************************************)
(* lua/fat.lua, read_dir and parse_long_name, as lua/fat-shell.lua calls   *)
(* them: the walk over the directories of a FAT32 image.  A step is one    *)
(* turn of the loop of the innermost call, and stack holds the calls.      *)
(*                                                                         *)
(* The image is the sequence of the 32 byte entries of its data clusters.  *)
(* It can be any, and what an entry is is chosen when it is first read.    *)
(* An entry is known by what the walk looks at; characters and the other   *)
(* fields are left out.  Clusters are numbered from CLUST_FIRST, which is  *)
(* the root.  An entry never names a cluster below that: such an address   *)
(* would lie in the FAT.                                                   *)
(***************************************************************************)
EXTENDS Integers, Sequences, FiniteSetsExt

CONSTANTS
    Geometries,   \* pairs: how many clusters an image has, and entries per cluster
    BufEntries,   \* the entries read_dir reads, 64 in the code
    StackLimit    \* how deep Lua lets calls nest

ASSUME FatAssumption ==
    /\ Geometries \subseteq (Nat \ {0}) \X (Nat \ {0})
    /\ BufEntries \in Nat \ {0} /\ StackLimit \in Nat \ {0}

VARIABLES
    clusters, perCluster,
    image,
    stack,     \* of the calls: where the buffer begins, idx, longname_idx, dir_depth
    shown,     \* the lines printed: the place of the entry, its depth, where its name begins
    phase         \* "walk", "done" or "overflow"

dirVars == <<clusters, perCluster, image, stack, shown, phase>>

CLUST_FIRST == 2

\* An entry nobody has looked at yet.
Unread == [kind |-> "unread", bit6 |-> FALSE]

\* bit6: of the first byte.  It marks the last part of a long name, which comes
\* first, and is set in letters and in FLAG_DELETE but not in digits.
End == [kind |-> "end", bit6 |-> FALSE]
Long(bit) == [kind |-> "long", bit6 |-> bit]
File(bit) == [kind |-> "file", bit6 |-> bit]
Dir(bit, c) == [kind |-> "dir", bit6 |-> bit, cluster |-> c]
DotDir == [kind |-> "dotdir", bit6 |-> FALSE, cluster |-> CLUST_FIRST]

\* A directory may name the cluster after the last one.
Entries(n) ==
    {End, DotDir} \cup UNION {{Long(b), File(b)} \cup {Dir(b, c) : c \in CLUST_FIRST..(CLUST_FIRST + n)} :
                              b \in BOOLEAN}

\* F.read: what there is of BufEntries entries from place p on, its last place.
LastRead(p) == Min({p + BufEntries - 1, Len(image)})

ClusterAddr(c) == (c - CLUST_FIRST) * perCluster + 1
Frame(c, depth) == [addr |-> ClusterAddr(c), idx |-> ClusterAddr(c), long |-> 0, depth |-> depth]

DirInit ==
    \E g \in Geometries :
        /\ clusters = g[1] /\ perCluster = g[2]
        /\ image = [p \in 1..(g[1] * g[2]) |-> Unread]
        /\ stack = <<[addr |-> 1, idx |-> 1, long |-> 0, depth |-> 0]>>
        /\ shown = <<>> /\ phase = "walk"

Depth == Len(stack)
Top == stack[Depth]
InBuffer == Top.idx <= LastRead(Top.addr)

\* The loop looks at e.
Looks(e) ==
    /\ phase = "walk" /\ InBuffer
    /\ image[Top.idx] \in {Unread, e}
    /\ image' = [image EXCEPT ![Top.idx] = e]

\* The call returns, at the end mark or at the end of the buffer.
DirReturn ==
    /\ phase = "walk"
    /\ IF InBuffer THEN Looks(End) ELSE UNCHANGED image
    /\ stack' = SubSeq(stack, 1, Depth - 1)
    /\ phase' = IF Depth = 1 THEN "done" ELSE "walk"
    /\ UNCHANGED <<clusters, perCluster, shown>>

Turn(long) == [stack EXCEPT ![Depth].idx = @ + 1, ![Depth].long = long]

LongEntry(e) ==
    /\ e.kind = "long" /\ Looks(e)
    /\ stack' = Turn(Top.long + 1)
    /\ UNCHANGED <<clusters, perCluster, shown, phase>>

\* Faulty variant of NameStart: bit 6 is looked for before the part is taken.
NameStartLate(addr, p) == Max({addr} \cup {k + 1 : k \in {j \in addr..(p - 1) : image[j].bit6}})

\* parse_long_name: the parts of the name go back from the entry before p to the
\* nearest one with bit 6 set, whatever it is, or to the begin of the buffer.
NameStart(addr, p) == Max({addr} \cup {k \in addr..(p - 1) : image[k].bit6})

\* Faulty variant of AfterEntry: longname_idx is not reset.
AfterEntryCounted == Turn(Top.long)

AfterEntry == Turn(0)

Line ==
    [place |-> Top.idx, depth |-> Top.depth,
     name |-> IF Top.long > 0 THEN NameStart(Top.addr, Top.idx) ELSE Top.idx]

Show(e) == shown' = IF e.kind = "dotdir" THEN shown ELSE Append(shown, Line)

\* Faulty variant of Descends: `.' and `..' are directories like others.
DescendsIntoDots(e) == e.kind \in {"dir", "dotdir"}

\* Past the image F.read returns nil, and so does read_dir.
Descends(e) == e.kind = "dir" /\ e.cluster < CLUST_FIRST + clusters

\* Faulty variant of CallDepth: dir_depth is passed on as it is.
CallDepthSame(depth) == depth

CallDepth(depth) == depth + 1

PlainEntry(e) ==
    /\ e.kind \notin {"end", "long"} /\ ~Descends(e) /\ Looks(e)
    /\ Show(e) /\ stack' = AfterEntry
    /\ UNCHANGED <<clusters, perCluster, phase>>

\* The loop goes on with the next entry when the call returns.
SubDirectory(e) ==
    /\ Descends(e) /\ Looks(e)
    /\ Show(e)
    /\ IF Depth < StackLimit
         THEN stack' = Append(AfterEntry, Frame(e.cluster, CallDepth(Top.depth))) /\ UNCHANGED phase
         ELSE phase' = "overflow" /\ UNCHANGED stack
    /\ UNCHANGED <<clusters, perCluster>>

DirNext ==
    \/ DirReturn
    \/ \E e \in Entries(clusters) : LongEntry(e) \/ PlainEntry(e) \/ SubDirectory(e)

-----------------------------------------------------------------------------
(* Properties                                                              *)

\* The entries of the directory that begins in cluster c, as the code reads them,
\* and the directories among them.
Place(c) == ClusterAddr(c)..LastRead(ClusterAddr(c))
Listed(c) == {p \in Place(c) : \A q \in ClusterAddr(c)..p : image[q].kind # "end"}
Clusters == CLUST_FIRST..(CLUST_FIRST + clusters - 1)
Children(c) == {image[p].cluster : p \in {q \in Listed(c) : image[q].kind = "dir"}} \cap Clusters

\* The clusters that are reached from those of set S: whatever holds these and, with a
\* directory, its subdirectories, holds them.
ReachedFrom(S) ==
    {c \in Clusters : \A T \in SUBSET Clusters :
        S \subseteq T /\ (\A d \in T : Children(d) \subseteq T) => c \in T}

Reached == ReachedFrom({CLUST_FIRST})
Acyclic == \A c \in Reached : c \notin ReachedFrom(Children(c))

\* A sound image: every directory ends within its cluster and what the code reads of
\* it, and no two entries name the same cluster.
Ended(c) ==
    \/ \E p \in Place(c) : p < ClusterAddr(c + 1) /\ image[p].kind = "end"
    \/ LastRead(ClusterAddr(c)) = ClusterAddr(c + 1) - 1
DirPlaces == {p \in UNION {Listed(c) : c \in Reached} : image[p].kind = "dir"}
Sound ==
    /\ \A c \in Reached : Ended(c)
    /\ \A p, q \in DirPlaces : p # q => image[p].cluster # image[q].cluster
    /\ CLUST_FIRST \notin {image[p].cluster : p \in DirPlaces}

\* Of a sound image the walk prints every file and directory that can be reached,
\* each once, with the depth it has in the tree.
ListsTree ==
    phase = "done" /\ Sound =>
        /\ {shown[k].place : k \in 1..Len(shown)} =
               {p \in UNION {Listed(c) : c \in Reached} : image[p].kind \in {"file", "dir"}}
        /\ \A j, k \in 1..Len(shown) : shown[j].place = shown[k].place => j = k
        /\ \A k \in 1..Len(shown) :
             IF shown[k].place \in Listed(CLUST_FIRST) THEN shown[k].depth = 0
             ELSE \E j \in 1..(k - 1) :
                    /\ image[shown[j].place].kind = "dir"
                    /\ shown[k].place \in Listed(image[shown[j].place].cluster)
                    /\ shown[k].depth = shown[j].depth + 1

\* An entry right after a whole long name, its last part first and marked, is printed
\* with this name and no part of another; one with no long entry right before it, with
\* its own.  What is printed after parts that have lost their first one is not said.
NamesOwnRun ==
    LET reached == Reached
    IN  phase # "walk" => \A k \in 1..Len(shown) :
        LET p == shown[k].place
            Directories == {c \in reached : p \in Listed(c)}
            Name(r) == /\ image[r].kind = "long" /\ image[r].bit6
                       /\ \A q \in (r + 1)..(p - 1) : image[q].kind = "long" /\ ~image[q].bit6
        IN  /\ \A r \in 1..(p - 1) :
                 Name(r) /\ (\A c \in Directories : r \in Listed(c)) => shown[k].name = r
            /\ (\A c \in Directories : p - 1 \in Listed(c) => image[p - 1].kind # "long")
                 => shown[k].name = p
=============================================================================

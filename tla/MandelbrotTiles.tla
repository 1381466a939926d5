--------------------------- MODULE MandelbrotTiles ---------------------------
(***************************************************************************)
(* lisp/mandelbrot/mandelbrot-class.rkt, get-bytes, with the places (OS    *)
(* processes) of mandelbrot-worker.rkt that compute the four tiles of the  *)
(* image.                                                                  *)
(*                                                                         *)
(* The sides of a tile are width / 2 and height / 2, exact fractions in    *)
(* Racket.  All coordinates are doubled here: pixel (x, y) is at <<2x, 2y>>*)
(* and byte offsets are counted in half pixels (2 bytes), the unit all of  *)
(* them are multiples of.  The color of a pixel is the point it was        *)
(* computed for.                                                           *)
(***************************************************************************)
EXTENDS Integers

CONSTANT MaxSide    \* bound on width and height

ASSUME TilesAssumption == MaxSide \in Nat \ {0}

VARIABLES
    width, height,
    pc,          \* of the main place: "create", "get", "wait", "done" or "raised"
    tile,        \* the tile it is at
    place,       \* "none", "running", "put" (its lines are in the channel),
                 \* "exited", or "dead" by an exception
    bytes        \* m-bytes*

tileVars == <<width, height, pc, tile, place, bytes>>

count == 2
Tiles == 0..(count * count - 1)
Column(t) == t \div count       \* r
Row(t) == t % count             \* c

Uncomputed == <<"uncomputed">>
Color(x, y) == <<"color", x, y>>
Buffer == 0..(2 * width * height - 1)

TInit ==
    /\ width \in 1..MaxSide /\ height \in 1..MaxSide
    /\ pc = "create" /\ tile = 0
    /\ place = [t \in Tiles |-> "none"]
    /\ bytes = [b \in Buffer |-> Uncomputed]

CreatePlace ==
    /\ pc = "create"
    /\ place' = [place EXCEPT ![tile] = "running"]
    /\ IF tile + 1 \in Tiles THEN tile' = tile + 1 /\ UNCHANGED pc
                             ELSE tile' = 0 /\ pc' = "get"
    /\ UNCHANGED <<width, height, bytes>>

\* The doubled coordinates in-range goes through from edge k * side / 2 on.
Edge(side, k) == side * k

Points(side) == (side + 1) \div 2

\* Faulty variant of PlaceDies: the steps are computed from the points of the tile.
PlaceDiesEarly(t) ==
    /\ place[t] = "running" /\ (Points(width) = 1 \/ Points(height) = 1)
    /\ place' = [place EXCEPT ![t] = "dead"]
    /\ UNCHANGED <<width, height, pc, tile, bytes>>

\* place-main divides by width - 1 and height - 1 before it computes anything.
PlaceDies(t) ==
    /\ place[t] = "running" /\ (width = 1 \/ height = 1)
    /\ place' = [place EXCEPT ![t] = "dead"]
    /\ UNCHANGED <<width, height, pc, tile, bytes>>

PlacePuts(t) ==
    /\ place[t] = "running" /\ width > 1 /\ height > 1
    /\ place' = [place EXCEPT ![t] = "put"]
    /\ UNCHANGED <<width, height, pc, tile, bytes>>

PlaceExits(t) ==
    /\ place[t] = "put"
    /\ place' = [place EXCEPT ![t] = "exited"]
    /\ UNCHANGED <<width, height, pc, tile, bytes>>

\* byte-line-pos, the half pixel where line l of tile t begins.
LinePos(t, l) == width * Edge(height, Row(t)) + Edge(width, Column(t)) + 2 * width * l

\* The half pixels of line l, and what bytes-copy! writes to them.
LineAt(t, l) == LinePos(t, l) .. (LinePos(t, l) + 2 * Points(width) - 1)
LineColor(t, l, b) ==
    Color(Edge(width, Column(t)) + 2 * ((b - LinePos(t, l)) \div 2),
          Edge(height, Row(t)) + 2 * l)

\* The lines up to the first one that does not fit; bytes-copy! raises on that.
Lines == 0..(Points(height) - 1)
Fits(t, l) == LineAt(t, l) \subseteq Buffer
Copied(t) == {l \in Lines : \A k \in 0..l : Fits(t, k)}

\* Faulty variant of Render: the tile is taken for its mirror image.
RenderMirrored(t) ==
    LET m == count * Row(t) + Column(t)
    IN  bytes' = [b \in Buffer |->
            IF \E l \in Copied(m) : b \in LineAt(m, l)
            THEN LET l == CHOOSE k \in Copied(m) : b \in LineAt(m, k)
                 IN  LineColor(t, l, b)
            ELSE bytes[b]]

\* No two lines of a tile overlap, for Points(width) <= width.
Render(t) ==
    bytes' = [b \in Buffer |->
        IF \E l \in Copied(t) : b \in LineAt(t, l)
        THEN LET l == CHOOSE k \in Copied(t) : b \in LineAt(t, k)
             IN  LineColor(t, l, b)
        ELSE bytes[b]]

\* bloop: the main place blocks until the lines of the tile are there.
Get ==
    /\ pc = "get" /\ place[tile] \in {"put", "exited"}
    /\ Render(tile)
    /\ pc' = IF Copied(tile) = Lines THEN "wait" ELSE "raised"
    /\ UNCHANGED <<width, height, tile, place>>

\* Faulty variant of PlaceWait: the rest of the tiles is given up.
PlaceWaitOnce ==
    /\ pc = "wait" /\ place[tile] = "exited"
    /\ pc' = "done"
    /\ UNCHANGED <<width, height, tile, place, bytes>>

PlaceWait ==
    /\ pc = "wait" /\ place[tile] = "exited"
    /\ IF tile + 1 \in Tiles THEN tile' = tile + 1 /\ pc' = "get"
                             ELSE UNCHANGED tile /\ pc' = "done"
    /\ UNCHANGED <<width, height, place, bytes>>

Main == CreatePlace \/ Get \/ PlaceWait
Place(t) == PlaceDies(t) \/ PlacePuts(t) \/ PlaceExits(t)

TNext == Main \/ \E t \in Tiles : Place(t)

\* The operating system runs every process.
TSpec == TInit /\ [][TNext]_tileVars
FairTSpec == TSpec /\ WF_tileVars(Main) /\ \A t \in Tiles : WF_tileVars(Place(t))

-----------------------------------------------------------------------------
(* Properties                                                              *)

\* When get-bytes returns, every pixel has been computed, for the point it shows,
\* and no tile has been written over another.
ImageWhole ==
    pc = "done" =>
        \A x \in 0..(width - 1), y \in 0..(height - 1), half \in {0, 1} :
            bytes[2 * (width * y + x) + half] = Color(2 * x, 2 * y)

\* get-bytes returns if both sides are even and raises if one is odd, since the half
\* pixel too many in the last line does not fit; but with a side of 1 its places may die
\* of a division by zero: their channels then stay silent and it waits for ever.
EndsBySides ==
    width > 1 /\ height > 1 =>
        <>(pc = IF width % 2 = 0 /\ height % 2 = 0 THEN "done" ELSE "raised")
=============================================================================

--------------------------- MODULE MandelbrotProof ---------------------------
(***************************************************************************)
(* Proofs about MandelbrotView, for any number of viewers, any viewports   *)
(* and any sizes, and about MandelbrotTiles, for images of any sides.      *)
(***************************************************************************)
EXTENDS MandelbrotView, MandelbrotTiles, TLAPS

Images == {Blank} \cup {<<"image", v, s, n>> : v \in Viewports, s \in EvenSizes, n \in Limits}

Fields == [viewport : Viewports, size : Sizes, maxIteration : Limits,
           viewportChanged : BOOLEAN, sizeChanged : BOOLEAN,
           bitmap : Images, canvas : Images, attached : BOOLEAN]

\* The bitmap is that of the present fields, or at a viewport in Fixed that of another limit.
Current(m) ==
    \/ m.bitmap = Image(m)
    \/ m.viewport \in Fixed /\ \E n \in Limits : m.bitmap = Image(SetMaxIter(m, n))

\* A viewer between two events: unless its last computation raised, it has no change
\* left for refresh, and the canvas holds the bitmap of its mandelbrot%.
Settled(m, f) ==
    /\ m \in Fields /\ f \in BOOLEAN
    /\ ~f => ~Dirty(m) /\ m.attached /\ Current(m)

VInv ==
    /\ view \in [1..Viewers -> Fields] /\ failed \in [1..Viewers -> BOOLEAN]
    /\ \A i \in 1..Viewers : Settled(view[i], failed[i])
    /\ \A i \in 1..Viewers : i < Viewers => view[i].viewport \notin Fixed

-----------------------------------------------------------------------------
(* The fields of a viewer                                                  *)

\* An image with its limit left open: fields other than the viewport and the size do not count.
LEMMA SameImage ==
    ASSUME NEW m \in Fields, NEW z \in Fields,
           z.viewport = m.viewport, z.size = m.size
    PROVE  \A n \in Limits : Image(SetMaxIter(z, n)) = Image(SetMaxIter(m, n))
<1> TAKE n \in Limits
<1>1. Image(SetMaxIter(m, n)) = <<"image", m.viewport, m.size, n>>
  BY DEF Image, SetMaxIter, Fields
<1>2. Image(SetMaxIter(z, n)) = <<"image", z.viewport, z.size, n>>
  BY DEF Image, SetMaxIter, Fields
<1> QED
  BY <1>1, <1>2

\* The limits that zooming in and out leads to are those that steps from the minimum
\* reach, and never far beyond the maximum.
LEMMA LimitsReached ==
    ASSUME NEW n \in Limits, NEW in \in BOOLEAN
    PROVE  NextIteration(n, in) \in Limits
<1>1. n \in 50..1080 /\ (n - 50) % 80 = 0
  BY DEF Limits, minimumIteration, maximumIteration, stepIteration
<1>2. CASE in
  BY <1>1, <1>2 DEF Limits, NextIteration, minimumIteration, maximumIteration, stepIteration
<1>3. CASE ~in
  BY <1>1, <1>3 DEF Limits, NextIteration, minimumIteration, maximumIteration, stepIteration
<1> QED
  BY <1>2, <1>3

\* set-viewport and the new limit leave a viewer to be refreshed, if its viewport is new.
LEMMA ViewportSet ==
    ASSUME NEW m \in Fields, NEW v \in Viewports
    PROVE  LET z == SetViewport(m, v)
           IN  /\ z \in Fields /\ z.viewport = v
               /\ v # m.viewport \/ m.viewportChanged => z.viewportChanged
BY DEF SetViewport, Fields

\* A zoom to another viewport leaves a viewer to be refreshed.
LEMMA ZoomDirties ==
    ASSUME NEW m \in Fields, NEW v \in Viewports, NEW in \in BOOLEAN, v # m.viewport
    PROVE  /\ Zoom(m, in, v) \in Fields /\ Dirty(Zoom(m, in, v))
           /\ Zoom(m, in, v).viewport = v
<1> DEFINE w == SetViewport(m, v)
           n == NextIteration(m.maxIteration, in)
<1>1. w \in Fields /\ w.viewportChanged /\ w.viewport = v
  BY ViewportSet
<1>2. n \in Limits
  BY LimitsReached DEF Fields
<1>3. Zoom(m, in, v) = [w EXCEPT !.maxIteration = n]
  BY DEF Zoom
<1> HIDE DEF w, n
<1> QED
  BY <1>1, <1>2, <1>3 DEF Fields, Dirty

\* A zoom of a viewport in Fixed changes the limit alone.
LEMMA ZoomFixed ==
    ASSUME NEW m, NEW f, Settled(m, f), NEW in \in BOOLEAN, m.viewport \in Fixed
    PROVE  Settled(Zoom(m, in, m.viewport), f)
<1> DEFINE n == NextIteration(m.maxIteration, in)
           z == Zoom(m, in, m.viewport)
<1>1. m \in Fields
  BY DEF Settled
<1>2. n \in Limits
  BY <1>1, LimitsReached DEF Fields
<1>3. z = [m EXCEPT !.maxIteration = n]
  BY DEF Zoom, SetViewport
<1> HIDE DEF n, z
<1>4. /\ z \in Fields /\ z.viewport = m.viewport /\ z.size = m.size
      /\ z.bitmap = m.bitmap /\ z.attached = m.attached
      /\ z.viewportChanged = m.viewportChanged /\ z.sizeChanged = m.sizeChanged
  BY <1>1, <1>2, <1>3 DEF Fields
<1>5. Image(m) = Image(SetMaxIter(m, m.maxIteration)) /\ m.maxIteration \in Limits
  BY <1>1 DEF Image, SetMaxIter, Fields
<1>6. Current(m) => Current(z)
  BY <1>1, <1>4, <1>5, SameImage DEF Current
<1> QED
  BY <1>4, <1>6 DEF Settled, Dirty, z

\* A click in a viewer leaves it to be refreshed, or settled.
LEMMA ZoomSettles ==
    ASSUME NEW m \in Fields, NEW f \in BOOLEAN, Settled(m, f), NEW in \in BOOLEAN,
           NEW v \in Zoomed(m.viewport)
    PROVE  Zoom(m, in, v) \in Fields /\ (Dirty(Zoom(m, in, v)) \/ Settled(Zoom(m, in, v), f))
<1>1. CASE m.viewport \in Fixed
  <2>1. v = m.viewport
    BY <1>1 DEF Zoomed
  <2> QED
    BY <1>1, <2>1, ZoomFixed DEF Settled
<1>2. CASE m.viewport \notin Fixed
  BY <1>2, ZoomDirties DEF Zoomed
<1> QED
  BY <1>1, <1>2

\* transfer-viewport-to-target
LEMMA TransferFields ==
    ASSUME NEW m \in Fields, NEW target \in Fields
    PROVE  Transferred(m, target) \in Fields
<1> DEFINE w == SetViewport(target, m.viewport)
<1>1. w \in Fields
  BY ViewportSet DEF Fields
<1>2. Transferred(m, target) = [w EXCEPT !.maxIteration = m.maxIteration]
  BY DEF Transferred, SetMaxIter
<1> HIDE DEF w
<1> QED
  BY <1>1, <1>2 DEF Fields

\* A new size leaves a viewer to be refreshed, its present size as it is.
LEMMA SizeSet ==
    ASSUME NEW m \in Fields, NEW s \in Sizes
    PROVE  LET z == SetViewsize(m, s)
           IN  z \in Fields /\ (z = m \/ Dirty(z)) /\ z.viewport = m.viewport
<1> DEFINE z == SetViewsize(m, s)
<1>1. CASE s = m.size
  BY <1>1 DEF SetViewsize
<1>2. CASE s # m.size
  <2> DEFINE w == [m EXCEPT !.size = s, !.sizeChanged = TRUE]
  <2>1. z = [w EXCEPT !.bitmap = Blank, !.canvas = Shown(m), !.attached = FALSE]
    BY <1>2 DEF SetViewsize
  <2>2. w \in Fields /\ w.sizeChanged /\ w.viewport = m.viewport
    BY DEF Fields
  <2>3. Blank \in Images /\ Shown(m) \in Images
    BY DEF Images, Shown, Fields
  <2> HIDE DEF w, z
  <2>4. z \in Fields /\ z.sizeChanged = w.sizeChanged /\ z.viewport = w.viewport
    BY <2>1, <2>2, <2>3 DEF Fields
  <2> QED
    BY <2>2, <2>4 DEF Dirty, z
<1> QED
  BY <1>1, <1>2

\* update-view settles a viewer that is to be refreshed, and one that is settled.
LEMMA UpdateSettles ==
    ASSUME NEW m \in Fields, NEW f \in BOOLEAN, Dirty(m) \/ Settled(m, f)
    PROVE  Settled(UpdateView(m), IF Dirty(m) THEN m.size \in OddSizes ELSE f)
<1> DEFINE refreshed == [m EXCEPT !.viewportChanged = FALSE, !.sizeChanged = FALSE]
<1>1. /\ refreshed \in Fields /\ ~refreshed.viewportChanged /\ ~refreshed.sizeChanged
      /\ refreshed.viewport = m.viewport /\ refreshed.size = m.size
      /\ refreshed.maxIteration = m.maxIteration
  BY DEF Fields
<1>2. CASE ~Dirty(m)
  <2> DEFINE z == [m EXCEPT !.attached = TRUE]
  <2>1. UpdateView(m) = z
    BY <1>2 DEF UpdateView
  <2>2. /\ z \in Fields /\ z.attached /\ z.bitmap = m.bitmap
        /\ z.viewport = m.viewport /\ z.size = m.size /\ z.maxIteration = m.maxIteration
        /\ z.viewportChanged = m.viewportChanged /\ z.sizeChanged = m.sizeChanged
    BY DEF Fields
  <2> HIDE DEF z
  <2> QED
    BY <1>2, <2>1, <2>2, SameImage DEF Settled, Current, Dirty, Image
<1>3. CASE Dirty(m) /\ m.size \in OddSizes
  <2>1. UpdateView(m) = refreshed
    BY <1>3 DEF UpdateView
  <2> QED
    BY <1>1, <1>3, <2>1 DEF Settled
<1>4. CASE Dirty(m) /\ m.size \notin OddSizes
  <2> DEFINE z == [refreshed EXCEPT !.bitmap = Image(m), !.attached = TRUE]
  <2>1. UpdateView(m) = z
    BY <1>4 DEF UpdateView
  <2>2. Image(m) \in Images
    BY <1>4 DEF Fields, Sizes, Images, Image
  <2> HIDE DEF refreshed
  <2>3. z \in Fields
    BY <1>1, <2>2 DEF Fields
  <2>4. /\ z.attached /\ z.bitmap = Image(m)
        /\ z.viewport = m.viewport /\ z.size = m.size /\ z.maxIteration = m.maxIteration
        /\ ~z.viewportChanged /\ ~z.sizeChanged
    BY <1>1 DEF Fields
  <2> HIDE DEF z
  <2>5. Image(z) = Image(m) /\ ~Dirty(z)
    BY <2>4 DEF Image, Dirty
  <2>6. Settled(z, FALSE)
    BY <2>3, <2>4, <2>5 DEF Settled, Current
  <2>7. (IF Dirty(m) THEN m.size \in OddSizes ELSE f) = FALSE
    BY <1>4
  <2> QED
    BY <2>1, <2>6, <2>7
<1> QED
  BY <1>2, <1>3, <1>4

\* update-view does not touch the viewport.
LEMMA UpdateKeeps ==
    ASSUME NEW m \in Fields PROVE UpdateView(m).viewport = m.viewport
BY DEF UpdateView, Fields

-----------------------------------------------------------------------------
(* The events                                                              *)

\* An event in one viewer.
LEMMA OneEvent ==
    ASSUME VInv, NEW i \in 1..Viewers, NEW m \in Fields, Dirty(m) \/ Settled(m, failed[i]),
           view' = [view EXCEPT ![i] = UpdateView(m)],
           failed' = [failed EXCEPT ![i] = FailedAfter(m, i)],
           i < Viewers => m.viewport \notin Fixed
    PROVE  VInv'
<1>1. Settled(UpdateView(m), FailedAfter(m, i))
  BY UpdateSettles DEF FailedAfter, VInv
<1>2. UpdateView(m) \in Fields /\ FailedAfter(m, i) \in BOOLEAN
  BY <1>1 DEF Settled
<1>3. view' \in [1..Viewers -> Fields] /\ failed' \in [1..Viewers -> BOOLEAN]
  BY <1>2 DEF VInv
<1>4. ASSUME NEW k \in 1..Viewers PROVE Settled(view'[k], failed'[k])
  BY <1>1 DEF VInv
<1>5. UpdateView(m).viewport = m.viewport
  BY UpdateKeeps
<1>6. ASSUME NEW k \in 1..Viewers, k < Viewers PROVE view'[k].viewport \notin Fixed
  BY <1>5, <1>6 DEF VInv
<1> QED
  BY <1>3, <1>4, <1>6 DEF VInv, Settled, Current, Dirty, Image

\* on-size
LEMMA ResizeStep ==
    ASSUME VInv, NEW i \in 1..Viewers, NEW s \in Sizes, Resize(i, s) PROVE VInv'
<1> DEFINE m == SetViewsize(view[i], s)
<1>1. view[i] \in Fields /\ Settled(view[i], failed[i])
  BY DEF VInv
<1>2. m \in Fields /\ (m = view[i] \/ Dirty(m)) /\ m.viewport = view[i].viewport
  BY <1>1, SizeSet
<1>3. /\ view' = [view EXCEPT ![i] = UpdateView(m)]
      /\ failed' = [failed EXCEPT ![i] = FailedAfter(m, i)]
  BY DEF Resize
<1> HIDE DEF m
<1> QED
  BY <1>1, <1>2, <1>3, OneEvent DEF VInv

\* A click in the last viewer.
LEMMA ClickZoomStep ==
    ASSUME VInv, NEW in \in BOOLEAN, ClickZoom(in) PROVE VInv'
<1>1. Viewers \in 1..Viewers
  BY ViewAssumption
<1>2. PICK v \in Zoomed(view[Viewers].viewport) :
        LET m == Zoom(view[Viewers], in, v)
        IN  /\ view' = [view EXCEPT ![Viewers] = UpdateView(m)]
            /\ failed' = [failed EXCEPT ![Viewers] = FailedAfter(m, Viewers)]
  BY DEF ClickZoom
<1> DEFINE m == Zoom(view[Viewers], in, v)
<1>3. m \in Fields /\ (Dirty(m) \/ Settled(m, failed[Viewers]))
  BY <1>1, ZoomSettles DEF VInv
<1>4. /\ view' = [view EXCEPT ![Viewers] = UpdateView(m)]
      /\ failed' = [failed EXCEPT ![Viewers] = FailedAfter(m, Viewers)]
  BY <1>2
<1> HIDE DEF m
<1>5. ~(Viewers < Viewers)
  BY ViewAssumption
<1> QED
  BY <1>1, <1>3, <1>4, <1>5, OneEvent

\* A click in an overview.
LEMMA ClickTargetStep ==
    ASSUME VInv, NEW i \in 1..Viewers, ClickTarget(i) PROVE VInv'
<1>1. i + 1 \in 1..Viewers /\ i + 1 # i
  BY ViewAssumption DEF ClickTarget
<1>2. /\ view[i] \in Fields /\ Settled(view[i], failed[i]) /\ failed[i] \in BOOLEAN
      /\ view[i + 1] \in Fields /\ failed[i + 1] \in BOOLEAN
      /\ i < Viewers => view[i].viewport \notin Fixed
  BY <1>1 DEF VInv
<1>3. CASE Fails(view[i])
  <2>1. FailedAfter(view[i], i) = TRUE
    BY <1>3 DEF Fails, FailedAfter
  <2>2. /\ view' = [view EXCEPT ![i] = UpdateView(view[i])]
        /\ failed' = [failed EXCEPT ![i] = FailedAfter(view[i], i)]
    BY <1>3, <2>1 DEF ClickTarget
  <2> QED
    BY <1>2, <2>2, OneEvent
<1>4. CASE ~Fails(view[i])
  <2> DEFINE m == UpdateView(view[i])
             target == Transferred(m, view[i + 1])
  <2>1. PICK v \in Viewports \ (Fixed \cup {target.viewport}) :
          LET z == Zoom(target, FALSE, v)
          IN  /\ view' = [view EXCEPT ![i] = m, ![i + 1] = UpdateView(z)]
              /\ failed' = [failed EXCEPT ![i] = FailedAfter(view[i], i),
                                          ![i + 1] = FailedAfter(z, i + 1)]
    BY <1>4 DEF ClickTarget
  <2>2. Settled(m, FailedAfter(view[i], i))
    BY <1>2, UpdateSettles DEF FailedAfter
  <2>3. m \in Fields /\ FailedAfter(view[i], i) \in BOOLEAN
    BY <2>2 DEF Settled
  <2>4. target \in Fields
    BY <1>2, <2>3, TransferFields
  <2> DEFINE z == Zoom(target, FALSE, v)
  <2>5. z \in Fields /\ Dirty(z) /\ z.viewport = v
    BY <2>4, ZoomDirties
  <2>6. Settled(UpdateView(z), FailedAfter(z, i + 1))
    BY <1>2, <2>5, UpdateSettles DEF FailedAfter
  <2>7. UpdateView(z) \in Fields /\ FailedAfter(z, i + 1) \in BOOLEAN
    BY <2>6 DEF Settled
  <2>8. /\ view' = [view EXCEPT ![i] = m, ![i + 1] = UpdateView(z)]
        /\ failed' = [failed EXCEPT ![i] = FailedAfter(view[i], i), ![i + 1] = FailedAfter(z, i + 1)]
    BY <2>1
  <2> HIDE DEF m, target, z
  <2>9. view' \in [1..Viewers -> Fields] /\ failed' \in [1..Viewers -> BOOLEAN]
    BY <1>1, <2>3, <2>7, <2>8 DEF VInv
  <2>10. ASSUME NEW k \in 1..Viewers PROVE Settled(view'[k], failed'[k])
    BY <1>1, <2>2, <2>6, <2>8 DEF VInv
  <2>11. m.viewport = view[i].viewport /\ UpdateView(z).viewport = v
    BY <1>2, <2>5, UpdateKeeps DEF m
  <2>12. ASSUME NEW k \in 1..Viewers, k < Viewers PROVE view'[k].viewport \notin Fixed
    BY <1>1, <2>8, <2>11, <2>12 DEF VInv
  <2> QED
    BY <2>9, <2>10, <2>12 DEF VInv, Settled, Current, Dirty, Image
<1> QED
  BY <1>3, <1>4

\* The invariant of the viewers.
THEOREM Invariance == Spec => []VInv
<1>1. Init => VInv
  <2> SUFFICES ASSUME NEW v \in Viewports \ Fixed, NEW s \in EvenSizes,
                      view = [i \in 1..Viewers |->
                                [viewport |-> v, size |-> s, maxIteration |-> minimumIteration,
                                 viewportChanged |-> TRUE, sizeChanged |-> FALSE,
                                 bitmap |-> Blank, canvas |-> Blank, attached |-> FALSE]],
                      failed = [i \in 1..Viewers |-> TRUE]
               PROVE  VInv
    BY DEF Init
  <2>1. minimumIteration \in Limits /\ Blank \in Images /\ s \in Sizes
    BY DEF Limits, minimumIteration, maximumIteration, stepIteration, Images, Sizes
  <2> QED
    BY <2>1 DEF VInv, Settled, Fields
<1>2. VInv /\ [Next]_vars => VInv'
  <2> SUFFICES ASSUME VInv, [Next]_vars PROVE VInv'
    OBVIOUS
  <2>1. CASE Next
    BY <2>1, ResizeStep, ClickZoomStep, ClickTargetStep DEF Next
  <2>2. CASE UNCHANGED vars
    BY <2>2 DEF vars, VInv, Settled, Current, Dirty, Image
  <2> QED
    BY <2>1, <2>2
<1> QED
  BY <1>1, <1>2, PTL DEF Spec

\* Whatever viewer another one sets, a canvas shows the image of its present viewport, size
\* and iteration limit unless its last computation raised, or in the last viewer, at a
\* viewport that zooming does not change, that of another limit (mandelbrot-ui.rkt,
\* mandelbrot-class.rkt).
THEOREM PresentShown == Spec => []ShowsPresent
<1>1. VInv => ShowsPresent
  <2> SUFFICES ASSUME VInv, NEW i \in 1..Viewers, ~failed[i]
               PROVE  \/ Shown(view[i]) = Image(view[i])
                      \/ /\ i = Viewers /\ view[i].viewport \in Fixed
                         /\ \E n \in Limits : Shown(view[i]) = Image(SetMaxIter(view[i], n))
    BY DEF ShowsPresent
  <2>1. Current(view[i]) /\ Shown(view[i]) = view[i].bitmap
    BY DEF VInv, Settled, Shown
  <2>2. view[i].viewport \in Fixed => i = Viewers
    BY ViewAssumption DEF VInv
  <2> QED
    BY <2>1, <2>2 DEF Current
<1> QED
  BY <1>1, Invariance, PTL

-----------------------------------------------------------------------------
(* The lines of the tiles                                                  *)

Even == \E p, q \in Nat \ {0} : width = 2 * p /\ height = 2 * q

SidesOK == width \in Nat \ {0} /\ height \in Nat \ {0}

\* A number is within one line of n only, and at one place of it.
LEMMA LinesDisjoint ==
    ASSUME NEW n \in Nat, NEW y1 \in Int, NEW y2 \in Int, NEW r1 \in 0..n - 1, NEW r2 \in 0..n - 1,
           n * y1 + r1 = n * y2 + r2
    PROVE  y1 = y2 /\ r1 = r2
<1>1. ASSUME NEW a \in Int, NEW b \in Int, NEW r \in 0..n - 1, NEW s \in 0..n - 1,
             n * a + r = n * b + s, a < b
      PROVE  FALSE
  <2>1. b - a - 1 \in Nat
    BY <1>1
  <2>2. n * (b - a - 1) >= 0
    BY <2>1
  <2>3. n * (b - a - 1) = n * b - n * a - n
    OBVIOUS
  <2>4. n * a \in Int /\ n * b \in Int
    OBVIOUS
  <2> QED
    BY <1>1, <2>2, <2>3, <2>4
<1>2. y1 = y2
  BY <1>1
<1> QED
  BY <1>2

\* The columns and the rows of tiles are numbered 0 and 1.
LEMMA TilePlaces ==
    ASSUME NEW t \in Tiles
    PROVE  Column(t) \in {0, 1} /\ Row(t) \in {0, 1} /\ t = 2 * Column(t) + Row(t)
<1>1. t \in {0, 1, 2, 3}
  BY DEF Tiles, count
<1> QED
  BY <1>1 DEF Column, Row, count

\* With even sides, line l of a tile is half of the image's line below q rows of the tiles
\* above it, from p points on for the right tiles.
LEMMA LinePlace ==
    ASSUME NEW p \in Nat \ {0}, NEW q \in Nat \ {0}, width = 2 * p, height = 2 * q,
           NEW t \in Tiles, NEW l \in Int
    PROVE  /\ Points(width) = p /\ Points(height) = q
           /\ LinePos(t, l) = (4 * p) * (q * Row(t) + l) + 2 * p * Column(t)
<1>1. Points(width) = p /\ Points(height) = q
  BY DEF Points
<1>2. LinePos(t, l) = (2 * p) * ((2 * q) * Row(t)) + (2 * p) * Column(t) + 2 * (2 * p) * l
  BY DEF LinePos, Edge
<1>3. Column(t) \in {0, 1} /\ Row(t) \in {0, 1}
  BY TilePlaces
<1>4. (2 * p) * ((2 * q) * Row(t)) = (4 * p) * (q * Row(t))
  BY <1>3
<1>5. 2 * (2 * p) * l = (4 * p) * l
  OBVIOUS
<1>6. q * Row(t) \in Int
  BY <1>3
<1>7. (4 * p) * (q * Row(t) + l) = (4 * p) * (q * Row(t)) + (4 * p) * l
  BY <1>6
<1> QED
  BY <1>1, <1>2, <1>3, <1>4, <1>5, <1>7

\* With even sides, no half pixel is in two lines of the tiles.
LEMMA TilesDisjoint ==
    ASSUME Even, NEW t \in Tiles, NEW u \in Tiles, NEW l \in Lines, NEW m \in Lines,
           NEW b \in LineAt(t, l), b \in LineAt(u, m)
    PROVE  t = u /\ l = m
<1>1. PICK p \in Nat \ {0}, q \in Nat \ {0} : width = 2 * p /\ height = 2 * q
  BY DEF Even
<1>2. /\ Points(width) = p /\ Points(height) = q
      /\ LinePos(t, l) = (4 * p) * (q * Row(t) + l) + 2 * p * Column(t)
      /\ LinePos(u, m) = (4 * p) * (q * Row(u) + m) + 2 * p * Column(u)
  BY <1>1, LinePlace DEF Lines
<1>3. /\ Column(t) \in {0, 1} /\ Row(t) \in {0, 1} /\ t = 2 * Column(t) + Row(t)
      /\ Column(u) \in {0, 1} /\ Row(u) \in {0, 1} /\ u = 2 * Column(u) + Row(u)
  BY TilePlaces
<1>4. l \in 0..q - 1 /\ m \in 0..q - 1
  BY <1>2 DEF Lines
<1> DEFINE r1 == b - LinePos(t, l)
           r2 == b - LinePos(u, m)
           y1 == q * Row(t) + l
           y2 == q * Row(u) + m
<1>5. y1 \in Int /\ y2 \in Int
  BY <1>3, <1>4
<1>6. (4 * p) * y1 \in Int /\ (4 * p) * y2 \in Int
  BY <1>5
<1>7. LinePos(t, l) \in Int /\ LinePos(u, m) \in Int
  BY <1>2, <1>3, <1>6
<1>8. b \in Int /\ r1 \in 0..2 * p - 1 /\ r2 \in 0..2 * p - 1
  BY <1>2, <1>7 DEF LineAt
<1>9. /\ b = (4 * p) * y1 + (2 * p * Column(t) + r1)
      /\ b = (4 * p) * y2 + (2 * p * Column(u) + r2)
  BY <1>2, <1>3, <1>6, <1>7, <1>8
<1> HIDE DEF r1, r2, y1, y2
<1>10. 2 * p * Column(t) + r1 \in 0..4 * p - 1 /\ 2 * p * Column(u) + r2 \in 0..4 * p - 1
  BY <1>3, <1>8
<1>11. y1 = y2 /\ 2 * p * Column(t) + r1 = 2 * p * Column(u) + r2
  BY <1>5, <1>9, <1>10, LinesDisjoint
<1>12. Row(t) = Row(u) /\ l = m
  BY <1>3, <1>4, <1>11, LinesDisjoint DEF y1, y2
<1>13. Column(t) = Column(u)
  BY <1>3, <1>8, <1>11
<1> QED
  BY <1>3, <1>12, <1>13

\* With even sides, every half pixel is in a line of a tile, which gives it the color of
\* its point.
LEMMA TilesCover ==
    ASSUME Even, NEW x \in 0..width - 1, NEW y \in 0..height - 1, NEW half \in {0, 1}
    PROVE  \E t \in Tiles, l \in Lines :
             LET b == 2 * (width * y + x) + half
             IN  b \in LineAt(t, l) /\ LineColor(t, l, b) = Color(2 * x, 2 * y)
<1>1. PICK p \in Nat \ {0}, q \in Nat \ {0} : width = 2 * p /\ height = 2 * q
  BY DEF Even
<1> DEFINE c == IF x < p THEN 0 ELSE 1
           r == IF y < q THEN 0 ELSE 1
           t == 2 * c + r
           l == y - q * r
           b == 2 * (width * y + x) + half
<1>2. c \in {0, 1} /\ r \in {0, 1} /\ x - p * c \in 0..p - 1 /\ l \in 0..q - 1 /\ x \in Int /\ y \in Int
  BY <1>1
<1>3. t \in Tiles /\ Column(t) = c /\ Row(t) = r
  <2>1. t \in {0, 1, 2, 3} /\ t \div 2 = c /\ t % 2 = r
    BY <1>2
  <2> QED
    BY <2>1 DEF Tiles, count, Column, Row
<1>4. q * r + l = y
  BY <1>2
<1> HIDE DEF c, r, t, l
<1>5. /\ Points(width) = p /\ Points(height) = q
      /\ LinePos(t, l) = (4 * p) * y + 2 * p * c
  <2>1. /\ Points(width) = p /\ Points(height) = q
        /\ LinePos(t, l) = (4 * p) * (q * Row(t) + l) + 2 * p * Column(t)
    BY <1>1, <1>2, <1>3, LinePlace
  <2> QED
    BY <1>3, <1>4, <2>1
<1>6. b = (4 * p) * y + 2 * x + half
  BY <1>1, <1>2
<1>7. (4 * p) * y \in Int
  BY <1>2
<1>8. LinePos(t, l) \in Int /\ b - LinePos(t, l) = 2 * (x - p * c) + half
  BY <1>2, <1>5, <1>6, <1>7
<1>9. b \in Int
  BY <1>2, <1>6, <1>7
<1> HIDE DEF b
<1>10. b \in LineAt(t, l)
  BY <1>2, <1>5, <1>8, <1>9 DEF LineAt
<1>11. (2 * (x - p * c) + half) \div 2 = x - p * c
  BY <1>2
<1>12. Edge(width, Column(t)) = 2 * p * c /\ Edge(height, Row(t)) = 2 * q * r
  BY <1>1, <1>2, <1>3 DEF Edge
<1>13. LineColor(t, l, b) = Color(2 * x, 2 * y)
  <2>1. 2 * p * c + 2 * (x - p * c) = 2 * x /\ 2 * q * r + 2 * l = 2 * y
    BY <1>2, <1>4
  <2> QED
    BY <1>8, <1>11, <1>12, <2>1 DEF LineColor
<1>14. l \in Lines
  BY <1>2, <1>5 DEF Lines
<1> QED
  BY <1>3, <1>10, <1>13, <1>14 DEF b

\* With an odd side, the last line of the last tile does not fit.
LEMMA LastTileFits ==
    ASSUME SidesOK, Copied(3) = Lines
    PROVE  Even
<1> DEFINE p == Points(width)
           q == Points(height)
           l == q - 1
           b == LinePos(3, l) + 2 * p - 1
<1>1. /\ width \in Nat \ {0} /\ height \in Nat \ {0}
      /\ p \in Nat \ {0} /\ q \in Nat \ {0}
      /\ 2 * p = width \/ 2 * p = width + 1
      /\ 2 * q = height \/ 2 * q = height + 1
  BY DEF SidesOK, Points
<1> HIDE DEF p, q
<1>2. l \in Lines /\ l \in 0..l
  BY <1>1 DEF Lines, q
<1>3. LineAt(3, l) \subseteq Buffer
  BY <1>2 DEF Copied, Fits
<1>4. LinePos(3, l) = width * height + width + 2 * width * (q - 1)
  BY <1>1 DEF LinePos, Edge, Row, Column, count
<1>5. width * height \in Int /\ 2 * width * (q - 1) \in Int
  BY <1>1
<1>6. b \in LineAt(3, l)
  BY <1>1, <1>4, <1>5 DEF LineAt, p
<1>7. b <= 2 * width * height - 1
  BY <1>1, <1>3, <1>6 DEF Buffer
<1>8. 2 * width * (q - 1) = width * (2 * q) - 2 * width
  BY <1>1
<1>9. CASE 2 * q = height + 1
  <2>1. width * (2 * q) = width * height + width
    BY <1>1, <1>9
  <2>2. b = width * height + width + (width * height + width - 2 * width) + 2 * p - 1
    BY <1>1, <1>4, <1>5, <1>8, <2>1
  <2>3. 2 * width * height = 2 * (width * height)
    BY <1>1
  <2> QED
    BY <1>1, <1>5, <1>7, <2>2, <2>3
<1>10. CASE 2 * q = height
  <2>1. width * (2 * q) = width * height
    BY <1>10
  <2>2. b = width * height + width + (width * height - 2 * width) + 2 * p - 1
    BY <1>1, <1>4, <1>5, <1>8, <2>1
  <2>3. 2 * width * height = 2 * (width * height)
    BY <1>1
  <2>4. 2 * p = width
    BY <1>1, <1>5, <1>7, <2>2, <2>3
  <2> QED
    BY <1>1, <1>10, <2>4 DEF Even
<1> QED
  BY <1>1, <1>9, <1>10

-----------------------------------------------------------------------------
(* get-bytes                                                               *)

\* The tiles the main place has copied.
Taken == {t \in Tiles : t < tile \/ (t = tile /\ pc \in {"wait", "done"})}

\* Every one that was copied fitted, and its points are still there.
GInv ==
    /\ SidesOK
    /\ tile \in Tiles /\ pc \in {"create", "get", "wait", "done", "raised"}
    /\ pc \in {"get", "wait", "done"} =>
         \A t \in Taken :
           /\ Copied(t) = Lines
           /\ Even => \A l \in Lines : \A b \in LineAt(t, l) : bytes[b] = LineColor(t, l, b)
    /\ pc = "done" => tile = 3

\* A tile that is copied after others leaves theirs as they are.
LEMMA GetStep ==
    ASSUME GInv, Get PROVE GInv'
<1>1. /\ pc = "get" /\ UNCHANGED <<width, height, tile>> /\ tile \in Tiles /\ Render(tile)
      /\ pc' = IF Copied(tile) = Lines THEN "wait" ELSE "raised"
      /\ SidesOK
  BY DEF Get, GInv
<1>2. /\ Lines' = Lines /\ Tiles' = Tiles /\ (Even <=> Even') /\ SidesOK'
      /\ \A t \in Tiles : Copied(t)' = Copied(t)
      /\ \A t, l : LineAt(t, l)' = LineAt(t, l)
      /\ \A t, l, b : LineColor(t, l, b)' = LineColor(t, l, b)
  BY <1>1 DEF Lines, Tiles, Even, Copied, Fits, Buffer, LineAt, LinePos, LineColor, SidesOK
<1>3. CASE Copied(tile) # Lines
  BY <1>1, <1>2, <1>3 DEF GInv
<1>4. CASE Copied(tile) = Lines
  <2>1. pc' = "wait"
    BY <1>1, <1>4
  <2>2. Taken' \subseteq Taken \cup {tile}
    BY <1>1, <2>1 DEF Taken
  <2>3. \A t \in Taken : Copied(t) = Lines /\ t \in Tiles /\ t # tile
    <3>1. \A t \in Taken : t < tile
      BY <1>1 DEF Taken
    <3>2. \A t \in Tiles : t \in Int
      BY DEF Tiles, count
    <3> QED
      BY <1>1, <3>1, <3>2 DEF GInv, Taken
  <2>4. \A t \in Taken \cup {tile} : Copied(t) = Lines
    BY <1>4, <2>3
  <2>5. ASSUME Even, NEW t \in Taken \cup {tile}, NEW l \in Lines, NEW b \in LineAt(t, l)
        PROVE  bytes'[b] = LineColor(t, l, b)
    <3>1. b \in Buffer
      <4>1. l \in Copied(t) /\ l \in 0..l
        BY <1>1, <2>4 DEF Lines, SidesOK, Points
      <4> QED
        BY <4>1 DEF Copied, Fits
    <3>2. bytes'[b] = IF \E k \in Lines : b \in LineAt(tile, k)
                      THEN LET k == CHOOSE m \in Lines : b \in LineAt(tile, m)
                           IN  LineColor(tile, k, b)
                      ELSE bytes[b]
      BY <1>1, <1>4, <3>1 DEF Render
    <3>3. CASE t = tile
      <4>1. \A k \in Lines : b \in LineAt(tile, k) => k = l
        BY <1>1, <2>5, <3>3, TilesDisjoint
      <4>2. (CHOOSE m \in Lines : b \in LineAt(tile, m)) = l
        BY <2>5, <3>3, <4>1
      <4> QED
        BY <2>5, <3>2, <3>3, <4>2
    <3>4. CASE t # tile
      <4>1. t \in Taken /\ t \in Tiles
        BY <2>3, <3>4
      <4>2. ~\E k \in Lines : b \in LineAt(tile, k)
        BY <1>1, <2>5, <3>4, <4>1, TilesDisjoint
      <4>3. bytes[b] = LineColor(t, l, b)
        BY <1>1, <2>5, <4>1 DEF GInv
      <4> QED
        BY <3>2, <4>2, <4>3
    <3> QED
      BY <3>3, <3>4
  <2>6. ASSUME NEW t \in Taken'
        PROVE  /\ Copied(t)' = Lines'
               /\ Even' => \A l \in Lines' : \A b \in LineAt(t, l)' : bytes'[b] = LineColor(t, l, b)'
    <3>1. t \in Taken \cup {tile} /\ t \in Tiles
      BY <2>2, <1>2 DEF Taken
    <3> QED
      BY <1>2, <2>4, <2>5, <3>1
  <2> QED
    BY <1>1, <1>2, <2>1, <2>6 DEF GInv
<1> QED
  BY <1>3, <1>4

\* A step that copies nothing.
LEMMA NothingCopied ==
    ASSUME GInv, UNCHANGED <<width, height, bytes>>,
           tile' \in Tiles, pc' \in {"create", "get", "wait", "done", "raised"},
           pc' \in {"get", "wait", "done"} =>
             Taken' = {} \/ (pc \in {"get", "wait", "done"} /\ Taken' \subseteq Taken),
           pc' = "done" => tile' = 3
    PROVE  GInv'
<1>1. /\ Lines' = Lines /\ Tiles' = Tiles /\ (Even <=> Even') /\ (SidesOK <=> SidesOK')
      /\ \A t : Copied(t)' = Copied(t)
      /\ \A t, l : LineAt(t, l)' = LineAt(t, l)
      /\ \A t, l, b : LineColor(t, l, b)' = LineColor(t, l, b)
  BY DEF Lines, Tiles, Even, Copied, Fits, Buffer, LineAt, LinePos, LineColor, SidesOK
<1> QED
  BY <1>1 DEF GInv

\* The invariant of get-bytes.
THEOREM TilesInvariance == TSpec => []GInv
<1>1. TInit => GInv
  BY TilesAssumption DEF TInit, GInv, SidesOK, Tiles, count
<1>2. GInv /\ [TNext]_tileVars => GInv'
  <2> SUFFICES ASSUME GInv, [TNext]_tileVars PROVE GInv'
    OBVIOUS
  <2>1. tile \in {0, 1, 2, 3} /\ Tiles = {0, 1, 2, 3}
        /\ pc \in {"create", "get", "wait", "done", "raised"} /\ (pc = "done" => tile = 3)
    BY DEF GInv, Tiles, count
  <2>2. CASE CreatePlace
    <3>1. /\ UNCHANGED <<width, height, bytes>> /\ tile' \in Tiles
          /\ pc' \in {"create", "get"} /\ (pc' = "get" => tile' = 0)
      BY <2>1, <2>2 DEF CreatePlace
    <3>2. pc' = "get" => Taken' = {}
      BY <2>1, <3>1 DEF Taken
    <3> QED
      BY <3>1, <3>2, NothingCopied
  <2>3. CASE Get
    BY <2>3, GetStep
  <2>4. CASE PlaceWait
    <3>1. /\ UNCHANGED <<width, height, bytes>> /\ tile' \in Tiles /\ pc = "wait"
          /\ \/ pc' = "get" /\ tile' = tile + 1
             \/ pc' = "done" /\ tile' = tile /\ tile = 3
      BY <2>1, <2>4 DEF PlaceWait
    <3>2. Taken' \subseteq Taken
      BY <2>1, <3>1 DEF Taken
    <3> QED
      BY <3>1, <3>2, NothingCopied
  <2>5. CASE UNCHANGED <<width, height, bytes, tile, pc>>
    <3>1. Taken' = Taken
      BY <2>1, <2>5 DEF Taken
    <3> QED
      BY <2>1, <2>5, <3>1, NothingCopied
  <2>6. CASE \E t \in Tiles : Place(t)
    BY <2>5, <2>6 DEF Place, PlaceDies, PlacePuts, PlaceExits
  <2> QED
    BY <2>2, <2>3, <2>4, <2>5, <2>6 DEF TNext, Main, tileVars
<1> QED
  BY <1>1, <1>2, PTL DEF TSpec

\* An image that get-bytes returns (mandelbrot-class.rkt) has every pixel, computed for the
\* point it shows, whatever its sides.
THEOREM WholeImage == TSpec => []ImageWhole
<1>1. GInv => ImageWhole
  <2> SUFFICES ASSUME GInv, pc = "done", NEW x \in 0..(width - 1), NEW y \in 0..(height - 1),
                      NEW half \in {0, 1}
               PROVE  bytes[2 * (width * y + x) + half] = Color(2 * x, 2 * y)
    BY DEF ImageWhole
  <2>1. /\ SidesOK /\ Taken = Tiles /\ 3 \in Tiles
        /\ \A t \in Tiles :
             /\ Copied(t) = Lines
             /\ Even => \A l \in Lines : \A b \in LineAt(t, l) : bytes[b] = LineColor(t, l, b)
    <3>1. tile = 3 /\ Tiles = {0, 1, 2, 3}
      BY DEF GInv, Tiles, count
    <3>2. Taken = Tiles
      BY <3>1 DEF Taken
    <3> QED
      BY <3>1, <3>2 DEF GInv
  <2>2. Even
    BY <2>1, LastTileFits
  <2>3. PICK t \in Tiles, l \in Lines :
          LET b == 2 * (width * y + x) + half
          IN  b \in LineAt(t, l) /\ LineColor(t, l, b) = Color(2 * x, 2 * y)
    BY <2>2, TilesCover
  <2> QED
    BY <2>1, <2>2, <2>3
<1> QED
  BY <1>1, TilesInvariance, PTL
=============================================================================

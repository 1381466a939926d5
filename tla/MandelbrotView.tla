--------------------------- MODULE MandelbrotView ---------------------------
(***************************************************************************)
(* lisp/mandelbrot: the viewers of mandelbrot-ui.rkt, each a canvas-box%   *)
(* with a mandelbrot% of its own (mandelbrot-class.rkt).  A click in an    *)
(* overview updates it, copies its viewport to the next viewer and zooms   *)
(* there; a click in the last viewer zooms in or out.                      *)
(*                                                                         *)
(* Events are handled one after the other on the main thread.  A viewport  *)
(* is a member of a small set, and zooming leads to any other one, but not *)
(* from one in Fixed: a click divides the difference of the two corners by *)
(* four or more, or multiplies it by four, and where it has become zero    *)
(* (some 27 clicks on) or no number any more, zooming changes nothing.  An *)
(* image is the viewport, size and iteration limit it was computed for.    *)
(* get-bytes raises for a size with an odd side (MandelbrotTiles), which   *)
(* ends the event handler where it is.                                     *)
(***************************************************************************)
EXTENDS Integers, Sequences

CONSTANTS
    Viewports,
    Fixed,          \* those that zooming does not change
    EvenSizes, OddSizes,
    Viewers         \* how many viewers there are, 1..Viewers, each with the next as target

ASSUME ViewAssumption ==
    /\ Viewers \in Nat \ {0} /\ Fixed \subseteq Viewports
    /\ EvenSizes # {} /\ EvenSizes \cap OddSizes = {}

VARIABLES
    view,    \* of each viewer: the fields of its mandelbrot% and of its canvas
    failed   \* history: whether its last get-bytes raised, or there was none yet

vars == <<view, failed>>

minimumIteration == 50
maximumIteration == 1000
stepIteration == 80

Sizes == EvenSizes \cup OddSizes
Blank == <<"blank">>
Image(m) == <<"image", m.viewport, m.size, m.maxIteration>>

\* canvas is the bitmap the canvas holds, when it is not that of its mandelbrot%.
Init ==
    \E v \in Viewports \ Fixed, s \in EvenSizes :
        /\ view = [i \in 1..Viewers |->
                     [viewport |-> v, size |-> s, maxIteration |-> minimumIteration,
                      viewportChanged |-> TRUE, sizeChanged |-> FALSE,
                      bitmap |-> Blank, canvas |-> Blank, attached |-> FALSE]]
        /\ failed = [i \in 1..Viewers |-> TRUE]

Shown(m) == IF m.attached THEN m.bitmap ELSE m.canvas

\* set-viewport
SetViewport(m, v) ==
    IF v = m.viewport THEN m ELSE [m EXCEPT !.viewport = v, !.viewportChanged = TRUE]

\* set-max-iter changes nothing else.
SetMaxIter(m, n) == [m EXCEPT !.maxIteration = n]

\* Faulty variant of SetViewsize: the new size is not noted for refresh.
SetViewsizeSilently(m, s) ==
    IF s = m.size THEN m
    ELSE [m EXCEPT !.size = s, !.bitmap = Blank, !.canvas = Shown(m), !.attached = FALSE]

\* set-viewsize makes a new bitmap; the canvas keeps the one it has.
SetViewsize(m, s) ==
    IF s = m.size THEN m
    ELSE [m EXCEPT !.size = s, !.sizeChanged = TRUE,
                   !.bitmap = Blank, !.canvas = Shown(m), !.attached = FALSE]

NextIteration(n, in) ==
    IF in THEN IF n > minimumIteration THEN n - stepIteration ELSE n
          ELSE IF n < maximumIteration THEN n + stepIteration ELSE n

Zoomed(v) == IF v \in Fixed THEN {v} ELSE Viewports \ {v}
Zoom(m, in, v) == [SetViewport(m, v) EXCEPT !.maxIteration = NextIteration(m.maxIteration, in)]

\* update-view with get-bitmap: refresh clears both flags before get-bytes, and when
\* that raises the canvas keeps its bitmap.
Dirty(m) == m.viewportChanged \/ m.sizeChanged
Fails(m) == Dirty(m) /\ m.size \in OddSizes
UpdateView(m) ==
    LET refreshed == [m EXCEPT !.viewportChanged = FALSE, !.sizeChanged = FALSE]
    IN  IF ~Dirty(m) THEN [m EXCEPT !.attached = TRUE]
        ELSE IF m.size \in OddSizes THEN refreshed
        ELSE [refreshed EXCEPT !.bitmap = Image(m), !.attached = TRUE]

\* What is left of failed[i] after update-view of m.
FailedAfter(m, i) == IF Dirty(m) THEN m.size \in OddSizes ELSE failed[i]

\* on-size
Resize(i, s) ==
    LET m == SetViewsize(view[i], s)
    IN  /\ view' = [view EXCEPT ![i] = UpdateView(m)]
        /\ failed' = [failed EXCEPT ![i] = FailedAfter(m, i)]

\* zoom-mb in the last viewer, with the left or the right button.
ClickZoom(in) ==
    \E v \in Zoomed(view[Viewers].viewport) :
        LET m == Zoom(view[Viewers], in, v)
        IN  /\ view' = [view EXCEPT ![Viewers] = UpdateView(m)]
            /\ failed' = [failed EXCEPT ![Viewers] = FailedAfter(m, Viewers)]

\* transfer-viewport-to-target
Transferred(m, target) == SetMaxIter(SetViewport(target, m.viewport), m.maxIteration)

\* zoom-to-target in viewer i.  If update-view raises, the rest does not happen.  One
\* zoom from the viewport of an overview leads to none in Fixed, which takes many.
ClickTarget(i) ==
    /\ i < Viewers
    /\ IF Fails(view[i])
         THEN /\ view' = [view EXCEPT ![i] = UpdateView(@)]
              /\ failed' = [failed EXCEPT ![i] = TRUE]
         ELSE LET m == UpdateView(view[i])
                  target == Transferred(m, view[i + 1])
              IN  \E v \in Viewports \ (Fixed \cup {target.viewport}) :
                    LET z == Zoom(target, FALSE, v)
                    IN  /\ view' = [view EXCEPT ![i] = m, ![i + 1] = UpdateView(z)]
                        /\ failed' = [failed EXCEPT ![i] = FailedAfter(view[i], i),
                                                    ![i + 1] = FailedAfter(z, i + 1)]

Next ==
    \/ \E i \in 1..Viewers, s \in Sizes : Resize(i, s)
    \/ \E in \in BOOLEAN : ClickZoom(in)
    \/ \E i \in 1..Viewers : ClickTarget(i)

Spec == Init /\ [][Next]_vars

-----------------------------------------------------------------------------
(* Properties                                                              *)

Limits == {n \in minimumIteration..maximumIteration + stepIteration :
             (n - minimumIteration) % stepIteration = 0}

\* Whatever was clicked and resized, in whatever viewer, a canvas shows the image of
\* its present viewport, size and iteration limit, unless its last computation
\* raised.  It matters for the target of a click, whose fields another viewer sets,
\* and since set-max-iter does not ask for a new image.  Nor does a click that zooms a
\* viewport in Fixed, yet it changes the limit: the last viewer, where alone this can
\* happen, then shows the image of another limit.
ShowsPresent ==
    \A i \in 1..Viewers : ~failed[i] =>
        \/ Shown(view[i]) = Image(view[i])
        \/ /\ i = Viewers /\ view[i].viewport \in Fixed
           /\ \E n \in Limits : Shown(view[i]) = Image(SetMaxIter(view[i], n))
=============================================================================

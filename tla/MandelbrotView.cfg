\* The three viewers of mandelbrot-ui.rkt, each the target of the one before, and a
\* viewport that has collapsed into one point.
CONSTANTS
    Viewports = {v1, v2, dot}
    Fixed = {dot}
    EvenSizes = {even}
    OddSizes = {odd}
    Viewers = 3
SPECIFICATION Spec
INVARIANTS
    ShowsPresent

\* Six changes of server and device, frames of two sizes and one undrawable.  When
\* the window is closed the program ends: deadlock is no error.
CONSTANTS
    Threads = {t1, t2}
    NoThread = NoThread
    Frames = {f, g, w, u}
    Wide = {w}
    Undrawable = {u}
    NoFrame = NoFrame
    MaxChanges = 6
CHECK_DEADLOCK FALSE
SPECIFICATION FairSpec
INVARIANTS
    OneQuery
    KeepsWatching
    ClosedMeansQuiet
    HashIsShown
PROPERTY Recovers

\* Either tool.  A socket buffer of two messages, which four can overrun, and three signals;
\* an inotify queue of two events, which four can overflow, and two signals.  A tool may end
\* or wait for ever.
CONSTANTS
    Room = 2
    MaxMessages = 4
    MaxSignals = 3
    Queued = 2
    MaxEvents = 4
    MaxStops = 2
CHECK_DEADLOCK FALSE
SPECIFICATION WSpec
INVARIANTS
    NoSilentGap
    PrintsWhatItRead
    KeysOnLines
PROPERTIES
    SignalEnds
    StopEnds

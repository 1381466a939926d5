--------------------------- MODULE InotifyWatcher ---------------------------
(***************************************************************************)
(* tools/inotify/inotify-watcher.c: the loop of watcher over read, and the *)
(* signal handler that is to end it.                                       *)
(*                                                                         *)
(* The kernel queues events, numbered as they happen.  Those of the        *)
(* directory itself carry no name and count as 0, as does the one mark of  *)
(* an overflow.  The handler is installed by signal(), so a read in which  *)
(* a signal is handled is restarted; an inotify read of older kernels      *)
(* (up to 3.7) fails all the same.                                         *)
(***************************************************************************)
EXTENDS Integers, Sequences, SequencesExt

CONSTANTS
    Queued,         \* events the kernel queues before the mark of an overflow
    MaxEvents,      \* bound on the events
    MaxStops        \* bound on the signals

VARIABLES
    at,          \* "main", "init", "test", "read", "dump", "closed" or "failed"
    stopped,
    buffer,      \* the events read and not yet looked at
    printed,     \* the events printed
    events, watched,        \* the kernel's queue; whether inotify_add_watch succeeded
    happened, overflown,    \* history: the events, and whether the queue has overflown
    stops, between,         \* how many signals; history: how many of them were handled
                            \* between the test of stopped and the return of read
    restarts                \* the kernel restarts a read

kernelState == <<events, watched, happened, overflown, restarts>>
watcherVars == <<at, stopped, buffer, printed, kernelState, stops, between>>

Init ==
    /\ at = "main" /\ stopped = FALSE /\ buffer = <<>> /\ printed = <<>>
    /\ events = <<>> /\ watched = FALSE /\ happened = <<>> /\ overflown = FALSE
    /\ stops = 0 /\ between = 0 /\ restarts \in BOOLEAN

Over == at \in {"closed", "failed"}

\* An event that finds the queue full leaves a mark, unless there is one.
Happen ==
    /\ watched /\ ~Over /\ Len(happened) < MaxEvents
    /\ \E e \in {0, Len(happened) + 1} :
         /\ happened' = Append(happened, e)
         /\ events' = IF Len(events) < Queued THEN Append(events, e)
                      ELSE IF Len(events) = Queued THEN Append(events, 0) ELSE events
    /\ overflown' = (overflown \/ Len(events) >= Queued)
    /\ UNCHANGED <<at, stopped, buffer, printed, watched, restarts, stops, between>>

\* main: stat may fail or find no directory.
Main ==
    /\ at = "main"
    /\ at' \in {"init", "failed"}
    /\ UNCHANGED <<stopped, buffer, printed, kernelState, stops, between>>

\* inotify_init may fail, and inotify_add_watch, which is not looked at.
AddWatch ==
    /\ at = "init"
    /\ \/ at' = "failed" /\ UNCHANGED watched
       \/ at' = "test" /\ watched' \in BOOLEAN
    /\ UNCHANGED <<stopped, buffer, printed, events, happened, overflown, restarts, stops, between>>

TestStopped ==
    /\ at = "test"
    /\ at' = IF stopped THEN "closed" ELSE "read"
    /\ UNCHANGED <<stopped, buffer, printed, kernelState, stops, between>>

\* read returns one event or more, as many as fit the buffer.
Read ==
    /\ at = "read"
    /\ \E n \in 1..Len(events) :
         buffer' = SubSeq(events, 1, n) /\ events' = SubSeq(events, n + 1, Len(events))
    /\ at' = "dump"
    /\ UNCHANGED <<stopped, printed, watched, happened, overflown, restarts, stops, between>>

\* What is printed after the event e was looked at.
Printing(e) == IF e = 0 THEN printed ELSE Append(printed, e)

\* Faulty variant of DumpEvent: the flag is looked at before each event.
DumpEventUnlessStopped ==
    /\ at = "dump"
    /\ IF buffer = <<>> \/ stopped
         THEN at' = "test" /\ UNCHANGED <<buffer, printed>>
         ELSE /\ buffer' = Tail(buffer) /\ printed' = Printing(Head(buffer))
              /\ UNCHANGED at
    /\ UNCHANGED <<stopped, kernelState, stops, between>>

\* One turn of the inner loop; events without a name are passed over.
DumpEvent ==
    /\ at = "dump"
    /\ IF buffer = <<>>
         THEN at' = "test" /\ UNCHANGED <<buffer, printed>>
         ELSE /\ buffer' = Tail(buffer) /\ printed' = Printing(Head(buffer))
              /\ UNCHANGED at
    /\ UNCHANGED <<stopped, kernelState, stops, between>>

Blocked == at = "read" /\ events = <<>>

\* Faulty variant of Stop: the flag is cleared by the next signal.
StopToggles ==
    /\ at \notin {"main", "closed", "failed"} /\ stops < MaxStops
    /\ stops' = stops + 1 /\ stopped' = ~stopped
    /\ between' = IF at = "read" THEN between + 1 ELSE between
    /\ at' = IF Blocked /\ ~restarts THEN "closed" ELSE at
    /\ UNCHANGED <<buffer, printed, kernelState>>

\* sig_handler, once main has installed it.
Stop ==
    /\ at \notin {"main", "closed", "failed"} /\ stops < MaxStops
    /\ stops' = stops + 1 /\ stopped' = TRUE
    /\ between' = IF at = "read" THEN between + 1 ELSE between
    /\ at' = IF Blocked /\ ~restarts THEN "closed" ELSE at
    /\ UNCHANGED <<buffer, printed, kernelState>>

Program == Main \/ AddWatch \/ TestStopped \/ Read \/ DumpEvent
Next == Program \/ Stop \/ Happen
=============================================================================

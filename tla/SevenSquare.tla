---------------------------- MODULE SevenSquare ----------------------------
(***************************************************************************)
(* lisp/seven-square.rkt with lisp/adb.rkt: a window that shows the screen *)
(* of a device, polled by a timer through the adb server.                  *)
(*                                                                         *)
(* The module body, the timer's callback fb-capture and on-close all run   *)
(* on the main thread, one after the other.  When a poll fails without an  *)
(* exception, fb-capture stops the timer and starts a thread that waits    *)
(* for the device and then starts the timer again.  That thread and the    *)
(* main thread share wait-thread-id, the timer and the field `connected'   *)
(* of the adb object, with no lock.                                        *)
(*                                                                         *)
(* A query talks to the server over a link of its own.  When the server    *)
(* dies, or the device of a framebuffer link is unplugged, the link breaks *)
(* and the next read gives an end of file, which the code never expects:   *)
(* read-status raises on it, the loop of wait-for-device spins on it.  If  *)
(* the peer's reset comes first the same read fails with a network error,  *)
(* which query handles.  An exception that leaves the callback leaves the  *)
(* timer expired: timer% sets it for another round when notify has         *)
(* returned, and never does if it does not return.                         *)
(***************************************************************************)
EXTENDS Integers

CONSTANTS
    Threads,      \* the threads start-wait-thread can create, reused when dead
    NoThread,     \* wait-thread-id is #f
    Frames,       \* screens of the device
    Wide,         \* those of another size than the rest
    Undrawable,   \* those with too few bytes for their size (16 bits a pixel)
    NoFrame,      \* nothing drawn, and a hash that is no frame's
    MaxChanges    \* bound on the changes of server and device, and on refused frames

ASSUME SevenSquareAssumption ==
    /\ Threads # {} /\ NoThread \notin Threads /\ "main" \notin Threads
    /\ NoFrame \notin Frames
    /\ Wide \subseteq Frames /\ Undrawable \subseteq Frames
    /\ MaxChanges \in Nat

VARIABLES
    server, device, changes,   \* the adb server runs, the device is plugged
    pc, link,                  \* of the main thread and of every waiting thread
    connected,                 \* the field of the adb object
    timer,                     \* fb-capture-timer runs, or waits for its callback
    escaped,                   \* history: an exception has left a callback or a thread
    waitThreadId, created,     \* and the thread created but not yet assigned to it
    closed,                    \* on-close has run
    late,                      \* history: it ran between ThreadClears and ThreadStarts
    fbsize, fbbitmap, fbhash   \* size and content of the bitmap, hash of the last frame

environment == <<server, device, changes>>
display == <<fbsize, fbbitmap, fbhash>>
watch == <<timer, escaped>>
gui == <<waitThreadId, created, closed, late>>
vars == <<environment, pc, link, connected, watch, gui, display>>

All == {"main"} \cup Threads
NoLinks == [t \in All |-> "none"]

Init ==
    /\ server \in BOOLEAN /\ device \in BOOLEAN /\ changes = 0
    /\ pc = [t \in All |-> IF t = "main" THEN "wconnect" ELSE "done"]
    /\ link = NoLinks
    /\ connected = FALSE /\ timer = FALSE /\ escaped = FALSE
    /\ waitThreadId = NoThread /\ created = NoThread
    /\ closed = FALSE /\ late = FALSE
    /\ fbsize = "one" /\ fbbitmap = NoFrame /\ fbhash = NoFrame

Goto(t, next) == pc' = [pc EXCEPT ![t] = next]
SetLink(t, state) == link' = [link EXCEPT ![t] = state]

-----------------------------------------------------------------------------
(* The server and the device                                               *)

Change == changes < MaxChanges /\ changes' = changes + 1

ServerDies ==
    /\ server /\ Change
    /\ server' = FALSE
    /\ link' = [t \in All |-> IF link[t] = "open" THEN "broken" ELSE link[t]]
    /\ UNCHANGED <<device, pc, connected, watch, gui, display>>

ServerStarts ==
    /\ ~server /\ Change
    /\ server' = TRUE
    /\ UNCHANGED <<device, pc, link, connected, watch, gui, display>>

DevicePlugged ==
    /\ ~device /\ Change
    /\ device' = TRUE
    /\ UNCHANGED <<server, pc, link, connected, watch, gui, display>>

\* Links that have been switched to the device break.
DeviceUnplugged ==
    /\ device /\ Change
    /\ device' = FALSE
    /\ link' = [t \in All |-> IF link[t] = "open" /\ pc[t] \in {"status", "frame"}
                              THEN "broken" ELSE link[t]]
    /\ UNCHANGED <<server, pc, connected, watch, gui, display>>

-----------------------------------------------------------------------------
(* query                                                                   *)

\* Where query returns to, and where an exception it does not handle leads: it
\* ends the module body and a waiting thread.  The main thread goes on after one in
\* the timer's callback, but without the timer.
After(t) == IF pc[t] \in {"wconnect", "wstatus", "wreply"} THEN "wdone" ELSE "check"
Uncaught(t) == IF After(t) = "check" THEN "idle" ELSE "raised"

\* connect-error
NetworkError(t) ==
    /\ connected' = FALSE
    /\ SetLink(t, "none") /\ Goto(t, After(t))
    /\ UNCHANGED watch

\* An end of file where a string is expected.  read-status has cleared connected,
\* read-payload and the frame's reader have not.  The ports stay open.
Raises(t) ==
    /\ connected' \in {connected, FALSE}
    /\ SetLink(t, "none") /\ Goto(t, Uncaught(t))
    /\ escaped' = TRUE
    /\ timer' = IF t = "main" THEN FALSE ELSE timer

Broken(t) == link[t] = "broken" /\ (NetworkError(t) \/ Raises(t))

\* read-status gets FAIL.  The ports are closed.
Refused(t) ==
    /\ connected' = FALSE
    /\ SetLink(t, "none") /\ Goto(t, After(t))
    /\ UNCHANGED watch

Connect(t, next) ==
    /\ \/ ~server /\ NetworkError(t)
       \/ /\ server /\ connected' = TRUE
          /\ SetLink(t, "open") /\ Goto(t, next) /\ UNCHANGED watch
    /\ UNCHANGED <<environment, gui, display>>

-----------------------------------------------------------------------------
(* wait-for-device, of the module body and of the waiting thread           *)

WaitConnect(t) == pc[t] = "wconnect" /\ Connect(t, "wstatus")

WaitStatus(t) ==
    /\ pc[t] = "wstatus"
    /\ \/ link[t] = "open" /\ Goto(t, "wreply") /\ UNCHANGED <<link, connected, watch>>
       \/ link[t] = "open" /\ Refused(t)
       \/ Broken(t)
    /\ UNCHANGED <<environment, gui, display>>

\* The loop of wait-cb ends with the OKAY of the server and never on an end of file.
WaitReply(t) ==
    /\ pc[t] = "wreply"
    /\ \/ /\ link[t] = "open" /\ device
          /\ SetLink(t, "none") /\ Goto(t, "wdone") /\ UNCHANGED <<connected, watch>>
       \/ link[t] = "broken" /\ NetworkError(t)
       \/ /\ link[t] = "broken"
          /\ Goto(t, "spin") /\ UNCHANGED <<link, connected, watch>>
    /\ UNCHANGED <<environment, gui, display>>

\* The module body starts the timer and shows the window.
MainStarts ==
    /\ pc["main"] = "wdone"
    /\ timer' = TRUE
    /\ Goto("main", "idle")
    /\ UNCHANGED <<environment, link, connected, escaped, gui, display>>

\* The waiting thread sets wait-thread-id to #f, and then starts the timer.
ThreadClears(t) ==
    /\ pc[t] = "wdone"
    /\ waitThreadId' = NoThread
    /\ Goto(t, "start")
    /\ UNCHANGED <<environment, link, connected, watch, created, closed, late, display>>

\* Faulty variant of ThreadStarts: the timer is started if wait-for-device has succeeded.
ThreadStartsIfFound(t) ==
    /\ pc[t] = "start"
    /\ timer' = IF connected THEN TRUE ELSE timer
    /\ Goto(t, "done")
    /\ UNCHANGED <<environment, link, connected, escaped, gui, display>>

ThreadStarts(t) ==
    /\ pc[t] = "start"
    /\ timer' = TRUE
    /\ Goto(t, "done")
    /\ UNCHANGED <<environment, link, connected, escaped, gui, display>>

Wait(t) == WaitConnect(t) \/ WaitStatus(t) \/ WaitReply(t)
WaitThread(t) == Wait(t) \/ ThreadClears(t) \/ ThreadStarts(t)

-----------------------------------------------------------------------------
(* fb-capture, the callback of the timer                                   *)

Tick ==
    /\ timer /\ pc["main"] = "idle"
    /\ Goto("main", "connect")
    /\ UNCHANGED <<environment, link, connected, watch, gui, display>>

CaptureConnect == pc["main"] = "connect" /\ Connect("main", "transport")

\* switch-socket-transport.  On FAIL the server closes its side, and the code,
\* which does not look at the result, goes on.
CaptureTransport ==
    /\ pc["main"] = "transport"
    /\ \/ /\ link["main"] = "open" /\ device
          /\ Goto("main", "status") /\ UNCHANGED <<link, connected, watch>>
       \/ /\ link["main"] = "open" /\ ~device
          /\ connected' = FALSE
          /\ SetLink("main", "broken") /\ Goto("main", "status") /\ UNCHANGED watch
       \/ Broken("main")
    /\ UNCHANGED <<environment, gui, display>>

CaptureStatus ==
    /\ pc["main"] = "status"
    /\ \/ /\ link["main"] = "open"
          /\ Goto("main", "frame") /\ UNCHANGED <<link, connected, watch, changes>>
       \/ link["main"] = "open" /\ Change /\ Refused("main")
       \/ link["main"] = "broken" /\ Refused("main") /\ UNCHANGED changes
       \/ Broken("main") /\ UNCHANGED changes
    /\ UNCHANGED <<server, device, gui, display>>

SizeOf(f) == IF f \in Wide THEN "wide" ELSE "narrow"

\* content-changed?, update-bitmap-size, set-argb-pixels: a bitmap of a new size
\* is blank and resets the hash.
Draw(f) ==
    LET resized == fbsize # SizeOf(f)
    IN  /\ fbsize' = SizeOf(f)
        /\ fbhash' = IF resized THEN NoFrame ELSE f
        /\ fbbitmap' = IF f \notin Undrawable THEN f
                       ELSE IF resized THEN NoFrame ELSE fbbitmap

EndQuery ==
    SetLink("main", "none") /\ Goto("main", "check") /\ UNCHANGED <<connected, watch>>

\* fb-callback with a whole frame.
CaptureFrame ==
    /\ pc["main"] = "frame" /\ link["main"] = "open"
    /\ \E f \in Frames :
         \/ f = fbhash /\ EndQuery /\ UNCHANGED display
         \/ f # fbhash /\ Draw(f) /\ IF f \in Undrawable THEN Raises("main") ELSE EndQuery
    /\ UNCHANGED <<environment, gui>>

\* Faulty variant of DropFrame: the hash of a corrupted frame is kept.
DropFrameHashed ==
    /\ pc["main"] = "frame" /\ link["main"] = "broken"
    /\ EndQuery /\ fbhash' \in Frames
    /\ UNCHANGED <<environment, gui, fbsize, fbbitmap>>

\* fb-callback with some bytes of a frame, or none.
DropFrame ==
    /\ pc["main"] = "frame" /\ link["main"] = "broken"
    /\ EndQuery \/ Broken("main")
    /\ UNCHANGED <<environment, gui, display>>

\* Faulty variant of CaptureCheck: the timer is left running.
CheckKeepsTimer ==
    /\ pc["main"] = "check"
    /\ IF connected \/ waitThreadId # NoThread
         THEN Goto("main", "idle") /\ UNCHANGED created
         ELSE \E t \in Threads :
                /\ pc[t] \in {"done", "raised"} /\ created' = t
                /\ pc' = [pc EXCEPT !["main"] = "assign", ![t] = "wconnect"]
    /\ UNCHANGED <<environment, link, connected, watch, waitThreadId, closed, late, display>>

\* Faulty variant of CaptureCheck: the timer is stopped though no thread is created.
CheckStopsFirst ==
    /\ pc["main"] = "check"
    /\ IF connected
         THEN Goto("main", "idle") /\ UNCHANGED <<timer, created>>
         ELSE /\ timer' = FALSE
              /\ \/ waitThreadId # NoThread /\ Goto("main", "idle") /\ UNCHANGED created
                 \/ waitThreadId = NoThread /\ \E t \in Threads :
                       /\ pc[t] \in {"done", "raised"} /\ created' = t
                       /\ pc' = [pc EXCEPT !["main"] = "assign", ![t] = "wconnect"]
    /\ UNCHANGED <<environment, link, connected, escaped, waitThreadId, closed, late, display>>

\* The query has returned connected.
CaptureCheck ==
    /\ pc["main"] = "check"
    /\ IF connected \/ waitThreadId # NoThread
         THEN Goto("main", "idle") /\ UNCHANGED <<timer, created>>
         ELSE \E t \in Threads :
                /\ pc[t] \in {"done", "raised"} /\ created' = t
                /\ timer' = FALSE
                /\ pc' = [pc EXCEPT !["main"] = "assign", ![t] = "wconnect"]
    /\ UNCHANGED <<environment, link, connected, escaped, waitThreadId, closed, late, display>>

\* The thread is running, and may be over, before wait-thread-id is set to it.
Assign ==
    /\ pc["main"] = "assign"
    /\ waitThreadId' = created /\ created' = NoThread
    /\ Goto("main", "idle")
    /\ UNCHANGED <<environment, link, connected, watch, closed, late, display>>

-----------------------------------------------------------------------------
\* Faulty variant of Close: the waiting thread is not killed.
CloseKillsNobody ==
    /\ pc["main"] = "idle" /\ ~closed
    /\ closed' = TRUE /\ timer' = FALSE
    /\ late' = \E t \in Threads : pc[t] = "start"
    /\ UNCHANGED <<environment, pc, link, connected, escaped, waitThreadId, created, display>>

\* on-close
Close ==
    /\ pc["main"] = "idle" /\ ~closed
    /\ closed' = TRUE /\ timer' = FALSE
    /\ late' = \E t \in Threads : pc[t] = "start"
    /\ IF waitThreadId = NoThread
         THEN UNCHANGED <<pc, link>>
         ELSE Goto(waitThreadId, "done") /\ SetLink(waitThreadId, "none")
    /\ UNCHANGED <<environment, connected, escaped, waitThreadId, created, display>>

Capture ==
    \/ CaptureConnect \/ CaptureTransport \/ CaptureStatus \/ CaptureFrame \/ DropFrame
    \/ CaptureCheck \/ Assign
Main == Wait("main") \/ MainStarts \/ Tick \/ Capture
Environment == ServerDies \/ ServerStarts \/ DevicePlugged \/ DeviceUnplugged

Next == Main \/ Close \/ Environment \/ \E t \in Threads : WaitThread(t)

Spec == Init /\ [][Next]_vars

\* Racket schedules every thread, and the timer ticks every fb-interval.  Nothing
\* makes the server, the device or the user do anything.
FairSpec == Spec /\ WF_vars(Main) /\ \A t \in Threads : WF_vars(WaitThread(t))

-----------------------------------------------------------------------------
(* Properties                                                              *)

PCs == {"wconnect", "wstatus", "wreply", "wdone", "start", "spin", "raised", "done",
        "idle", "connect", "transport", "status", "frame", "check", "assign"}

Alive(t) == pc[t] \notin {"done", "raised"}
InQuery(t) == pc[t] \in {"wconnect", "wstatus", "wreply", "spin",
                        "connect", "transport", "status", "frame", "check"}

\* connected is the field of one query: at most one thread is between the call
\* of query and the use of its result, though nothing but the stopped timer
\* keeps the main thread out.
OneQuery == \A s, t \in All : InQuery(s) /\ InQuery(t) => s = t

\* Before the window is closed the program always has a way on, the timer or a thread
\* that will start it, but for two cases, from which nothing leads back: an exception
\* has left the timer's callback or the waiting thread, or the thread spins.
Watching == timer \/ \E t \in Threads : Alive(t) /\ pc[t] # "spin"
Lost == escaped \/ \E t \in All : pc[t] = "spin"
KeepsWatching == pc["main"] = "idle" /\ ~closed => (Watching <=> ~Lost)

\* Closing the window ends everything: the timer, the polling and the waiting
\* thread, wherever it is.  The one exception is a thread that has set
\* wait-thread-id to #f and not yet started the timer: it starts it afterwards,
\* and the program polls on without a window.
ClosedMeansQuiet ==
    closed /\ ~late => ~timer /\ pc["main"] = "idle" /\ \A t \in Threads : ~Alive(t)

\* When a frame is read and the last hash is that of a frame, that frame is in the
\* bitmap: skipping an unchanged frame never leaves an older one in the window.  A
\* frame that could not be drawn has left its hash, but no frame is read after it.
HashIsShown == pc["main"] = "frame" /\ fbhash \in Frames => fbbitmap = fbhash

\* Once server and device stay, frames are read again and again, until the window
\* is closed, unless one of the two cases of KeepsWatching has happened (to the module
\* body, or to a poll or a waiting thread later).
Recovers ==
    <>[](server /\ device /\ ~closed) =>
        \/ <>[]Lost
        \/ []<>(pc["main"] = "frame" /\ link["main"] = "open")
=============================================================================

------------------------- MODULE SevenSquareProof -------------------------
(***************************************************************************)
(* The threads of seven-square never query the adb server at the same      *)
(* time, never all stop before the window is closed, and all stop when it  *)
(* is closed, but for the late thread; for any number of changes.          *)
(*                                                                         *)
(* Most steps are steps within one query: they change the pc of a thread,  *)
(* its link and `connected', and nothing of the gui, unless an exception   *)
(* ends the thread or the timer.  The proof takes them together as         *)
(* WaitMove and PollMove; what is left are the few steps at which the main *)
(* thread and a waiting thread act on each other.                          *)
(***************************************************************************)
EXTENDS SevenSquare, TLAPS

Waiting == {"wconnect", "wstatus", "wreply", "wdone", "spin", "raised"}
Polling == {"connect", "transport", "status", "frame", "check"}

WaitMove(t) ==
    /\ pc[t] \in {"wconnect", "wstatus", "wreply"}
    /\ \/ \E next \in Waiting \ {"raised"} : Goto(t, next) /\ UNCHANGED watch
       \/ /\ Goto(t, "raised")
          /\ escaped' = TRUE /\ timer' = IF t = "main" THEN FALSE ELSE timer
    /\ UNCHANGED gui

PollMove ==
    /\ pc["main"] \in Polling
    /\ \/ \E next \in Polling : Goto("main", next) /\ UNCHANGED watch
       \/ Goto("main", "idle") /\ escaped' = TRUE /\ timer' = FALSE
    /\ UNCHANGED gui

\* Who may be where: a waiting thread and the timer exclude each other, so at
\* most one waiting thread is alive, and only while the main thread does not poll.
Places ==
    /\ pc["main"] \in Waiting \cup Polling \cup {"idle", "assign"}
    /\ \A t \in Threads : pc[t] \in Waiting \cup {"start", "done"}

OneWaiter == \A s, t \in Threads : Alive(s) /\ Alive(t) => s = t

MainAlone ==
    /\ pc["main"] \in Waiting =>
         /\ ~timer /\ ~closed /\ waitThreadId = NoThread
         /\ \A t \in Threads : ~Alive(t)
    /\ pc["main"] \in Polling => timer

WaiterKnown ==
    \A t \in Threads : Alive(t) =>
        /\ ~timer
        /\ pc["main"] \in {"idle", "assign"}
        /\ pc["main"] = "idle" => waitThreadId = t \/ pc[t] = "start"
        /\ pc["main"] = "assign" => created = t

AssignPending ==
    pc["main"] = "assign" =>
        created \in Threads /\ (timer \/ Alive(created) \/ escaped)

Control == Places /\ OneWaiter /\ MainAlone /\ WaiterKnown /\ AssignPending

\* An exception that escapes is the last thing that happens but for Assign and Close.
EscapeEnds ==
    escaped => /\ ~timer /\ \A t \in Threads : ~Alive(t)
               /\ pc["main"] \in {"raised", "idle", "assign"}

\* There is a way on, a thread that spins counted as one.
Watched ==
    pc["main"] = "idle" /\ ~closed =>
        timer \/ escaped \/ \E t \in Threads : Alive(t)

PcOK == pc \in [All -> PCs] /\ waitThreadId \in Threads \cup {NoThread}

Inv == PcOK /\ Control /\ EscapeEnds /\ Watched /\ ClosedMeansQuiet

-----------------------------------------------------------------------------
\* The invariant holds when the module body starts, whether or not there is a server.
LEMMA InitInv == Init => Inv
  <1> SUFFICES ASSUME Init PROVE Inv
    OBVIOUS
  <1>1. pc["main"] = "wconnect" /\ \A t \in Threads : pc[t] = "done"
    BY SevenSquareAssumption DEF Init, All
  <1>2. PcOK
    BY DEF Init, PcOK, PCs
  <1>3. Control
    BY <1>1 DEF Init, Control, Places, OneWaiter, MainAlone, WaiterKnown, AssignPending,
         Alive, Waiting, Polling
  <1>4. EscapeEnds /\ Watched /\ ClosedMeansQuiet
    BY <1>1 DEF Init, EscapeEnds, Watched, ClosedMeansQuiet
  <1> QED BY <1>2, <1>3, <1>4 DEF Inv

\* Every step of wait-for-device before its end is a WaitMove.
LEMMA WaitMoves ==
    ASSUME NEW t \in All, Wait(t)
    PROVE  WaitMove(t)
  <1>1. CASE WaitConnect(t)
    BY <1>1 DEF WaitConnect, Connect, NetworkError, After, WaitMove, Waiting
  <1>2. CASE WaitStatus(t)
    BY <1>2 DEF WaitStatus, Refused, Broken, NetworkError, Raises, Uncaught, After,
         WaitMove, Waiting
  <1>3. CASE WaitReply(t)
    BY <1>3 DEF WaitReply, NetworkError, After, WaitMove, Waiting
  <1> QED BY <1>1, <1>2, <1>3 DEF Wait

\* Every step of a poll before CaptureCheck is a PollMove.
LEMMA PollMoves ==
    ASSUME \/ CaptureConnect \/ CaptureTransport \/ CaptureStatus \/ CaptureFrame
           \/ DropFrame
    PROVE  PollMove
  <1> USE DEF PollMove, Polling
  <1>1. CASE CaptureConnect
    BY <1>1 DEF CaptureConnect, Connect, NetworkError, After
  <1>2. CASE CaptureTransport
    BY <1>2 DEF CaptureTransport, Broken, NetworkError, Raises, Uncaught, After
  <1>3. CASE CaptureStatus
    BY <1>3 DEF CaptureStatus, Refused, Broken, NetworkError, Raises, Uncaught, After
  <1>4. CASE CaptureFrame
    BY <1>4 DEF CaptureFrame, EndQuery, Raises, Uncaught, After
  <1>5. CASE DropFrame
    BY <1>5 DEF DropFrame, EndQuery, Broken, NetworkError, Raises, Uncaught, After
  <1> QED BY <1>1, <1>2, <1>3, <1>4, <1>5

\* Server and device change links, and neither where a thread is nor the gui or the watch.
LEMMA EnvironmentMoves == Environment => UNCHANGED <<pc, watch, gui>>
  BY DEF Environment, ServerDies, ServerStarts, DevicePlugged, DeviceUnplugged

-----------------------------------------------------------------------------
\* What a step of thread t does to the pcs.
LEMMA GotoPc ==
    ASSUME PcOK, NEW t \in All, NEW next \in PCs, Goto(t, next)
    PROVE  /\ pc' \in [All -> PCs]
           /\ pc'[t] = next
           /\ \A s \in All : s # t => pc'[s] = pc[s]
  BY DEF PcOK, Goto

\* What a step of the main thread alone does to pc.
LEMMA GotoMain ==
    ASSUME PcOK, NEW next \in PCs, Goto("main", next)
    PROVE  /\ pc' \in [All -> PCs]
           /\ pc'["main"] = next
           /\ \A s \in Threads : pc'[s] = pc[s]
  BY GotoPc, SevenSquareAssumption DEF All

\* A step within wait-for-device keeps the invariant: the timer is off throughout.
LEMMA WaitMoveInv ==
    ASSUME Inv, NEW t \in All, WaitMove(t)
    PROVE  Inv'
  <1> USE DEF Inv
  <1>1. /\ pc[t] \in {"wconnect", "wstatus", "wreply"}
        /\ waitThreadId' = waitThreadId /\ created' = created
        /\ closed' = closed /\ late' = late
    BY DEF WaitMove, gui
  <1>2. ~timer /\ ~escaped
    <2>1. CASE t = "main"
      BY <1>1, <2>1 DEF Control, MainAlone, EscapeEnds, Waiting
    <2>2. CASE t \in Threads
      BY <1>1, <2>2 DEF Control, WaiterKnown, EscapeEnds, Alive
    <2> QED BY <2>1, <2>2 DEF All
  <1>3. PICK next \in Waiting : Goto(t, next) /\ ~timer' /\ (escaped' <=> next = "raised")
    <2>1. CASE \E next \in Waiting \ {"raised"} : Goto(t, next) /\ UNCHANGED watch
      BY <1>2, <2>1 DEF watch
    <2>2. CASE /\ Goto(t, "raised")
               /\ escaped' = TRUE /\ timer' = IF t = "main" THEN FALSE ELSE timer
      BY <1>2, <2>2 DEF Waiting
    <2> QED BY <2>1, <2>2 DEF WaitMove
  <1>4. /\ pc' \in [All -> PCs] /\ pc'[t] = next
        /\ \A s \in All : s # t => pc'[s] = pc[s]
    BY <1>3, GotoPc DEF PCs, Waiting
  <1>5. PcOK'
    BY <1>1, <1>4 DEF PcOK
  <1>6. CASE t = "main"
    <2>1. /\ pc["main"] \in Waiting /\ pc'["main"] = next
          /\ \A s \in Threads : pc'[s] = pc[s] /\ ~Alive(s)
      BY <1>1, <1>4, <1>6, SevenSquareAssumption DEF Waiting, All, Control, MainAlone
    <2>2. Control'
      BY <2>1, <1>1, <1>2, <1>3 DEF Control, Places, OneWaiter, MainAlone, WaiterKnown,
           AssignPending, Alive, Waiting, Polling
    <2>3. EscapeEnds' /\ Watched' /\ ClosedMeansQuiet'
      BY <2>1, <1>1, <1>2, <1>3 DEF Control, MainAlone, EscapeEnds, Watched,
           ClosedMeansQuiet, Waiting, Alive
    <2> QED BY <1>5, <2>2, <2>3
  <1>7. CASE t \in Threads
    <2>1. /\ pc'["main"] = pc["main"] /\ Alive(t) /\ pc'[t] = next
          /\ \A s \in Threads : s # t => pc'[s] = pc[s] /\ ~Alive(s)
          /\ pc["main"] \in {"idle", "assign"}
          /\ pc[t] # "start" /\ (Alive(t)' <=> ~escaped')
      BY <1>1, <1>3, <1>4, <1>7, SevenSquareAssumption
         DEF All, Alive, Waiting, Control, OneWaiter, WaiterKnown
    <2>2. Control'
      <3>1. Places' /\ OneWaiter'
        BY <2>1, <1>7 DEF Control, Places, OneWaiter, Alive
      <3>2. MainAlone' /\ WaiterKnown' /\ AssignPending'
        BY <2>1, <1>1, <1>2, <1>3, <1>7 DEF Control, MainAlone, WaiterKnown,
             AssignPending, Alive, Waiting, Polling
      <3> QED BY <3>1, <3>2 DEF Control
    <2>3. EscapeEnds' /\ Watched'
      BY <2>1, <1>2, <1>3, <1>7 DEF EscapeEnds, Watched, Alive
    <2>4. ClosedMeansQuiet'
      BY <2>1, <1>1, <1>7 DEF ClosedMeansQuiet
    <2> QED BY <1>5, <2>2, <2>3, <2>4
  <1> QED BY <1>6, <1>7 DEF All

\* A step within a query of fb-capture keeps the invariant: no thread is alive.
LEMMA PollMoveInv ==
    ASSUME Inv, PollMove
    PROVE  Inv'
  <1> USE DEF Inv
  <1>1. /\ waitThreadId' = waitThreadId /\ created' = created
        /\ closed' = closed /\ late' = late
        /\ pc["main"] \in Polling
    BY DEF PollMove, gui
  <1>2. timer /\ ~escaped /\ (closed => late) /\ \A t \in Threads : ~Alive(t)
    BY <1>1 DEF Control, MainAlone, WaiterKnown, EscapeEnds, ClosedMeansQuiet, Polling
  <1>3. CASE \E next \in Polling : Goto("main", next) /\ UNCHANGED watch
    <2>1. /\ pc' \in [All -> PCs] /\ pc'["main"] \in Polling
          /\ \A s \in Threads : pc'[s] = pc[s]
          /\ timer' = timer /\ escaped' = escaped
      BY <1>3, GotoMain DEF PCs, Polling, watch
    <2>2. PcOK'
      BY <1>1, <2>1 DEF PcOK
    <2>3. Control'
      BY <2>1, <1>1, <1>2 DEF Control, Places, OneWaiter, MainAlone, WaiterKnown,
           AssignPending, Alive, Waiting, Polling
    <2>4. EscapeEnds' /\ Watched' /\ ClosedMeansQuiet'
      BY <2>1, <1>1, <1>2 DEF EscapeEnds, Watched, ClosedMeansQuiet
    <2> QED BY <2>2, <2>3, <2>4
  <1>4. CASE Goto("main", "idle") /\ escaped' = TRUE /\ timer' = FALSE
    <2>1. /\ pc' \in [All -> PCs] /\ pc'["main"] = "idle"
          /\ \A s \in Threads : pc'[s] = pc[s]
      BY <1>4, GotoMain DEF PCs
    <2>2. PcOK'
      BY <1>1, <2>1 DEF PcOK
    <2>3. Control'
      BY <2>1, <1>1, <1>2, <1>4 DEF Control, Places, OneWaiter, MainAlone, WaiterKnown,
           AssignPending, Alive, Waiting, Polling
    <2>4. EscapeEnds' /\ Watched' /\ ClosedMeansQuiet'
      BY <2>1, <1>1, <1>2, <1>4 DEF EscapeEnds, Watched, ClosedMeansQuiet, Alive
    <2> QED BY <2>2, <2>3, <2>4
  <1> QED BY <1>3, <1>4 DEF PollMove

\* The module body ends: the timer runs, and no thread has been created yet.
LEMMA MainStartsInv == ASSUME Inv, MainStarts PROVE Inv'
  <1> USE DEF Inv
  <1>1. /\ pc' \in [All -> PCs] /\ pc'["main"] = "idle"
        /\ \A s \in Threads : pc'[s] = pc[s]
    <2>1. Goto("main", "idle") /\ "idle" \in PCs
      BY DEF MainStarts, PCs
    <2> QED BY <2>1, GotoMain
  <1>2. /\ timer' = TRUE /\ waitThreadId' = waitThreadId /\ closed' = closed
        /\ late' = late /\ pc["main"] \in Waiting /\ ~escaped'
    BY DEF MainStarts, gui, EscapeEnds, Waiting
  <1>3. PcOK'
    BY <1>1, <1>2 DEF PcOK
  <1>4. Control'
    BY <1>1, <1>2 DEF Control, Places, OneWaiter, MainAlone, WaiterKnown, AssignPending,
         Alive, Waiting, Polling
  <1>5. EscapeEnds' /\ Watched' /\ ClosedMeansQuiet'
    BY <1>2 DEF EscapeEnds, Watched, ClosedMeansQuiet, Control, MainAlone
  <1> QED BY <1>3, <1>4, <1>5

\* The timer calls fb-capture: it runs, so no waiting thread is alive.
LEMMA TickInv == ASSUME Inv, Tick PROVE Inv'
  <1> USE DEF Inv
  <1>1. /\ pc' \in [All -> PCs] /\ pc'["main"] = "connect"
        /\ \A s \in Threads : pc'[s] = pc[s]
    <2>1. Goto("main", "connect") /\ "connect" \in PCs
      BY DEF Tick, PCs
    <2> QED BY <2>1, GotoMain
  <1>2. /\ timer /\ timer' = timer /\ waitThreadId' = waitThreadId /\ closed' = closed
        /\ late' = late /\ ~escaped'
    BY DEF Tick, gui, watch, EscapeEnds
  <1>3. PcOK'
    BY <1>1, <1>2 DEF PcOK
  <1>4. Control'
    BY <1>1, <1>2 DEF Control, Places, OneWaiter, MainAlone, WaiterKnown, AssignPending,
         Alive, Waiting, Polling
  <1>5. EscapeEnds' /\ Watched' /\ ClosedMeansQuiet'
    BY <1>1, <1>2 DEF EscapeEnds, Watched, ClosedMeansQuiet
  <1> QED BY <1>3, <1>4, <1>5

\* A thread is created only when no other is alive: the timer was running.
LEMMA CaptureCheckInv == ASSUME Inv, CaptureCheck PROVE Inv'
  <1> USE DEF Inv
  <1>0. /\ pc["main"] = "check" /\ timer
        /\ \A s \in Threads : ~Alive(s)
        /\ waitThreadId' = waitThreadId /\ closed' = closed /\ late' = late /\ ~escaped'
    BY DEF CaptureCheck, Control, MainAlone, WaiterKnown, EscapeEnds, Polling
  <1>1. ~closed \/ late
    BY <1>0 DEF ClosedMeansQuiet
  <1>2. CASE Goto("main", "idle") /\ UNCHANGED <<timer, created>>
    <2>1. /\ pc' \in [All -> PCs] /\ pc'["main"] = "idle"
          /\ \A s \in Threads : pc'[s] = pc[s]
      BY <1>2, GotoMain DEF PCs
    <2>2. PcOK'
      BY <2>1, <1>0 DEF PcOK
    <2>3. Control'
      BY <2>1, <1>0, <1>2 DEF Control, Places, OneWaiter, MainAlone, WaiterKnown,
           AssignPending, Alive, Waiting, Polling
    <2>4. EscapeEnds' /\ Watched' /\ ClosedMeansQuiet'
      BY <1>0, <1>1, <1>2 DEF EscapeEnds, Watched, ClosedMeansQuiet
    <2> QED BY <2>2, <2>3, <2>4
  <1>3. ASSUME NEW t \in Threads, created' = t, timer' = FALSE,
               pc' = [pc EXCEPT !["main"] = "assign", ![t] = "wconnect"]
        PROVE  Inv'
    <2>1. /\ pc' \in [All -> PCs] /\ pc'["main"] = "assign" /\ pc'[t] = "wconnect"
          /\ \A s \in Threads : s # t => pc'[s] = pc[s]
      BY <1>3, SevenSquareAssumption DEF PcOK, PCs, All
    <2>2. PcOK'
      BY <2>1, <1>0 DEF PcOK
    <2>3. Control'
      BY <2>1, <1>0, <1>3 DEF Control, Places, OneWaiter, MainAlone, WaiterKnown,
           AssignPending, Alive, Waiting, Polling
    <2>4. EscapeEnds' /\ Watched' /\ ClosedMeansQuiet'
      BY <2>1, <1>0, <1>1 DEF EscapeEnds, Watched, ClosedMeansQuiet
    <2> QED BY <2>2, <2>3, <2>4
  <1> QED BY <1>2, <1>3 DEF CaptureCheck

\* The id of the thread is stored, although the thread may be over by now.
LEMMA AssignInv == ASSUME Inv, Assign PROVE Inv'
  <1> USE DEF Inv
  <1>1. /\ pc' \in [All -> PCs] /\ pc'["main"] = "idle"
        /\ \A s \in Threads : pc'[s] = pc[s]
    <2>1. Goto("main", "idle") /\ "idle" \in PCs
      BY DEF Assign, PCs
    <2> QED BY <2>1, GotoMain
  <1>2. /\ timer' = timer /\ waitThreadId' = created /\ closed' = closed /\ late' = late
        /\ pc["main"] = "assign" /\ escaped' = escaped
    BY DEF Assign, watch
  <1>3. PcOK'
    BY <1>1, <1>2 DEF PcOK, Control, AssignPending
  <1>4. Control'
    BY <1>1, <1>2 DEF Control, Places, OneWaiter, MainAlone, WaiterKnown, AssignPending,
         Alive, Waiting, Polling
  <1>5. EscapeEnds' /\ Watched' /\ ClosedMeansQuiet'
    BY <1>1, <1>2 DEF EscapeEnds, Watched, ClosedMeansQuiet, Control, AssignPending, Alive
  <1> QED BY <1>3, <1>4, <1>5

\* The waiting thread forgets its id; it still has to start the timer.
LEMMA ThreadClearsInv == ASSUME Inv, NEW t \in Threads, ThreadClears(t) PROVE Inv'
  <1> USE DEF Inv
  <1>1. /\ pc' \in [All -> PCs] /\ pc'[t] = "start" /\ pc'["main"] = pc["main"]
        /\ \A s \in Threads : s # t => pc'[s] = pc[s]
    BY GotoPc, SevenSquareAssumption DEF ThreadClears, PCs, All
  <1>2. /\ timer' = timer /\ waitThreadId' = NoThread /\ created' = created
        /\ closed' = closed /\ late' = late /\ pc[t] = "wdone" /\ Alive(t) /\ ~escaped'
    BY DEF ThreadClears, Alive, watch, EscapeEnds
  <1>3. PcOK'
    BY <1>1, <1>2 DEF PcOK
  <1>4. Control'
    BY <1>1, <1>2 DEF Control, Places, OneWaiter, MainAlone, WaiterKnown, AssignPending,
         Alive, Waiting, Polling
  <1>5. EscapeEnds' /\ Watched' /\ ClosedMeansQuiet'
    BY <1>1, <1>2 DEF EscapeEnds, Watched, ClosedMeansQuiet, Alive
  <1> QED BY <1>3, <1>4, <1>5

\* The waiting thread starts the timer as its last act, after a Close perhaps.
LEMMA ThreadStartsInv == ASSUME Inv, NEW t \in Threads, ThreadStarts(t) PROVE Inv'
  <1> USE DEF Inv
  <1>1. /\ pc' \in [All -> PCs] /\ pc'[t] = "done" /\ pc'["main"] = pc["main"]
        /\ \A s \in Threads : s # t => pc'[s] = pc[s]
    BY GotoPc, SevenSquareAssumption DEF ThreadStarts, PCs, All
  <1>2. /\ timer' = TRUE /\ waitThreadId' = waitThreadId /\ created' = created
        /\ closed' = closed /\ late' = late /\ Alive(t) /\ ~escaped'
    BY DEF ThreadStarts, gui, Alive, EscapeEnds
  <1>3. PcOK'
    BY <1>1, <1>2 DEF PcOK
  <1>4. Control'
    BY <1>1, <1>2 DEF Control, Places, OneWaiter, MainAlone, WaiterKnown, AssignPending,
         Alive, Waiting, Polling
  <1>5. EscapeEnds' /\ Watched' /\ ClosedMeansQuiet'
    BY <1>1, <1>2 DEF EscapeEnds, Watched, ClosedMeansQuiet
  <1> QED BY <1>3, <1>4, <1>5

\* The thread on-close does not kill is one at "start", and then late is set.
LEMMA CloseInv == ASSUME Inv, Close PROVE Inv'
  <1> USE DEF Inv
  <1>0. /\ pc["main"] = "idle" /\ timer' = FALSE /\ closed' = TRUE
        /\ waitThreadId' = waitThreadId /\ created' = created /\ escaped' = escaped
        /\ late' = \E t \in Threads : pc[t] = "start"
    BY DEF Close
  <1>1. /\ pc' \in [All -> PCs] /\ pc'["main"] = "idle"
        /\ \A s \in Threads : pc'[s] = IF s = waitThreadId THEN "done" ELSE pc[s]
    <2>1. CASE waitThreadId = NoThread
      BY <2>1, <1>0, SevenSquareAssumption DEF Close, PcOK
    <2>2. CASE waitThreadId \in Threads
      <3>1. Goto(waitThreadId, "done")
        BY <2>2, SevenSquareAssumption DEF Close
      <3> QED BY <3>1, <2>2, <1>0, GotoPc, SevenSquareAssumption DEF PCs, All
    <2> QED BY <2>1, <2>2 DEF PcOK
  <1>2. PcOK'
    BY <1>0, <1>1 DEF PcOK
  <1>3. Control'
    BY <1>0, <1>1 DEF Control, Places, OneWaiter, MainAlone, WaiterKnown, AssignPending,
         Alive, Waiting, Polling
  <1>4. EscapeEnds' /\ Watched' /\ ClosedMeansQuiet'
    BY <1>0, <1>1 DEF EscapeEnds, Watched, ClosedMeansQuiet, Control, WaiterKnown, Alive
  <1> QED BY <1>2, <1>3, <1>4

\* The invariant speaks of pc, gui and watch only.
LEMMA StutterInv == ASSUME Inv, UNCHANGED <<pc, watch, gui>> PROVE Inv'
  BY DEF gui, watch, Inv, PcOK, Control, Places, OneWaiter, MainAlone, WaiterKnown, AssignPending,
       EscapeEnds, Watched, ClosedMeansQuiet, Alive

\* Every step keeps the invariant, by the lemma for it.
THEOREM NextInv == Inv /\ [Next]_vars => Inv'
  <1> SUFFICES ASSUME Inv, [Next]_vars PROVE Inv'
    OBVIOUS
  <1>1. CASE UNCHANGED vars \/ Environment
    BY <1>1, EnvironmentMoves, StutterInv DEF vars
  <1>2. CASE Main
    <2>1. CASE Wait("main")
      BY <2>1, WaitMoves, WaitMoveInv DEF All
    <2>2. CASE MainStarts
      BY <2>2, MainStartsInv
    <2>3. CASE Tick
      BY <2>3, TickInv
    <2>4. CASE Capture
      BY <2>4, PollMoves, PollMoveInv, CaptureCheckInv, AssignInv DEF Capture
    <2> QED BY <1>2, <2>1, <2>2, <2>3, <2>4 DEF Main
  <1>3. CASE Close
    BY <1>3, CloseInv
  <1>4. ASSUME NEW t \in Threads, WaitThread(t) PROVE Inv'
    <2>1. CASE Wait(t)
      BY <2>1, WaitMoves, WaitMoveInv DEF All
    <2> QED BY <1>4, <2>1, ThreadClearsInv, ThreadStartsInv DEF WaitThread
  <1> QED BY <1>1, <1>2, <1>3, <1>4 DEF Next

\* Every behaviour of the program satisfies the inductive invariant.
THEOREM InvHolds == Spec => []Inv
  <1> QED BY InitInv, NextInv, PTL DEF Spec

\* At most one thread is within a query, so `connected' is never that of another.
THEOREM QueriesExclude == Spec => []OneQuery
  <1>1. Inv => OneQuery
    <2> SUFFICES ASSUME Inv, NEW s \in All, NEW t \in All, InQuery(s), InQuery(t)
                 PROVE  s = t
      BY DEF OneQuery
    <2>1. ASSUME NEW u \in Threads, InQuery(u) PROVE Alive(u) /\ ~InQuery("main")
      BY <2>1 DEF InQuery, Alive, Inv, Control, WaiterKnown
    <2> QED BY <2>1 DEF All, Inv, Control, OneWaiter
  <1> QED BY <1>1, InvHolds, PTL

\* Until it is closed, the program has a timer, or a thread that will start it, unless
\* an exception has escaped or a thread spins; and then it has neither.
THEOREM WatchKept == Spec => []KeepsWatching
  <1>1. Inv => KeepsWatching
    <2> SUFFICES ASSUME Inv, pc["main"] = "idle", ~closed PROVE Watching <=> ~Lost
      BY DEF KeepsWatching
    <2> USE DEF Inv
    <2>1. CASE escaped
      BY <2>1 DEF EscapeEnds, Watching, Lost
    <2>2. CASE ~escaped /\ \E t \in Threads : pc[t] = "spin"
      <3>1. PICK t \in Threads : pc[t] = "spin"
        BY <2>2
      <3>2. ~timer /\ \A s \in Threads : Alive(s) => s = t
        BY <3>1 DEF Control, OneWaiter, WaiterKnown, Alive
      <3> QED BY <3>1, <3>2 DEF Watching, Lost, All
    <2>3. CASE ~escaped /\ \A t \in Threads : pc[t] # "spin"
      BY <2>3 DEF Watched, Watching, Lost, All
    <2> QED BY <2>1, <2>2, <2>3
  <1> QED BY <1>1, InvHolds, PTL

\* Closing the window ends every activity, but for the late thread.
THEOREM CloseEnds == Spec => []ClosedMeansQuiet
  <1>1. Inv => ClosedMeansQuiet
    BY DEF Inv
  <1> QED BY <1>1, InvHolds, PTL

-----------------------------------------------------------------------------
\* The hash of a frame that is not in the bitmap is left by an exception.
HashKnown == fbhash \in Frames => fbbitmap = fbhash \/ escaped

\* A step that is not CaptureFrame leaves the display alone.
LEMMA DisplayKept ==
    ASSUME [Next]_vars, ~CaptureFrame
    PROVE  UNCHANGED display
  <1>1. ASSUME NEW t \in All, Wait(t) PROVE UNCHANGED display
    BY <1>1 DEF Wait, WaitConnect, Connect, WaitStatus, WaitReply
  <1>2. CASE UNCHANGED vars \/ Environment
    BY <1>2 DEF vars, Environment, ServerDies, ServerStarts, DevicePlugged,
         DeviceUnplugged
  <1>3. CASE Main
    BY <1>1, <1>3 DEF All, Main, MainStarts, Tick, Capture, CaptureConnect, Connect,
         CaptureTransport, CaptureStatus, DropFrame, CaptureCheck, Assign
  <1>4. ASSUME NEW t \in Threads, WaitThread(t) PROVE UNCHANGED display
    BY <1>1, <1>4 DEF All, WaitThread, ThreadClears, ThreadStarts
  <1> QED BY <1>2, <1>3, <1>4 DEF Next, Close

\* No step takes an exception back.
LEMMA EscapeStays ==
    ASSUME [Next]_vars
    PROVE  escaped' \in {escaped, TRUE}
  <1>1. ASSUME NEW t \in All, Wait(t) PROVE escaped' \in {escaped, TRUE}
    BY <1>1, WaitMoves DEF WaitMove, watch
  <1>2. CASE UNCHANGED vars \/ Environment
    BY <1>2, EnvironmentMoves DEF vars, watch
  <1>3. CASE Capture
    BY <1>3, PollMoves DEF Capture, PollMove, CaptureCheck, Assign, watch
  <1>4. CASE Main
    BY <1>1, <1>3, <1>4 DEF All, Main, MainStarts, Tick, watch
  <1>5. ASSUME NEW t \in Threads, WaitThread(t) PROVE escaped' \in {escaped, TRUE}
    BY <1>1, <1>5 DEF All, WaitThread, ThreadClears, ThreadStarts, watch
  <1> QED BY <1>2, <1>4, <1>5 DEF Next, Close

\* While a frame is read no exception has escaped, so a frame that is skipped because
\* its hash is that of the last one is the frame in the bitmap.
THEOREM HashShown == Spec => []HashIsShown
  <1>1. Init => HashKnown
    BY SevenSquareAssumption DEF Init, HashKnown
  <1>2. HashKnown /\ [Next]_vars => HashKnown'
    <2> SUFFICES ASSUME HashKnown, [Next]_vars PROVE HashKnown'
      OBVIOUS
    <2>1. CASE ~CaptureFrame
      <3>1. fbhash' = fbhash /\ fbbitmap' = fbbitmap
        BY <2>1, DisplayKept DEF display
      <3> QED BY <3>1, EscapeStays DEF HashKnown
    <2>2. CASE CaptureFrame
      <3>1. CASE EndQuery /\ UNCHANGED display
        BY <3>1 DEF EndQuery, watch, display, HashKnown
      <3>2. ASSUME NEW f \in Frames, Draw(f),
                   IF f \in Undrawable THEN Raises("main") ELSE EndQuery
            PROVE  HashKnown'
        BY <3>2, SevenSquareAssumption DEF Draw, Raises, HashKnown
      <3> QED BY <2>2, <3>1, <3>2 DEF CaptureFrame
    <2> QED BY <2>1, <2>2
  <1>3. Inv /\ HashKnown => HashIsShown
    BY DEF Inv, EscapeEnds, HashKnown, HashIsShown
  <1> QED BY <1>1, <1>2, <1>3, InvHolds, PTL DEF Spec
=============================================================================

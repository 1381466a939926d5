----------------------------- MODULE UEventView -----------------------------
(***************************************************************************)
(* tools/uevent-view/main.c: the loop of monitor_kevents over select and   *)
(* recv, and the signal handler that is to end it.                         *)
(*                                                                         *)
(* The kernel queues datagrams for the socket.  When there is no room it   *)
(* drops one and the next recv fails (ENOBUFS).  A signal is handled       *)
(* between any two steps; select, alone of the calls, blocks, and returns  *)
(* early when a signal is handled in it.  The text of a message is left    *)
(* out: messages are numbered as the kernel sends them.                    *)
(***************************************************************************)
EXTENDS Integers, Sequences, SequencesExt

CONSTANTS
    Room,           \* datagrams the socket buffer holds
    MaxMessages,    \* bound on the messages the kernel sends
    MaxSignals      \* bound on the signals

ASSUME ViewAssumption == Room \in Nat \ {0} /\ MaxMessages \in Nat /\ MaxSignals \in Nat

VARIABLES
    pc,          \* "open", "loop", "select", "recv", "dump", "test", "closed" or
                 \* "failed": monitor_kevents returned without close
    exit_flag,
    cnt,         \* the message in uevent_buf
    dumped,      \* the messages printed
    queue, error,         \* the socket in the kernel
    sent, signals,        \* how many messages and signals there were
    missed                \* history: the signals handled before select with the flag tested

kernel == <<queue, error, sent>>
vars == <<pc, exit_flag, cnt, dumped, kernel, signals, missed>>

Init ==
    /\ pc = "open" /\ exit_flag = FALSE /\ cnt = 0 /\ dumped = <<>>
    /\ queue = <<>> /\ error = FALSE /\ sent = 0 /\ signals = 0 /\ missed = 0

Ended == pc \in {"closed", "failed"}

-----------------------------------------------------------------------------
(* The kernel                                                              *)

\* Messages reach a socket that is bound and not closed.
Send ==
    /\ pc # "open" /\ ~Ended /\ sent < MaxMessages
    /\ sent' = sent + 1
    /\ IF Len(queue) < Room THEN queue' = Append(queue, sent') /\ UNCHANGED error
                            ELSE error' = TRUE /\ UNCHANGED queue
    /\ UNCHANGED <<pc, exit_flag, cnt, dumped, signals, missed>>

Readable == queue # <<>> \/ error

-----------------------------------------------------------------------------
(* The program                                                             *)

\* open_uevent_sock: socket or bind may fail.
Open ==
    /\ pc = "open"
    /\ pc' \in {"loop", "failed"}
    /\ UNCHANGED <<exit_flag, cnt, dumped, kernel, signals, missed>>

CallSelect ==
    /\ pc = "loop"
    /\ pc' = "select"
    /\ UNCHANGED <<exit_flag, cnt, dumped, kernel, signals, missed>>

Select ==
    /\ pc = "select" /\ Readable
    /\ pc' = "recv"
    /\ UNCHANGED <<exit_flag, cnt, dumped, kernel, signals, missed>>

\* Faulty variant of Recv: an error is passed over.
RecvRetries ==
    /\ pc = "recv"
    /\ IF error THEN pc' = "loop" /\ error' = FALSE /\ UNCHANGED <<queue, cnt>>
                ELSE pc' = "dump" /\ cnt' = Head(queue) /\ queue' = Tail(queue) /\ UNCHANGED error
    /\ UNCHANGED <<exit_flag, dumped, sent, signals, missed>>

Recv ==
    /\ pc = "recv"
    /\ IF error THEN pc' = "failed" /\ error' = FALSE /\ UNCHANGED <<queue, cnt>>
                ELSE pc' = "dump" /\ cnt' = Head(queue) /\ queue' = Tail(queue) /\ UNCHANGED error
    /\ UNCHANGED <<exit_flag, dumped, sent, signals, missed>>

Dump ==
    /\ pc = "dump"
    /\ dumped' = Append(dumped, cnt)
    /\ pc' = "test"
    /\ UNCHANGED <<exit_flag, cnt, kernel, signals, missed>>

TestFlag ==
    /\ pc = "test"
    /\ pc' = IF exit_flag THEN "closed" ELSE "loop"
    /\ UNCHANGED <<exit_flag, cnt, dumped, kernel, signals, missed>>

Missed == missed' = IF pc \in {"open", "loop"} THEN missed + 1 ELSE missed

\* Faulty variant of Signal: select goes on after the handler, as read and recv do.
SignalRestarts ==
    /\ ~Ended /\ signals < MaxSignals
    /\ signals' = signals + 1 /\ exit_flag' = TRUE /\ Missed
    /\ UNCHANGED <<pc, cnt, dumped, kernel>>

\* sig_hander.  A select that has something to read returns that.
Signal ==
    /\ ~Ended /\ signals < MaxSignals
    /\ signals' = signals + 1 /\ exit_flag' = TRUE /\ Missed
    /\ pc' = IF pc = "select" /\ ~Readable THEN "failed" ELSE pc
    /\ UNCHANGED <<cnt, dumped, kernel>>

Program == Open \/ CallSelect \/ Select \/ Recv \/ Dump \/ TestFlag
Next == Program \/ Signal \/ Send

\* The program runs on unless it blocks; nothing has to be sent or signalled.
Spec == Init /\ [][Next]_vars /\ WF_vars(Program)

-----------------------------------------------------------------------------
(* Properties                                                              *)

\* What is printed is what the kernel sent, in its order and without a gap: once a
\* message is lost nothing after it is printed.
NoSilentGap == IsPrefix(dumped, [n \in 1..sent |-> n])

\* A signal ends the program, unless every one was handled between the test of
\* exit_flag and select: then it takes a message or another signal, and without one the
\* program blocks for ever.
LostSignals == missed = signals /\ pc = "select" /\ ~Readable
SignalEnds == exit_flag ~> (Ended \/ []LostSignals)
=============================================================================

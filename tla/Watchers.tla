------------------------------ MODULE Watchers ------------------------------
(***************************************************************************)
(* The two tools that wait for the kernel and end by a signal: a user runs *)
(* UEventView or InotifyWatcher.                                           *)
(***************************************************************************)
EXTENDS UEventView, KernelMessage

CONSTANTS Queued, MaxEvents, MaxStops       \* see InotifyWatcher

ASSUME WatcherAssumption == Queued \in Nat \ {0} /\ MaxEvents \in Nat /\ MaxStops \in Nat

VARIABLES
    tool,        \* which of the two is run
    at, stopped, buffer, printed, events, watched, happened, overflown, stops, between, restarts

inotifyVars == <<at, stopped, buffer, printed, events, watched, happened, overflown, stops, between,
                 restarts>>

Inotify == INSTANCE InotifyWatcher

UEventRuns == tool = "uevent-view" /\ UNCHANGED <<tool, inotifyVars>>
InotifyRuns == tool = "inotify-watcher" /\ UNCHANGED <<tool, vars>>

WInit == tool \in {"uevent-view", "inotify-watcher"} /\ Init /\ Inotify!Init
WNext == (UEventRuns /\ Next) \/ (InotifyRuns /\ Inotify!Next)

\* A program that was started runs on unless it blocks; nothing else has to happen.
WSpec ==
    /\ WInit /\ [][WNext]_<<tool, vars, inotifyVars>>
    /\ WF_vars(UEventRuns /\ Program)
    /\ WF_inotifyVars(InotifyRuns /\ Inotify!Program)

-----------------------------------------------------------------------------
(* Properties                                                              *)

\* The watcher prints the events that have a name, in their order and each once; none
\* that was read is left out, though a signal may come while they are printed.  Where the
\* kernel's queue overflows, there is a gap and nothing printed says so.
PrintsWhatItRead ==
    LET kept == printed \o buffer \o events
    IN  /\ at \in {"test", "read", "closed"} => buffer = <<>>
        /\ 0 \notin ToSet(printed)
        /\ \A m, n \in DOMAIN kept : m < n /\ kept[n] # 0 => kept[m] < kept[n]
        /\ ToSet(kept) \subseteq ToSet(happened) \cup {0}
        /\ ~overflown => ToSet(happened) \subseteq ToSet(kept) \cup {0}

\* A signal ends the watcher, unless every one was handled between the test of `stopped'
\* and the return of read: the read blocks, or is restarted, and without an event the
\* program blocks for ever.  Where a read is not restarted, one that is blocked ends it.
StopEnds == stopped ~> (Inotify!Over \/ [](Inotify!Blocked /\ between = stops))

\* "Captial char as new line start" (main.c:77): a message of fields KEY=value is laid
\* out with each field on a line of its own and its key set off, as long as every value
\* has a lower case letter or digit, and none a capital.
Keys == {<<"K">>, <<"K", "/", "K">>}
Values == {<<"x">>, <<"/", "x">>, <<"x", "/">>, <<"x", "@", "x">>, <<"x", "=", "/">>}
Fields == {<<k, v>> : k \in Keys, v \in Values}
Written(s) == [n \in DOMAIN s |-> IF s[n] \in {"=", "@"} THEN Spaced(s[n]) ELSE s[n]]
KeysOnLines ==
    tool = "uevent-view" /\ pc = "open" /\ ~exit_flag =>
        \A path \in {<<>>} \cup Values, n \in 0..2 : \A fields \in [1..n -> Fields] :
            LET head    == <<"x", "@">> \o path \o <<"0">>
                text(f) == f[1] \o <<"=">> \o f[2] \o <<"0">>
            IN  dump_event(head \o FlattenSeq([m \in 1..n |-> text(fields[m])]))
                  = Written(head) \o FlattenSeq([m \in 1..n |-> <<LineBreak>> \o Written(text(fields[m]))])
                    \o <<EmptyLine>>
=============================================================================

---------------------------- MODULE KernelMessage ----------------------------
(***************************************************************************)
(* tools/uevent-view/main.c: dump_event, the layout of a dumped message.   *)
(*                                                                         *)
(* Characters are told apart as far as dump_event does: capitals, lower    *)
(* case letters and digits ("x"), "=" and "@" and the rest, of which "0"   *)
(* is the NUL that ends each field of a message.  What is printed is a     *)
(* sequence of characters and of what goes in between: LineBreak, "=" or   *)
(* "@" with spaces, and the empty line at the end.                         *)
(***************************************************************************)
EXTENDS Integers, Sequences, SequencesExt

Characters == {"K", "x", "=", "@", "/", "0"}
LineBreak == "line break"
Spaced(c) == <<"spaced", c>>
EmptyLine == "empty line"

\* Faulty variant of DumpChar: every other character ends a row of capitals.
DumpCharBreaks(d, c) ==
    IF c = "K" THEN [out |-> d.out \o (IF d.cap THEN <<c>> ELSE <<LineBreak, c>>), cap |-> TRUE]
    ELSE [out |-> Append(d.out, IF c \in {"=", "@"} THEN Spaced(c) ELSE c), cap |-> FALSE]

\* One turn of the loop; cap: a capital was the last of the letters and digits.
DumpChar(d, c) ==
    IF c = "K" THEN [out |-> d.out \o (IF d.cap THEN <<c>> ELSE <<LineBreak, c>>), cap |-> TRUE]
    ELSE IF c \in {"=", "@"} THEN [d EXCEPT !.out = Append(@, Spaced(c))]
    ELSE [out |-> Append(d.out, c), cap |-> d.cap /\ c # "x"]

dump_event(buf) ==
    Append(FoldLeft(DumpChar, [out |-> <<>>, cap |-> FALSE], buf).out, EmptyLine)
=============================================================================

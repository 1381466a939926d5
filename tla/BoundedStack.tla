---------------------------- MODULE BoundedStack ----------------------------
(***************************************************************************)
(* What c/producer-consumer/main.c promises, without threads, mutex or     *)
(* condition variable: the numbers DataNums, DataNums - 1, ..., 1 pass     *)
(* through a stack of bounded depth, each is handed out at most once, and  *)
(* the stack is closed only after the last number was pushed.  What is     *)
(* still on the stack when it is closed is never handed out.               *)
(***************************************************************************)
EXTENDS Naturals, Sequences

CONSTANTS Capacity,    \* greatest depth of the stack
          DataNums     \* numbers 1..DataNums are pushed, greatest first

VARIABLES toPush,      \* the next number to push; 0 when all were pushed
          stack,       \* numbers pushed and not yet handed out
          handedOut,   \* numbers handed out
          closed

absVars == <<toPush, stack, handedOut, closed>>

AbsInit ==
    /\ toPush = DataNums
    /\ stack = <<>>
    /\ handedOut = {}
    /\ closed = FALSE

Push ==
    /\ toPush > 0
    /\ Len(stack) < Capacity
    /\ stack' = Append(stack, toPush)
    /\ toPush' = toPush - 1
    /\ UNCHANGED <<handedOut, closed>>

Pop ==
    /\ ~closed
    /\ stack # <<>>
    /\ stack' = SubSeq(stack, 1, Len(stack) - 1)
    /\ handedOut' = handedOut \cup {stack[Len(stack)]}
    /\ UNCHANGED <<toPush, closed>>

Close ==
    /\ toPush = 0
    /\ closed' = TRUE
    /\ UNCHANGED <<toPush, stack, handedOut>>

AbsNext == Push \/ Pop \/ Close

AbsSpec == AbsInit /\ [][AbsNext]_absVars
=============================================================================

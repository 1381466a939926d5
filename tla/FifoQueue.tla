------------------------------ MODULE FifoQueue ------------------------------
(***************************************************************************)
(* What the queue of c/multi-thread-queue promises, without pointers or    *)
(* threads: the values 0, 1, ... Offers - 1 are offered in this order,     *)
(* each is accepted (or refused when memory is short), and the accepted    *)
(* ones leave in the order they came, each once.                           *)
(***************************************************************************)
EXTENDS Naturals, Sequences

CONSTANT Offers

VARIABLES offer,      \* the next value to offer
          contents,   \* accepted and not yet removed
          removed     \* removed, in order

absVars == <<offer, contents, removed>>

AbsInit == offer = 0 /\ contents = <<>> /\ removed = <<>>

Accept ==
    /\ offer < Offers
    /\ offer' = offer + 1
    /\ contents' = Append(contents, offer)
    /\ UNCHANGED removed

Refuse ==
    /\ offer < Offers
    /\ offer' = offer + 1
    /\ UNCHANGED <<contents, removed>>

Remove ==
    /\ contents # <<>>
    /\ contents' = Tail(contents)
    /\ removed' = Append(removed, Head(contents))
    /\ UNCHANGED offer

AbsNext == Accept \/ Refuse \/ Remove

AbsSpec == AbsInit /\ [][AbsNext]_absVars
=============================================================================

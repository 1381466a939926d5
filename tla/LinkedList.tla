----------------------------- MODULE LinkedList -----------------------------
(***************************************************************************)
(* c/multi-thread-queue/list.c: a circular doubly linked list.  A heap h   *)
(* is a record of three functions from addresses, next, prev and data, the *)
(* fields of list_t.  The list head is an address whose data is unused.    *)
(***************************************************************************)
EXTENDS Naturals, Sequences

CONSTANT NULL

ListInit(h, l) ==
    [h EXCEPT !.prev[l] = l, !.next[l] = l, !.data[l] = NULL]

\* LIST_IS_EMPTY
ListIsEmpty(h, l) == h.prev[l] = l /\ h.next[l] = l

\* list_new on the address n that malloc returned.
ListNew(h, n, v) == [ListInit(h, n) EXCEPT !.data[n] = v]

\* Faulty variant of ListAdd: the old tail is not linked to the new node.
ListAddHalf(h, l, n) ==
    [h EXCEPT !.next[n] = l, !.prev[n] = h.prev[l], !.prev[l] = n,
              !.next[l] = IF ListIsEmpty(h, l) THEN n ELSE @]

\* list_add inserts at the tail.  The case of the empty list is written out in
\* the code and is the general one with h.prev[l] = l.
ListAdd(h, l, n) ==
    [h EXCEPT !.next = [@ EXCEPT ![h.prev[l]] = n, ![n] = l],
              !.prev = [@ EXCEPT ![n] = h.prev[l], ![l] = n]]

\* list_remove unlinks n from the list l and leaves it linked to itself.
ListRemove(h, l, n) ==
    IF ListIsEmpty(h, l) THEN h
    ELSE [h EXCEPT !.next = [@ EXCEPT ![h.prev[n]] = h.next[n], ![n] = n],
                   !.prev = [@ EXCEPT ![h.next[n]] = h.prev[n], ![n] = n]]

\* list_free clears the fields before free().
ListFree(h, n) ==
    [h EXCEPT !.prev[n] = NULL, !.next[n] = NULL, !.data[n] = NULL]

-----------------------------------------------------------------------------
\* The heap holds, from l, exactly the nodes of the sequence chain: following
\* next gives them in order and prev in reverse order, back to l.
Holds(h, l, chain) ==
    LET ring == <<l>> \o chain
        n    == Len(ring)
        succ(i) == IF i = n THEN 1 ELSE i + 1
    IN  /\ \A i, j \in 1..n : ring[i] = ring[j] => i = j
        /\ \A i \in 1..n : /\ h.next[ring[i]] = ring[succ(i)]
                           /\ h.prev[ring[succ(i)]] = ring[i]
=============================================================================

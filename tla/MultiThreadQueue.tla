-------------------------- MODULE MultiThreadQueue --------------------------
(***************************************************************************)
(* c/multi-thread-queue: main.c and queue.c over the list of LinkedList.   *)
(* main() starts the provider, fills the queue, starts the consumers and   *)
(* joins them all.  A consumer announces itself (g_thread_count), sleeps   *)
(* on g_cond without a predicate, and then drains the queue.  The provider *)
(* polls g_thread_count and broadcasts g_cond once.                        *)
(*                                                                         *)
(* A critical section is one step: everything q_enqueue and q_dequeue      *)
(* touch is guarded by q->lock, and t_lock and g_lock guard one statement  *)
(* each.  Between two critical sections of a thread any other may run.     *)
(***************************************************************************)
EXTENDS LinkedList, FiniteSets, SequencesExt

CONSTANTS
    Consumers,     \* thread_nums threads
    Provider,
    Main,
    NodeNums,      \* node_nums: main() offers 0..NodeNums-1
    Addresses,     \* what malloc can return
    QHead,         \* the address of q->head
    SpuriousMax    \* bound on spurious wakeups in one behaviour

ASSUME ThreadsAssumption ==
    /\ IsFiniteSet(Consumers)
    /\ Provider \notin Consumers
    /\ Main \notin Consumers \cup {Provider}

ASSUME HeapAssumption ==
    /\ NULL \notin Addresses \cup {QHead}
    /\ QHead \notin Addresses
    /\ NodeNums \in Nat
    /\ SpuriousMax \in Nat

VARIABLES
    pc,           \* where each thread is
    threadCount,  \* g_thread_count
    h,            \* the heap: next, prev and data of every address
    mem,          \* addresses malloc has handed out and free has not taken back
    i,            \* the loop counter of main()
    count,        \* the consumers' count
    qlock,        \* q->lock: "none" before q_init, "usable", "destroyed"
    chain,        \* history: the nodes in the list, in the order they came
    removed,      \* history: the data of the nodes q_dequeue removed, in order
    spurious      \* spurious wakeups so far

queue == <<h, mem, qlock, chain, removed>>
vars == <<pc, threadCount, i, count, spurious, queue>>

Threads == Consumers \cup {Provider, Main}
Nodes   == Addresses \cup {QHead}

Init ==
    /\ pc = [t \in Threads |-> CASE t = Main -> "init"
                                 [] t = Provider -> "poll"
                                 [] OTHER -> "unborn"]
    /\ threadCount = 0
    /\ h = [next |-> [n \in Nodes |-> NULL], prev |-> [n \in Nodes |-> NULL],
            data |-> [n \in Nodes |-> NULL]]
    /\ mem = {}
    /\ i = 0
    /\ count = [c \in Consumers |-> 0]
    /\ qlock = "none"
    /\ chain = <<>>
    /\ removed = <<>>
    /\ spurious = 0

Go(t, from, to) == pc[t] = from /\ pc' = [pc EXCEPT ![t] = to]

-----------------------------------------------------------------------------
(* queue.c                                                                 *)

QInit ==
    /\ h' = ListInit(h, QHead)
    /\ qlock' = "usable"
    /\ UNCHANGED <<mem, chain, removed>>

\* q_enqueue when malloc succeeds, and when it does not.
QEnqueue(v) ==
    \E n \in Addresses \ mem :
        /\ h' = ListAdd(ListNew(h, n, v), QHead, n)
        /\ mem' = mem \cup {n}
        /\ chain' = Append(chain, n)
        /\ UNCHANGED <<qlock, removed>>

QEnqueueFails == UNCHANGED queue

QIsEmpty == ListIsEmpty(h, QHead)

\* The sequence s without its element e.
Without(s, e) == RemoveAt(s, CHOOSE k \in DOMAIN s : s[k] = e)

\* Faulty variant of QDequeue: takes the last node.
QDequeueLast ==
    LET n == h.prev[QHead]
    IN  /\ ~QIsEmpty
        /\ h' = ListFree(ListRemove(h, QHead, n), n)
        /\ mem' = mem \ {n}
        /\ chain' = Without(chain, n)
        /\ removed' = Append(removed, h.data[n])
        /\ UNCHANGED qlock

\* q_dequeue on a queue that is not empty: TRUE is returned.  The data of the
\* node is assigned to the parameter (queue.c:62) and reaches no caller.
QDequeue ==
    LET n == h.next[QHead]
    IN  /\ ~QIsEmpty
        /\ h' = ListFree(ListRemove(h, QHead, n), n)
        /\ mem' = mem \ {n}
        /\ chain' = Without(chain, n)
        /\ removed' = Append(removed, h.data[n])
        /\ UNCHANGED qlock

-----------------------------------------------------------------------------
(* consumer_thread                                                         *)

Announce(c) ==
    /\ Go(c, "start", "gate")
    /\ threadCount' = threadCount + 1
    /\ UNCHANGED <<i, count, spurious, queue>>

\* Lock g_lock and fall asleep on g_cond, whatever happened before.
GateWait(c) ==
    /\ Go(c, "gate", "asleep")
    /\ UNCHANGED <<threadCount, i, count, spurious, queue>>

\* pthread_cond_wait returns unasked.
SpuriousWakeup(c) ==
    /\ spurious < SpuriousMax
    /\ Go(c, "asleep", "drain")
    /\ spurious' = spurious + 1
    /\ UNCHANGED <<threadCount, i, count, queue>>

\* One turn of the loop.  The one that finds the queue empty is counted as well.
Drain(c) ==
    /\ pc[c] = "drain"
    /\ count' = [count EXCEPT ![c] = @ + 1]
    /\ \/ QDequeue /\ UNCHANGED pc
       \/ QIsEmpty /\ Go(c, "drain", "done") /\ UNCHANGED queue
    /\ UNCHANGED <<threadCount, i, spurious>>

Consumer(c) == Announce(c) \/ GateWait(c) \/ Drain(c)

-----------------------------------------------------------------------------
(* provider_thread                                                         *)

\* Faulty variant of SeeAll: waits for one consumer too many.
SeeMore ==
    /\ threadCount > Cardinality(Consumers)
    /\ Go(Provider, "poll", "open")
    /\ UNCHANGED <<threadCount, i, count, spurious, queue>>

\* The poll that ends the loop; g_thread_count is read without t_lock.
SeeAll ==
    /\ threadCount >= Cardinality(Consumers)
    /\ Go(Provider, "poll", "open")
    /\ UNCHANGED <<threadCount, i, count, spurious, queue>>

\* Lock g_lock and broadcast g_cond: every consumer asleep now goes on.
OpenGate ==
    /\ pc[Provider] = "open"
    /\ pc' = [t \in Threads |-> IF pc[t] = "asleep" THEN "drain"
                                ELSE IF t = Provider THEN "done" ELSE pc[t]]
    /\ UNCHANGED <<threadCount, i, count, spurious, queue>>

Provide == SeeAll \/ OpenGate

-----------------------------------------------------------------------------
(* main                                                                    *)

MainInit ==
    /\ Go(Main, "init", "fill")
    /\ QInit
    /\ UNCHANGED <<threadCount, i, count, spurious>>

\* One round of the filling loop; the result of q_enqueue is not looked at.
MainFills ==
    /\ pc[Main] = "fill"
    /\ i < NodeNums
    /\ i' = i + 1
    /\ QEnqueue(i) \/ QEnqueueFails
    /\ UNCHANGED <<pc, threadCount, count, spurious>>

MainCreates(c) ==
    /\ pc[Main] = "fill"
    /\ i = NodeNums
    /\ Go(c, "unborn", "start")
    /\ UNCHANGED <<threadCount, i, count, spurious, queue>>

\* Faulty variant of MainJoins: main waits for the provider only.
MainJoinsProvider ==
    /\ pc[Provider] = "done"
    /\ i = NodeNums
    /\ Go(Main, "fill", "clean")
    /\ UNCHANGED <<threadCount, i, count, spurious, queue>>

\* Both loops of pthread_join.
MainJoins ==
    /\ \A t \in Threads \ {Main} : pc[t] = "done"
    /\ i = NodeNums
    /\ Go(Main, "fill", "clean")
    /\ UNCHANGED <<threadCount, i, count, spurious, queue>>

\* q_clean: dequeue until FALSE, then destroy the mutex.
MainCleans ==
    /\ pc[Main] = "clean"
    /\ \/ QDequeue /\ UNCHANGED pc
       \/ /\ QIsEmpty
          /\ qlock' = "destroyed"
          /\ Go(Main, "clean", "done")
          /\ UNCHANGED <<h, mem, chain, removed>>
    /\ UNCHANGED <<threadCount, i, count, spurious>>

MainThread ==
    \/ MainInit
    \/ MainFills
    \/ \E c \in Consumers : MainCreates(c)
    \/ MainJoins
    \/ MainCleans

-----------------------------------------------------------------------------
AllDone == \A t \in Threads : pc[t] = "done"

Next ==
    \/ \E c \in Consumers : Consumer(c) \/ SpuriousWakeup(c)
    \/ Provide
    \/ MainThread

Spec == Init /\ [][Next]_vars

\* The scheduler runs every thread that can go on.
Fairness ==
    /\ \A c \in Consumers : WF_vars(Consumer(c))
    /\ WF_vars(Provide)
    /\ WF_vars(MainThread)

FairSpec == Spec /\ Fairness

-----------------------------------------------------------------------------
(* Properties                                                              *)

\* Whatever order consumers and main remove nodes in, the pointers form one ring
\* from the head through exactly the nodes that were added and not yet removed,
\* oldest first, and these are exactly the nodes malloc has handed out: nothing
\* leaks and no freed node is reachable.
ListIntact ==
    qlock # "none" => /\ Holds(h, QHead, chain)
                      /\ mem = {chain[k] : k \in 1..Len(chain)}

Finished == {c \in Consumers : pc[c] = "done"}

\* The counts the consumers print exceed the nodes removed by one each, as long as there
\* is a consumer at all.
Turns == UNION {{c} \X (1..count[c]) : c \in Consumers}
CountsRemovals ==
    Consumers # {} => Cardinality(Turns) = Len(removed) + Cardinality(Finished)

\* A consumer leaves only when the queue is empty for good, so q_clean finds
\* nothing, and the mutex is destroyed after its last use.  Each node was counted by
\* one consumer.
DrainedBeforeClean ==
    /\ Finished # {} => chain = <<>> /\ i = NodeNums
    /\ qlock = "destroyed" => Finished = Consumers /\ mem = {}
    /\ CountsRemovals

\* The queue implements the first-in first-out queue of FifoQueue.
Fifo == INSTANCE FifoQueue WITH
    Offers   <- NodeNums,
    offer    <- i,
    contents <- [k \in 1..Len(chain) |-> h.data[chain[k]]]

ImplementsFifo == Fifo!AbsSpec

\* "Wake up all consumer thread" (main.c:63): after the provider's broadcast no
\* consumer is asleep at the gate.  The code violates it: a consumer announces
\* itself and goes to sleep in two critical sections, and the broadcast may
\* come between them.
WakesAllConsumers ==
    pc[Provider] = "done" => \A c \in Consumers : pc[c] # "asleep"

\* The missed broadcast is the only way to hang: the program terminates with all
\* nodes removed, or some consumer sleeps for ever behind the opened gate.
HangsOnlyAtGate ==
    \/ <>(AllDone /\ mem = {})
    \/ \E c \in Consumers : <>[](pc[Provider] = "done" /\ pc[c] = "asleep")
=============================================================================

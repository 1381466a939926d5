-------------------------- MODULE ProducerConsumer --------------------------
(***************************************************************************)
(* c/producer-consumer/main.c: one producer and several consumers share a  *)
(* LIFO buffer under one mutex (c_lock) and ONE condition variable         *)
(* (c_cond), which both kinds of thread wait on and signal.  main() joins  *)
(* the producer, sets `end' and broadcasts.                                *)
(*                                                                         *)
(* A thread's place in its loop is pc[t]:                                  *)
(*   "lock"     about to call pthread_mutex_lock                           *)
(*   "locked"   owns c_lock, about to look at the shared state             *)
(*   "waiting"  asleep in pthread_cond_wait, c_lock released               *)
(*   "relock"   woken inside pthread_cond_wait, wants c_lock back          *)
(*   "unlock"   owns c_lock, about to release it and go round the loop     *)
(*   "exit"     a consumer that saw `end' and is about to release c_lock   *)
(*   "done"     the thread has returned                                    *)
(* and for main "join_producer" and "join_consumers" besides.              *)
(***************************************************************************)
EXTENDS Naturals, Sequences, FiniteSets

CONSTANTS
    Consumers,     \* CONSUMER_NUMS threads
    Producer,      \* the producer thread
    Main,          \* the thread that runs main()
    NoThread,      \* the owner of a free mutex
    BufferMax,     \* BUFFER_MAX
    DataNums,      \* DATA_NUMS
    SpuriousMax    \* bound on spurious wakeups in one behaviour

ASSUME ThreadsAssumption ==
    /\ IsFiniteSet(Consumers)
    /\ Producer \notin Consumers
    /\ Main \notin Consumers \cup {Producer}
    /\ NoThread \notin Consumers \cup {Producer, Main}

ASSUME SizesAssumption ==
    /\ BufferMax \in Nat \ {0}
    /\ DataNums \in Nat
    /\ SpuriousMax \in Nat

\* With as many consumers as twice the buffer, every thread can fall asleep
\* (see README): the code's 4 consumers and 3 slots are below the limit.
ASSUME FewConsumers == Cardinality(Consumers) \in 1..(2 * BufferMax - 1)

VARIABLES
    pc,            \* where each thread is
    owner,         \* the thread that owns c_lock
    end,           \* the flag main() sets
    buffer,        \* buffer[0..BUFFER_MAX-1]
    current,       \* number of slots in use, index of the next free one
    nums,          \* the producer's countdown
    taken,         \* history: the numbers each consumer took off the buffer;
                   \* its `score' is the size of that set
    spurious       \* spurious wakeups so far

vars == <<pc, owner, end, buffer, current, nums, taken, spurious>>
data == <<end, buffer, current, nums, taken>>

Threads == Consumers \cup {Producer, Main}
Waiting == {t \in Threads : pc[t] = "waiting"}
Asleep  == Waiting \cap Consumers

Init ==
    /\ pc = [t \in Threads |->
               IF t = Main THEN "join_producer"
               ELSE IF t = Producer /\ DataNums = 0 THEN "done" ELSE "lock"]
    /\ owner = NoThread
    /\ end = FALSE
    /\ buffer = [i \in 0..(BufferMax - 1) |-> 0]
    /\ current = 0
    /\ nums = DataNums
    /\ taken = [c \in Consumers |-> {}]
    /\ spurious = 0

-----------------------------------------------------------------------------
(* The pthread calls.                                                      *)

\* pthread_mutex_lock, and the same at the end of pthread_cond_wait.
Acquire(t, from, to) ==
    /\ pc[t] = from
    /\ owner = NoThread
    /\ owner' = t
    /\ pc' = [pc EXCEPT ![t] = to]
    /\ UNCHANGED <<data, spurious>>

Lock(t)   == Acquire(t, "lock", "locked")
Relock(t) == Acquire(t, "relock", "unlock")

\* pthread_cond_wait releases the mutex and falls asleep in one step.
CondWait(t) ==
    /\ pc' = [pc EXCEPT ![t] = "waiting"]
    /\ owner' = NoThread
    /\ UNCHANGED data

\* The threads a pthread_cond_signal may wake: one of those waiting, if any.
Signalled == IF Waiting = {} THEN {{}} ELSE {{w} : w \in Waiting}

\* t wakes the threads of `woken' and goes on to release the mutex.
WakeAndUnlock(t, woken) ==
    pc' = [u \in Threads |-> IF u = t THEN "unlock"
                              ELSE IF u \in woken THEN "relock" ELSE pc[u]]

\* A return from pthread_cond_wait nobody asked for (POSIX allows it).
SpuriousWakeup(t) ==
    /\ pc[t] = "waiting"
    /\ spurious < SpuriousMax
    /\ spurious' = spurious + 1
    /\ pc' = [pc EXCEPT ![t] = "relock"]
    /\ UNCHANGED <<owner, data>>

-----------------------------------------------------------------------------
(* consumer_thread                                                         *)

\* Faulty variant of Top: the oldest number, as if the buffer were a queue.
TopIsBottom == buffer[0]

\* The number on top of the buffer, buffer[current - 1].
Top == buffer[current - 1]

ConsumerSeesEnd(c) ==
    /\ pc[c] = "locked"
    /\ end
    /\ pc' = [pc EXCEPT ![c] = "exit"]
    /\ UNCHANGED <<owner, data, spurious>>

ConsumerWaits(c) ==
    /\ pc[c] = "locked"
    /\ ~end
    /\ current = 0
    /\ CondWait(c)
    /\ UNCHANGED spurious

\* Faulty variant of ConsumerTakes: a consumer that does not signal.
TakesSilently(c) ==
    /\ pc[c] = "locked"
    /\ ~end
    /\ current # 0
    /\ taken' = [taken EXCEPT ![c] = @ \cup {Top}]
    /\ current' = current - 1
    /\ WakeAndUnlock(c, {})
    /\ UNCHANGED <<owner, end, buffer, nums, spurious>>

ConsumerTakes(c) ==
    /\ pc[c] = "locked"
    /\ ~end
    /\ current # 0
    /\ taken' = [taken EXCEPT ![c] = @ \cup {Top}]
    /\ current' = current - 1
    /\ \E woken \in Signalled : WakeAndUnlock(c, woken)
    /\ UNCHANGED <<owner, end, buffer, nums, spurious>>

ConsumerUnlocks(c) ==
    /\ pc[c] \in {"unlock", "exit"}
    /\ owner' = NoThread
    /\ pc' = [pc EXCEPT ![c] = IF @ = "exit" THEN "done" ELSE "lock"]
    /\ UNCHANGED <<data, spurious>>

Consumer(c) ==
    \/ Lock(c)
    \/ ConsumerSeesEnd(c)
    \/ ConsumerWaits(c)
    \/ ConsumerTakes(c)
    \/ Relock(c)
    \/ ConsumerUnlocks(c)

-----------------------------------------------------------------------------
(* producer_thread                                                         *)

ProducerWaits ==
    /\ pc[Producer] = "locked"
    /\ current = BufferMax
    /\ CondWait(Producer)
    /\ UNCHANGED spurious

ProducerPuts ==
    /\ pc[Producer] = "locked"
    /\ current # BufferMax
    /\ buffer' = [buffer EXCEPT ![current] = nums]
    /\ current' = current + 1
    /\ nums' = nums - 1
    /\ \E woken \in Signalled : WakeAndUnlock(Producer, woken)
    /\ UNCHANGED <<owner, end, taken, spurious>>

\* The unlock and the test of the while loop.
ProducerUnlocks ==
    /\ pc[Producer] = "unlock"
    /\ owner' = NoThread
    /\ pc' = [pc EXCEPT ![Producer] = IF nums > 0 THEN "lock" ELSE "done"]
    /\ UNCHANGED <<data, spurious>>

Produce ==
    \/ Lock(Producer)
    \/ ProducerWaits
    \/ ProducerPuts
    \/ Relock(Producer)
    \/ ProducerUnlocks

-----------------------------------------------------------------------------
(* main                                                                    *)

\* Faulty variant of MainJoinsProducer: main does not wait for the producer.
JoinsNobody ==
    /\ pc[Main] = "join_producer"
    /\ pc' = [pc EXCEPT ![Main] = "lock"]
    /\ UNCHANGED <<owner, data, spurious>>

MainJoinsProducer ==
    /\ pc[Main] = "join_producer"
    /\ pc[Producer] = "done"
    /\ pc' = [pc EXCEPT ![Main] = "lock"]
    /\ UNCHANGED <<owner, data, spurious>>

\* Faulty variant of MainEnds: a signal where the code broadcasts.
EndsWithSignal ==
    /\ pc[Main] = "locked"
    /\ end' = TRUE
    /\ \E woken \in Signalled : WakeAndUnlock(Main, woken)
    /\ UNCHANGED <<owner, buffer, current, nums, taken, spurious>>

MainEnds ==
    /\ pc[Main] = "locked"
    /\ end' = TRUE
    /\ WakeAndUnlock(Main, Waiting)
    /\ UNCHANGED <<owner, buffer, current, nums, taken, spurious>>

MainUnlocks ==
    /\ pc[Main] = "unlock"
    /\ owner' = NoThread
    /\ pc' = [pc EXCEPT ![Main] = "join_consumers"]
    /\ UNCHANGED <<data, spurious>>

MainJoinsConsumers ==
    /\ pc[Main] = "join_consumers"
    /\ \A c \in Consumers : pc[c] = "done"
    /\ pc' = [pc EXCEPT ![Main] = "done"]
    /\ UNCHANGED <<owner, data, spurious>>

MainThread ==
    \/ MainJoinsProducer
    \/ Lock(Main)
    \/ MainEnds
    \/ MainUnlocks
    \/ MainJoinsConsumers

-----------------------------------------------------------------------------
AllDone == \A t \in Threads : pc[t] = "done"

\* The process has exited; nothing moves any more.
Exited == AllDone /\ UNCHANGED vars

Next ==
    \/ \E c \in Consumers : Consumer(c)
    \/ Produce
    \/ MainThread
    \/ \E t \in Consumers \cup {Producer} : SpuriousWakeup(t)
    \/ Exited

Spec == Init /\ [][Next]_vars

\* A thread that can go on for ever does take its next step (the scheduler
\* runs every thread).  No fairness of the mutex is assumed, and a spurious
\* wakeup never has to happen.
Fairness ==
    /\ \A c \in Consumers : WF_vars(Consumer(c))
    /\ WF_vars(Produce)
    /\ WF_vars(MainThread)

FairSpec == Spec /\ Fairness

-----------------------------------------------------------------------------
(* Properties                                                              *)

Data == 1..DataNums
Slots == {buffer[i] : i \in 0..(current - 1)}
AllTaken == UNION {taken[c] : c \in Consumers}

TypeOK ==
    /\ pc \in [Threads -> {"lock", "locked", "waiting", "relock", "unlock",
                           "exit", "done", "join_producer", "join_consumers"}]
    /\ owner \in Threads \cup {NoThread}
    /\ end \in BOOLEAN
    /\ buffer \in [0..(BufferMax - 1) -> 0..DataNums]
    /\ current \in 0..BufferMax
    /\ nums \in 0..DataNums
    /\ taken \in [Consumers -> SUBSET Data]
    /\ spurious \in 0..SpuriousMax

\* Every number of the countdown is in exactly one place: not produced yet,
\* in one slot of the buffer, or taken by one consumer.  None is lost,
\* duplicated or overwritten by the interleaving of producer and consumers.
ExactlyOnce ==
    /\ 1..nums \cup Slots \cup AllTaken = Data
    /\ \A i \in 0..(current - 1) : buffer[i] \notin 1..nums \cup AllTaken
    /\ \A i, j \in 0..(current - 1) : i # j => buffer[i] # buffer[j]
    /\ \A c \in Consumers :
         /\ taken[c] \cap 1..nums = {}
         /\ \A d \in Consumers \ {c} : taken[c] \cap taken[d] = {}

\* The single condition variable never swallows the wakeup that matters: if
\* the producer sleeps, there is something to take and a consumer that is not
\* asleep to take it (whose signal may go to another consumer instead of the
\* producer); and nobody is asleep once `end' is set.
NoLostWakeup ==
    /\ Producer \in Waiting =>
         /\ current > 0
         /\ \E c \in Consumers : c \notin Waiting /\ pc[c] # "done"
    /\ end => Waiting = {}

\* The count behind NoLostWakeup, an inductive invariant: a consumer falls
\* asleep only at an empty buffer, and each number put or taken since has
\* woken one sleeper.
WakeupBudget ==
    LET asleep == Cardinality(Asleep)
    IN  IF Producer \in Waiting
        THEN /\ current > 0
             /\ \/ asleep = 0
                \/ asleep + 2 * BufferMax <= Cardinality(Consumers) + current
        ELSE \/ asleep = 0
             \/ asleep + current <= Cardinality(Consumers)

\* The buffer implements the bounded stack of BoundedStack.
Stack == INSTANCE BoundedStack WITH
    Capacity  <- BufferMax,
    toPush    <- nums,
    stack     <- [i \in 1..current |-> buffer[i - 1]],
    handedOut <- AllTaken,
    closed    <- end

ImplementsStack == Stack!AbsSpec

\* The program terminates, and what the consumers leave behind is at most
\* one buffer's worth of numbers.
Termination ==
    <>(AllDone /\ Cardinality(Data \ AllTaken) <= BufferMax)
=============================================================================

------------------------ MODULE ProducerConsumerProof ------------------------
(***************************************************************************)
(* Proofs about ProducerConsumer, for every number of consumers below      *)
(* twice the buffer, every buffer and every countdown.                     *)
(*                                                                         *)
(* Inv is the inductive invariant: the types, the shape of the control     *)
(* (who can be where once main or a consumer has moved on) and the wakeup  *)
(* budget.  NoLostWakeup follows from it by arithmetic.                    *)
(***************************************************************************)
EXTENDS ProducerConsumer, FiniteSetTheorems, SequenceTheorems, TLAPS

Control ==
    /\ pc[Main] \notin {"waiting", "relock", "exit"}
    /\ pc[Main] # "join_producer" => pc[Producer] = "done"
    /\ end => pc[Main] # "join_producer"
    /\ end => Waiting = {}
    /\ \A c \in Consumers : pc[c] \in {"exit", "done"} => end
    /\ pc[Producer] \in {"lock", "locked"} => nums > 0
    /\ pc[Producer] = "done" => nums = 0

\* The numbers and where they are.
items == <<buffer, current, nums, taken>>

Inv == TypeOK /\ Control /\ WakeupBudget /\ ExactlyOnce

\* The sleeping consumers are a finite set, no larger than the consumers.
LEMMA SleepersCount ==
    /\ IsFiniteSet(Asleep)
    /\ Cardinality(Asleep) \in Nat
    /\ Cardinality(Consumers) \in Nat
    /\ Cardinality(Asleep) <= Cardinality(Consumers)
    /\ Asleep # {} <=> Cardinality(Asleep) # 0
BY ThreadsAssumption, FS_Subset, FS_CardinalityType, FS_EmptySet DEF Asleep

\* After one more consumer fell asleep the count is one higher, and it was
\* below the number of consumers before.
LEMMA OneMoreAsleep ==
    ASSUME NEW c \in Consumers, c \notin Asleep, Asleep' = Asleep \cup {c}
    PROVE  /\ Cardinality(Asleep') = Cardinality(Asleep) + 1
           /\ Cardinality(Asleep') <= Cardinality(Consumers)
<1>1. IsFiniteSet(Asleep) /\ IsFiniteSet(Consumers)
  BY SleepersCount, ThreadsAssumption
<1>2. Cardinality(Asleep') = Cardinality(Asleep) + 1
  BY <1>1, FS_AddElement
<1>3. Asleep' \subseteq Consumers
  BY DEF Asleep
<1> QED
  BY <1>1, <1>2, <1>3, FS_Subset

\* After one consumer was woken the count is one lower.
LEMMA OneLessAsleep ==
    ASSUME NEW c \in Asleep, Asleep' = Asleep \ {c}
    PROVE  Cardinality(Asleep') = Cardinality(Asleep) - 1
BY SleepersCount, FS_RemoveElement

\* Waking some sleepers removes exactly them from the wait set.
LEMMA WakeRemoves ==
    ASSUME TypeOK, NEW t \in Threads, t \notin Waiting,
           NEW woken \in SUBSET Waiting, WakeAndUnlock(t, woken)
    PROVE  /\ pc' \in [Threads -> {"lock", "locked", "waiting", "relock",
                     "unlock", "exit", "done", "join_producer", "join_consumers"}]
           /\ Waiting' = Waiting \ woken
           /\ Asleep' = Asleep \ woken
           /\ pc'[t] = "unlock"
           /\ \A u \in Threads \ {t} :
                pc'[u] = IF u \in woken THEN "relock" ELSE pc[u]
<1>1. \A u \in Threads \ {t} :
        pc'[u] = IF u \in woken THEN "relock" ELSE pc[u]
  BY DEF WakeAndUnlock
<1>2. pc'[t] = "unlock"
  BY DEF WakeAndUnlock
<1>3. pc' \in [Threads -> {"lock", "locked", "waiting", "relock",
                     "unlock", "exit", "done", "join_producer", "join_consumers"}]
  BY DEF WakeAndUnlock, TypeOK
<1>4. Waiting' = Waiting \ woken
  BY <1>1, <1>2 DEF Waiting
<1> QED
  BY <1>1, <1>2, <1>3, <1>4 DEF Asleep

-----------------------------------------------------------------------------
(* The wakeup budget under each way the wait set and `current' can change. *)

\* Waking one sleeper while `current' stays (a spurious wakeup).
LEMMA BudgetOneWoken ==
    ASSUME TypeOK, WakeupBudget, NEW w \in Waiting, w # Main,
           Waiting' = Waiting \ {w}, current' = current
    PROVE  WakeupBudget'
<1>1. current \in 0..BufferMax /\ BufferMax \in Nat \ {0}
  BY SizesAssumption DEF TypeOK
<1>2. CASE w = Producer
  <2>1. Asleep' = Asleep
    BY <1>2, ThreadsAssumption DEF Asleep
  <2>2. Producer \in Waiting /\ Producer \notin Waiting'
    BY <1>2
  <2> QED
    BY <1>1, <2>1, <2>2, SleepersCount DEF WakeupBudget
<1>3. CASE w # Producer
  <2>1. w \in Asleep /\ Asleep' = Asleep \ {w}
    BY <1>3 DEF Asleep, Waiting, Threads
  <2>2. Cardinality(Asleep') = Cardinality(Asleep) - 1
    BY <2>1, OneLessAsleep
  <2>3. Producer \in Waiting' <=> Producer \in Waiting
    BY <1>3
  <2> QED
    BY <1>1, <2>1, <2>2, <2>3, SleepersCount DEF WakeupBudget
<1> QED
  BY <1>2, <1>3

\* A number is put, and the signal wakes a sleeper if there is one.
LEMMA BudgetPut ==
    ASSUME TypeOK, WakeupBudget, Main \notin Waiting, Producer \notin Waiting,
           NEW woken \in Signalled, Waiting' = Waiting \ woken,
           current' = current + 1
    PROVE  WakeupBudget'
<1>1. current \in 0..BufferMax /\ BufferMax \in Nat \ {0}
  BY SizesAssumption DEF TypeOK
<1>2. Producer \notin Waiting'
  OBVIOUS
<1>3. Waiting \subseteq Consumers
  BY DEF Waiting, Threads
<1>4. CASE Waiting = {}
  <2>1. Asleep' = Asleep /\ Asleep = {}
    BY <1>4 DEF Asleep
  <2> QED
    BY <1>2, <2>1, FS_EmptySet DEF WakeupBudget
<1>5. CASE Waiting # {}
  <2>1. PICK w \in Waiting : woken = {w}
    BY <1>5 DEF Signalled
  <2>2. w \in Asleep /\ Asleep' = Asleep \ {w}
    BY <1>3, <2>1 DEF Asleep
  <2>3. Cardinality(Asleep') = Cardinality(Asleep) - 1
    BY <2>2, OneLessAsleep
  <2> QED
    BY <1>1, <1>2, <2>2, <2>3, SleepersCount DEF WakeupBudget
<1> QED
  BY <1>4, <1>5

\* A number is taken, and the signal wakes a sleeper if there is one.  This is
\* where fewer than 2 * BufferMax consumers are needed: if the last number is
\* taken while the producer sleeps, no consumer is left for the signal to go
\* to, so it goes to the producer.
LEMMA BudgetTake ==
    ASSUME TypeOK, WakeupBudget, Main \notin Waiting, current # 0,
           NEW woken \in Signalled, Waiting' = Waiting \ woken,
           current' = current - 1
    PROVE  WakeupBudget'
<1>1. current \in 1..BufferMax /\ BufferMax \in Nat \ {0}
  BY SizesAssumption DEF TypeOK
<1>2. CASE Waiting = {}
  <2>1. Asleep' = Asleep /\ Asleep = {} /\ Producer \notin Waiting'
    BY <1>2 DEF Asleep
  <2> QED
    BY <2>1, FS_EmptySet DEF WakeupBudget
<1>3. CASE Waiting # {}
  <2>1. PICK w \in Waiting : woken = {w}
    BY <1>3 DEF Signalled
  <2>2. CASE w = Producer
    <3>1. Asleep' = Asleep /\ Producer \in Waiting /\ Producer \notin Waiting'
      BY <2>1, <2>2, ThreadsAssumption DEF Asleep
    <3> QED
      BY <1>1, <3>1, SleepersCount DEF WakeupBudget
  <2>3. CASE w # Producer
    <3>1. w \in Asleep /\ Asleep' = Asleep \ {w}
      BY <2>1, <2>3 DEF Asleep, Waiting, Threads
    <3>2. Cardinality(Asleep') = Cardinality(Asleep) - 1
      BY <3>1, OneLessAsleep
    <3>3. Producer \in Waiting' <=> Producer \in Waiting
      BY <2>1, <2>3
    <3>4. Cardinality(Consumers) < 2 * BufferMax
      BY FewConsumers, <1>1, SleepersCount
    <3>5. CASE Producer \in Waiting
      <4>1. Cardinality(Asleep) + 2 * BufferMax <= Cardinality(Consumers) + current
        BY <1>1, <3>1, <3>5, SleepersCount DEF WakeupBudget
      <4>2. Cardinality(Asleep) < current
        BY <1>1, <3>4, <4>1, SleepersCount
      <4>3. current' > 0
        BY <1>1, <3>1, <4>2, SleepersCount
      <4> QED
        BY <1>1, <3>2, <3>3, <3>5, <4>1, <4>3, SleepersCount DEF WakeupBudget
    <3>6. CASE Producer \notin Waiting
      BY <1>1, <3>1, <3>2, <3>3, <3>6, SleepersCount DEF WakeupBudget
    <3> QED
      BY <3>5, <3>6
  <2> QED
    BY <2>2, <2>3
<1> QED
  BY <1>2, <1>3

\* A consumer falls asleep, at an empty buffer.
LEMMA BudgetConsumerWaits ==
    ASSUME TypeOK, WakeupBudget, NEW c \in Consumers, c \notin Waiting,
           current = 0, Waiting' = Waiting \cup {c}, current' = current
    PROVE  WakeupBudget'
<1>1. Producer \notin Waiting /\ Producer \notin Waiting'
  BY ThreadsAssumption DEF WakeupBudget
<1>2. c \notin Asleep /\ Asleep' = Asleep \cup {c}
  BY DEF Asleep
<1> QED
  BY <1>1, <1>2, OneMoreAsleep, SleepersCount DEF WakeupBudget

\* The producer falls asleep, at a full buffer.
LEMMA BudgetProducerWaits ==
    ASSUME TypeOK, WakeupBudget, Producer \notin Waiting,
           current = BufferMax, Waiting' = Waiting \cup {Producer},
           current' = current
    PROVE  WakeupBudget'
<1>1. Asleep' = Asleep /\ Producer \in Waiting'
  BY ThreadsAssumption DEF Asleep
<1> QED
  BY <1>1, SleepersCount, SizesAssumption DEF WakeupBudget

\* A broadcast leaves nobody asleep.
LEMMA BudgetBroadcast ==
    ASSUME Waiting' = {}
    PROVE  WakeupBudget'
<1>1. Asleep' = {} /\ Producer \notin Waiting'
  BY DEF Asleep
<1>2. Cardinality(Asleep') = 0
  BY <1>1, FS_EmptySet
<1> QED
  BY <1>1, <1>2 DEF WakeupBudget

\* Nobody falls asleep or is woken and `current' stays.
LEMMA BudgetSame ==
    ASSUME WakeupBudget, Waiting' = Waiting, UNCHANGED items
    PROVE  WakeupBudget'
BY DEF WakeupBudget, Asleep, items

-----------------------------------------------------------------------------
(* Where the numbers are: only putting and taking one moves any.           *)

\* ExactlyOnce speaks of the numbers only.
LEMMA OnceSame ==
    ASSUME ExactlyOnce, UNCHANGED items
    PROVE  ExactlyOnce'
BY DEF ExactlyOnce, items, Slots, AllTaken, Data

\* The producer moves nums to the first free slot.
LEMMA OncePut ==
    ASSUME TypeOK, ExactlyOnce, nums > 0, current # BufferMax,
           buffer' = [buffer EXCEPT ![current] = nums], current' = current + 1,
           nums' = nums - 1, taken' = taken
    PROVE  ExactlyOnce'
<1>1. /\ nums \in Nat /\ nums' \in Nat /\ current \in Nat
      /\ nums \in Data /\ 1..nums = 1..nums' \cup {nums} /\ nums \notin 1..nums'
  BY SizesAssumption DEF TypeOK, Data
<1>2. /\ 0..(current' - 1) = 0..(current - 1) \cup {current}
      /\ current \notin 0..(current - 1)
  BY <1>1
<1>3. /\ buffer'[current] = nums
      /\ \A i \in 0..(current - 1) : buffer'[i] = buffer[i]
  BY <1>1, SizesAssumption DEF TypeOK
<1>4. Slots' = Slots \cup {nums} /\ AllTaken' = AllTaken /\ Data' = Data
  BY <1>2, <1>3 DEF Slots, AllTaken, Data
<1>5. nums \notin AllTaken /\ \A i \in 0..(current - 1) : buffer[i] # nums
  BY <1>1 DEF ExactlyOnce, AllTaken
<1>6. (1..nums \cup Slots \cup AllTaken = Data)'
  BY <1>1, <1>4 DEF ExactlyOnce
<1>7. \A i \in 0..(current' - 1) : buffer'[i] \notin 1..nums' \cup AllTaken'
  BY <1>1, <1>2, <1>3, <1>4, <1>5 DEF ExactlyOnce
<1>8. \A i, j \in 0..(current' - 1) : i # j => buffer'[i] # buffer'[j]
  BY <1>2, <1>3, <1>5 DEF ExactlyOnce
<1>9. \A c \in Consumers :
         /\ taken'[c] \cap 1..nums' = {}
         /\ \A d \in Consumers \ {c} : taken'[c] \cap taken'[d] = {}
  BY <1>1 DEF ExactlyOnce
<1> QED
  BY <1>6, <1>7, <1>8, <1>9 DEF ExactlyOnce

\* A consumer moves the top slot to what it has taken.
LEMMA OnceTake ==
    ASSUME TypeOK, ExactlyOnce, NEW c \in Consumers, current # 0,
           taken' = [taken EXCEPT ![c] = @ \cup {Top}],
           current' = current - 1, UNCHANGED <<buffer, nums>>
    PROVE  Top \in Data /\ ExactlyOnce'
<1>1. /\ current \in Nat /\ current' \in Nat /\ current' = current - 1
      /\ 0..(current - 1) = 0..(current' - 1) \cup {current - 1}
      /\ current - 1 \notin 0..(current' - 1)
  BY SizesAssumption DEF TypeOK
<1>2. Slots = Slots' \cup {Top} /\ Top \in Slots
  BY <1>1 DEF Slots, Top
<1>3. Top \in Data /\ Top \notin 1..nums \cup AllTaken
  BY <1>1, <1>2 DEF ExactlyOnce, Top
<1>4. /\ taken'[c] = taken[c] \cup {Top}
      /\ \A d \in Consumers \ {c} : taken'[d] = taken[d]
  BY DEF TypeOK
<1>5. AllTaken' = AllTaken \cup {Top}
  BY <1>4 DEF AllTaken
<1>6. (1..nums \cup Slots \cup AllTaken = Data)'
  BY <1>2, <1>5 DEF ExactlyOnce, Data
<1>7. \A i \in 0..(current' - 1) : buffer'[i] \notin 1..nums' \cup AllTaken'
  BY <1>1, <1>5 DEF ExactlyOnce, Top
<1>8. \A i, j \in 0..(current' - 1) : i # j => buffer'[i] # buffer'[j]
  BY <1>1 DEF ExactlyOnce
<1>9. \A e \in Consumers : taken[e] \subseteq AllTaken
  BY DEF AllTaken
<1>10. \A e \in Consumers :
         /\ taken'[e] \cap 1..nums' = {}
         /\ \A d \in Consumers \ {e} : taken'[e] \cap taken'[d] = {}
  BY <1>3, <1>4, <1>9 DEF ExactlyOnce
<1> QED
  BY <1>3, <1>6, <1>7, <1>8, <1>10 DEF ExactlyOnce

-----------------------------------------------------------------------------
(* Inv is inductive: one lemma for main, producer, consumers, wakeups.     *)

PCs == {"lock", "locked", "waiting", "relock", "unlock", "exit", "done",
        "join_producer", "join_consumers"}

\* How the wait set changes when one thread moves.
LEMMA OneMoves ==
    ASSUME TypeOK, NEW t \in Threads, NEW p \in PCs,
           pc' = [pc EXCEPT ![t] = p]
    PROVE  /\ pc' \in [Threads -> PCs]
           /\ pc'[t] = p
           /\ \A u \in Threads \ {t} : pc'[u] = pc[u]
           /\ Waiting' = IF p = "waiting" THEN Waiting \cup {t} ELSE Waiting \ {t}
BY DEF TypeOK, PCs, Waiting

\* Producer, main and the consumers are different threads.
LEMMA ThreadsDiffer ==
    /\ Producer \in Threads /\ Main \in Threads /\ Consumers \subseteq Threads
    /\ Producer # Main /\ Producer \notin Consumers /\ Main \notin Consumers
BY ThreadsAssumption DEF Threads

\* The invariant holds when the threads have been created.
LEMMA InitInv == Init => Inv
<1> SUFFICES ASSUME Init PROVE Inv
  OBVIOUS
<1>1. Waiting = {} /\ Asleep = {}
  BY DEF Init, Waiting, Asleep
<1>2. TypeOK
  <2>1. pc \in [Threads -> PCs]
    BY DEF Init, PCs
  <2>2. buffer \in [0..(BufferMax - 1) -> 0..DataNums]
    BY SizesAssumption DEF Init
  <2>3. taken \in [Consumers -> SUBSET Data]
    BY DEF Init
  <2>4. owner \in Threads \cup {NoThread} /\ end \in BOOLEAN
    BY DEF Init
  <2>5. /\ current \in 0..BufferMax /\ nums \in 0..DataNums
        /\ spurious \in 0..SpuriousMax
    BY SizesAssumption DEF Init
  <2> QED
    BY <2>1, <2>2, <2>3, <2>4, <2>5 DEF TypeOK, PCs
<1>3. Control
  BY <1>1, SizesAssumption, ThreadsDiffer DEF Init, Control
<1>4. WakeupBudget
  BY <1>1, FS_EmptySet DEF WakeupBudget
<1>5. ExactlyOnce
  <2>1. 0..(current - 1) = {}
    BY DEF Init
  <2>2. Slots = {} /\ AllTaken = {}
    BY <2>1 DEF Init, Slots, AllTaken
  <2> QED
    BY <2>1, <2>2 DEF Init, ExactlyOnce, Data
<1> QED
  BY <1>2, <1>3, <1>4, <1>5 DEF Inv

\* The steps of main keep the invariant: the broadcast leaves nobody asleep.
LEMMA MainInv == Inv /\ MainThread => Inv'
<1> SUFFICES ASSUME Inv, MainThread PROVE Inv'
  OBVIOUS
<1> USE ThreadsDiffer DEF Inv
<1>1. CASE MainJoinsProducer
  <2>1. pc' \in [Threads -> PCs] /\ Waiting' = Waiting /\ UNCHANGED items
    BY <1>1, OneMoves DEF MainJoinsProducer, data, items, PCs, Waiting
  <2>2. TypeOK'
    BY <1>1, <2>1 DEF MainJoinsProducer, data, TypeOK, PCs
  <2>3. Control'
    BY <1>1, <2>1, OneMoves DEF MainJoinsProducer, data, Control, PCs
  <2> QED
    BY <2>1, <2>2, <2>3, BudgetSame, OnceSame DEF items
<1>2. CASE Lock(Main)
  <2>1. pc' \in [Threads -> PCs] /\ Waiting' = Waiting /\ UNCHANGED items
    BY <1>2, OneMoves DEF Lock, Acquire, data, items, PCs, Waiting
  <2>2. TypeOK'
    BY <1>2, <2>1 DEF Lock, Acquire, data, TypeOK, PCs
  <2>3. Control'
    BY <1>2, <2>1, OneMoves DEF Lock, Acquire, data, Control, PCs
  <2> QED
    BY <2>1, <2>2, <2>3, BudgetSame, OnceSame DEF items
<1>3. CASE MainEnds
  <2>1. Main \notin Waiting
    BY <1>3 DEF MainEnds, Waiting
  <2>2. /\ pc' \in [Threads -> PCs]
        /\ Waiting' = {}
        /\ pc'[Main] = "unlock"
        /\ \A u \in Threads \ {Main} :
             pc'[u] = IF u \in Waiting THEN "relock" ELSE pc[u]
    BY <1>3, <2>1, WakeRemoves DEF MainEnds, PCs
  <2>3. TypeOK'
    BY <1>3, <2>2 DEF MainEnds, TypeOK, PCs
  <2>4. Control'
    <3>1. pc[Producer] = "done" /\ Producer \notin Waiting
      BY <1>3 DEF MainEnds, Control, Waiting
    <3> QED
      BY <1>3, <2>2, <3>1 DEF MainEnds, Control
  <2>5. UNCHANGED items
    BY <1>3 DEF MainEnds, items
  <2> QED
    BY <2>2, <2>3, <2>4, <2>5, BudgetBroadcast, OnceSame
<1>4. CASE MainUnlocks
  <2>1. pc' \in [Threads -> PCs] /\ Waiting' = Waiting /\ UNCHANGED items
    BY <1>4, OneMoves DEF MainUnlocks, data, items, PCs, Waiting
  <2>2. TypeOK'
    BY <1>4, <2>1 DEF MainUnlocks, data, TypeOK, PCs
  <2>3. Control'
    BY <1>4, <2>1, OneMoves DEF MainUnlocks, data, Control, PCs
  <2> QED
    BY <2>1, <2>2, <2>3, BudgetSame, OnceSame DEF items
<1>5. CASE MainJoinsConsumers
  <2>1. pc' \in [Threads -> PCs] /\ Waiting' = Waiting /\ UNCHANGED items
    BY <1>5, OneMoves DEF MainJoinsConsumers, data, items, PCs, Waiting
  <2>2. TypeOK'
    BY <1>5, <2>1 DEF MainJoinsConsumers, data, TypeOK, PCs
  <2>3. Control'
    BY <1>5, <2>1, OneMoves DEF MainJoinsConsumers, data, Control, PCs
  <2> QED
    BY <2>1, <2>2, <2>3, BudgetSame, OnceSame DEF items
<1> QED
  BY <1>1, <1>2, <1>3, <1>4, <1>5 DEF MainThread

\* The steps of the producer keep the invariant: it falls asleep at a full buffer only,
\* where the budget leaves a consumer awake.
LEMMA ProducerInv == Inv /\ Produce => Inv'
<1> SUFFICES ASSUME Inv, Produce PROVE Inv'
  OBVIOUS
<1> USE ThreadsDiffer DEF Inv
<1>1. CASE Lock(Producer)
  <2>1. pc' \in [Threads -> PCs] /\ Waiting' = Waiting /\ UNCHANGED items
    BY <1>1, OneMoves DEF Lock, Acquire, data, items, PCs, Waiting
  <2>2. TypeOK'
    BY <1>1, <2>1 DEF Lock, Acquire, data, TypeOK, PCs
  <2>3. Control'
    BY <1>1, <2>1, OneMoves DEF Lock, Acquire, data, Control, PCs
  <2> QED
    BY <2>1, <2>2, <2>3, BudgetSame, OnceSame DEF items
<1>2. CASE ProducerWaits
  <2>1. /\ pc' \in [Threads -> PCs] /\ current' = current
        /\ Waiting' = Waiting \cup {Producer}
    BY <1>2, OneMoves DEF ProducerWaits, CondWait, data, PCs
  <2>2. Producer \notin Waiting
    BY <1>2 DEF ProducerWaits, Waiting
  <2>3. TypeOK'
    BY <1>2, <2>1 DEF ProducerWaits, CondWait, data, TypeOK, PCs
  <2>4. Control'
    <3>1. pc[Main] = "join_producer" /\ ~end
      BY <1>2 DEF ProducerWaits, Control
    <3> QED
      BY <1>2, <2>1, <3>1, OneMoves DEF ProducerWaits, CondWait, data, Control, PCs
  <2>5. current = BufferMax /\ UNCHANGED items
    BY <1>2 DEF ProducerWaits, CondWait, data, items
  <2> QED
    BY <2>1, <2>2, <2>3, <2>4, <2>5, BudgetProducerWaits, OnceSame
<1>3. CASE ProducerPuts
  <2>1. PICK woken \in Signalled : WakeAndUnlock(Producer, woken)
    BY <1>3 DEF ProducerPuts
  <2>2. woken \in SUBSET Waiting
    BY DEF Signalled
  <2>3. Producer \notin Waiting /\ Main \notin Waiting
    BY <1>3 DEF ProducerPuts, Waiting, Control
  <2>4. /\ pc' \in [Threads -> PCs]
        /\ Waiting' = Waiting \ woken
        /\ pc'[Producer] = "unlock"
        /\ \A u \in Threads \ {Producer} :
             pc'[u] = IF u \in woken THEN "relock" ELSE pc[u]
    BY <2>1, <2>2, <2>3, WakeRemoves DEF PCs
  <2>5. pc[Main] = "join_producer" /\ ~end /\ nums > 0
    BY <1>3 DEF ProducerPuts, Control
  <2>6. TypeOK'
    BY <1>3, <2>4, <2>5, SizesAssumption DEF ProducerPuts, TypeOK, PCs
  <2>7. Control'
    BY <1>3, <2>2, <2>3, <2>4, <2>5 DEF ProducerPuts, Control, Waiting
  <2>8. WakeupBudget'
    BY <1>3, <2>3, <2>4, BudgetPut DEF ProducerPuts
  <2>9. ExactlyOnce'
    BY <1>3, <2>5, OncePut DEF ProducerPuts
  <2> QED
    BY <2>6, <2>7, <2>8, <2>9
<1>4. CASE Relock(Producer)
  <2>1. pc' \in [Threads -> PCs] /\ Waiting' = Waiting /\ UNCHANGED items
    BY <1>4, OneMoves DEF Relock, Acquire, data, items, PCs, Waiting
  <2>2. TypeOK'
    BY <1>4, <2>1 DEF Relock, Acquire, data, TypeOK, PCs
  <2>3. Control'
    BY <1>4, <2>1, OneMoves DEF Relock, Acquire, data, Control, PCs
  <2> QED
    BY <2>1, <2>2, <2>3, BudgetSame, OnceSame DEF items
<1>5. CASE ProducerUnlocks
  <2>1. pc' \in [Threads -> PCs] /\ Waiting' = Waiting /\ UNCHANGED items
    BY <1>5, OneMoves DEF ProducerUnlocks, data, items, PCs, Waiting
  <2>2. TypeOK'
    BY <1>5, <2>1 DEF ProducerUnlocks, data, TypeOK, PCs
  <2>3. Control'
    BY <1>5, <2>1, OneMoves DEF ProducerUnlocks, data, Control, PCs, TypeOK
  <2> QED
    BY <2>1, <2>2, <2>3, BudgetSame, OnceSame DEF items
<1> QED
  BY <1>1, <1>2, <1>3, <1>4, <1>5 DEF Produce

\* The steps of a consumer keep the invariant: it falls asleep at an empty buffer only,
\* and a number taken pays for the sleeper it may wake.
LEMMA ConsumerInv == ASSUME NEW c \in Consumers, Inv, Consumer(c) PROVE Inv'
<1> USE ThreadsDiffer DEF Inv
<1>0. c \in Threads /\ c # Main /\ c # Producer
  OBVIOUS
<1>1. CASE Lock(c)
  <2>1. pc' \in [Threads -> PCs] /\ Waiting' = Waiting /\ UNCHANGED items
    BY <1>1, OneMoves DEF Lock, Acquire, data, items, PCs, Waiting
  <2>2. TypeOK'
    BY <1>1, <2>1 DEF Lock, Acquire, data, TypeOK, PCs
  <2>3. Control'
    BY <1>0, <1>1, <2>1, OneMoves DEF Lock, Acquire, data, Control, PCs
  <2> QED
    BY <2>1, <2>2, <2>3, BudgetSame, OnceSame DEF items
<1>2. CASE ConsumerSeesEnd(c)
  <2>1. pc' \in [Threads -> PCs] /\ Waiting' = Waiting /\ UNCHANGED items
    BY <1>2, OneMoves DEF ConsumerSeesEnd, data, items, PCs, Waiting
  <2>2. TypeOK'
    BY <1>2, <2>1 DEF ConsumerSeesEnd, data, TypeOK, PCs
  <2>3. Control'
    BY <1>0, <1>2, <2>1, OneMoves DEF ConsumerSeesEnd, data, Control, PCs
  <2> QED
    BY <2>1, <2>2, <2>3, BudgetSame, OnceSame DEF items
<1>3. CASE ConsumerWaits(c)
  <2>1. /\ pc' \in [Threads -> PCs] /\ current' = current
        /\ Waiting' = Waiting \cup {c}
    BY <1>0, <1>3, OneMoves DEF ConsumerWaits, CondWait, data, PCs
  <2>2. c \notin Waiting /\ current = 0
    BY <1>3 DEF ConsumerWaits, Waiting
  <2>3. TypeOK'
    BY <1>3, <2>1 DEF ConsumerWaits, CondWait, data, TypeOK, PCs
  <2>4. Control'
    BY <1>0, <1>3, <2>1, OneMoves DEF ConsumerWaits, CondWait, data, Control, PCs
  <2>5. UNCHANGED items
    BY <1>3 DEF ConsumerWaits, CondWait, data, items
  <2> QED
    BY <2>1, <2>2, <2>3, <2>4, <2>5, BudgetConsumerWaits, OnceSame
<1>4. CASE ConsumerTakes(c)
  <2>1. PICK woken \in Signalled : WakeAndUnlock(c, woken)
    BY <1>4 DEF ConsumerTakes
  <2>2. woken \in SUBSET Waiting
    BY DEF Signalled
  <2>3. c \notin Waiting /\ Main \notin Waiting
    BY <1>4 DEF ConsumerTakes, Waiting, Control
  <2>4. /\ pc' \in [Threads -> PCs]
        /\ Waiting' = Waiting \ woken
        /\ pc'[c] = "unlock"
        /\ \A u \in Threads \ {c} :
             pc'[u] = IF u \in woken THEN "relock" ELSE pc[u]
    BY <1>0, <2>1, <2>2, <2>3, WakeRemoves DEF PCs
  <2>5. TypeOK'
    <3>1. /\ taken' = [taken EXCEPT ![c] = @ \cup {Top}]
          /\ current' = current - 1 /\ current # 0
          /\ UNCHANGED <<owner, end, buffer, nums, spurious>>
      BY <1>4 DEF ConsumerTakes
    <3>2. Top \in Data
      BY <3>1, OnceTake
    <3>3. taken' \in [Consumers -> SUBSET Data]
      BY <3>1, <3>2 DEF TypeOK
    <3>4. current' \in 0..BufferMax
      BY <3>1, SizesAssumption DEF TypeOK
    <3> QED
      BY <2>4, <3>1, <3>3, <3>4 DEF TypeOK, PCs
  <2>6. Control'
    BY <1>0, <1>4, <2>2, <2>3, <2>4 DEF ConsumerTakes, Control, Waiting
  <2>7. WakeupBudget'
    BY <1>4, <2>3, <2>4, BudgetTake DEF ConsumerTakes
  <2>8. ExactlyOnce'
    BY <1>4, OnceTake DEF ConsumerTakes
  <2> QED
    BY <2>5, <2>6, <2>7, <2>8
<1>5. CASE Relock(c)
  <2>1. pc' \in [Threads -> PCs] /\ Waiting' = Waiting /\ UNCHANGED items
    BY <1>5, OneMoves DEF Relock, Acquire, data, items, PCs, Waiting
  <2>2. TypeOK'
    BY <1>5, <2>1 DEF Relock, Acquire, data, TypeOK, PCs
  <2>3. Control'
    BY <1>0, <1>5, <2>1, OneMoves DEF Relock, Acquire, data, Control, PCs
  <2> QED
    BY <2>1, <2>2, <2>3, BudgetSame, OnceSame DEF items
<1>6. CASE ConsumerUnlocks(c)
  <2>1. pc' \in [Threads -> PCs] /\ Waiting' = Waiting /\ UNCHANGED items
    BY <1>6, OneMoves DEF ConsumerUnlocks, data, items, PCs, Waiting
  <2>2. TypeOK'
    BY <1>6, <2>1 DEF ConsumerUnlocks, data, TypeOK, PCs
  <2>3. Control'
    BY <1>0, <1>6, <2>1, OneMoves DEF ConsumerUnlocks, data, Control, PCs
  <2> QED
    BY <2>1, <2>2, <2>3, BudgetSame, OnceSame DEF items
<1> QED
  BY <1>1, <1>2, <1>3, <1>4, <1>5, <1>6 DEF Consumer

\* A spurious wakeup leaves fewer asleep.
LEMMA SpuriousInv ==
    ASSUME NEW t \in Consumers \cup {Producer}, Inv, SpuriousWakeup(t) PROVE Inv'
<1> USE ThreadsDiffer DEF Inv, SpuriousWakeup
<1>0. t \in Threads /\ t # Main /\ t \in Waiting
  BY DEF Waiting
<1>1. /\ pc' \in [Threads -> PCs] /\ current' = current
      /\ Waiting' = Waiting \ {t}
  BY <1>0, OneMoves DEF data, PCs
<1>2. TypeOK'
  BY <1>1, SizesAssumption DEF data, TypeOK, PCs
<1>3. Control'
  BY <1>0, <1>1, OneMoves DEF data, Control, PCs
<1>4. WakeupBudget'
  BY <1>0, <1>1, BudgetOneWoken
<1>5. UNCHANGED items
  BY DEF data, items
<1> QED
  BY <1>2, <1>3, <1>4, <1>5, OnceSame

\* A step that changes nothing keeps the invariant.
LEMMA StutterInv == ASSUME Inv, UNCHANGED vars PROVE Inv'
<1>1. Waiting' = Waiting /\ UNCHANGED items
  BY DEF vars, Waiting, items
<1>2. TypeOK' /\ Control'
  BY <1>1 DEF Inv, vars, TypeOK, Control, Data
<1> QED
  BY <1>1, <1>2, BudgetSame, OnceSame DEF Inv

\* Every step keeps the invariant.
LEMMA InvInductive == Inv /\ [Next]_vars => Inv'
BY MainInv, ProducerInv, ConsumerInv, SpuriousInv, StutterInv DEF Next, Exited

\* Every behaviour of the program satisfies the inductive invariant.
THEOREM InvHolds == Spec => []Inv
BY InitInv, InvInductive, PTL DEF Spec

\* The types of the state: in particular `current' stays within the buffer and
\* the countdown never goes below zero.
THEOREM TypeCorrect == Spec => []TypeOK
BY InvHolds, PTL DEF Inv

\* No number is lost, duplicated or overwritten.
THEOREM EachNumberOnce == Spec => []ExactlyOnce
BY InvHolds, PTL DEF Inv

\* A sleeping producer always has a consumer awake to wake it, as long as there
\* are fewer than 2 * BufferMax consumers, and nobody sleeps through `end'.
THEOREM WakeupsSuffice == Spec => []NoLostWakeup
<1>1. Inv => NoLostWakeup
  <2> SUFFICES ASSUME Inv PROVE NoLostWakeup
    OBVIOUS
  <2>1. ASSUME Producer \in Waiting
        PROVE  current > 0 /\ \E c \in Consumers : c \notin Waiting /\ pc[c] # "done"
    <3>1. current > 0 /\ current <= BufferMax /\ current \in Nat /\ BufferMax \in Nat
      BY <2>1, SizesAssumption DEF Inv, WakeupBudget, TypeOK
    <3>2. Cardinality(Asleep) < Cardinality(Consumers)
      BY <2>1, <3>1, SizesAssumption, FewConsumers, SleepersCount
         DEF Inv, WakeupBudget
    <3>3. PICK c \in Consumers : c \notin Waiting
      <4>1. Asleep # Consumers
        BY <3>2, SleepersCount
      <4> QED
        BY <4>1 DEF Asleep
    <3>4. ~end
      BY <2>1 DEF Inv, Control
    <3> QED
      BY <3>1, <3>3, <3>4 DEF Inv, Control
  <2> QED
    BY <2>1 DEF NoLostWakeup, Inv, Control
<1> QED
  BY <1>1, InvHolds, PTL

-----------------------------------------------------------------------------
(* The buffer implements BoundedStack.                                     *)

StackOf == [i \in 1..current |-> buffer[i - 1]]

\* What the mapping takes for the stack is a sequence of `current' numbers.
LEMMA StackIsSeq ==
    ASSUME TypeOK
    PROVE  StackOf \in Seq(0..DataNums) /\ Len(StackOf) = current
<1>1. current \in Nat /\ \A i \in 1..current : buffer[i - 1] \in 0..DataNums
  BY SizesAssumption DEF TypeOK
<1> QED
  BY <1>1 DEF StackOf

\* A sequence of length n is the function of its elements on 1..n.
LEMMA SeqAsFunction ==
    ASSUME NEW S, NEW a \in Seq(S), NEW n \in Nat, Len(a) = n
    PROVE  a = [i \in 1..n |-> a[i]]
OBVIOUS

\* Putting nums in the first free slot appends it to the stack.
LEMMA PutAppends ==
    ASSUME TypeOK, current # BufferMax, nums \in Nat,
           buffer' = [buffer EXCEPT ![current] = nums], current' = current + 1
    PROVE  StackOf' = Append(StackOf, nums)
<1>1. /\ current \in 0..(BufferMax - 1) /\ current \in Nat
      /\ buffer \in [0..(BufferMax - 1) -> 0..DataNums]
  BY SizesAssumption DEF TypeOK
<1>2. StackOf' = [i \in 1..(current + 1) |-> buffer'[i - 1]]
  BY DEF StackOf
<1>3. buffer'[current] = nums
  BY <1>1
<1>4. \A i \in 1..current : buffer'[i - 1] = buffer[i - 1]
  BY <1>1
<1>5. Len(StackOf) = current /\ StackOf \in Seq(0..DataNums)
  BY StackIsSeq
<1>6. Append(StackOf, nums) =
        [i \in 1..(current + 1) |-> IF i = current + 1 THEN nums ELSE StackOf[i]]
  <2>1. nums \in 0..DataNums
    BY DEF TypeOK
  <2>2. /\ Append(StackOf, nums) \in Seq(0..DataNums)
        /\ Len(Append(StackOf, nums)) = current + 1
        /\ \A i \in 1..current : Append(StackOf, nums)[i] = StackOf[i]
        /\ Append(StackOf, nums)[current + 1] = nums
    BY <1>5, <2>1, AppendProperties
  <2>3. Append(StackOf, nums) =
          [i \in 1..(current + 1) |-> Append(StackOf, nums)[i]]
    <3>1. current + 1 \in Nat
      BY <1>1
    <3> QED
      BY <2>2, <3>1, SeqAsFunction, Zenon
  <2>4. \A i \in 1..(current + 1) : Append(StackOf, nums)[i] =
          IF i = current + 1 THEN nums ELSE StackOf[i]
    BY <1>1, <2>2
  <2> QED
    BY ONLY <2>3, <2>4, Zenon
<1>7. ASSUME NEW i \in 1..(current + 1)
      PROVE  buffer'[i - 1] = IF i = current + 1 THEN nums ELSE StackOf[i]
  BY <1>1, <1>3, <1>4 DEF StackOf
<1> QED
  BY <1>2, <1>6, <1>7

\* Taking a number leaves the stack without its last element.
LEMMA TakePops ==
    ASSUME TypeOK, current # 0, buffer' = buffer, current' = current - 1
    PROVE  /\ StackOf # <<>>
           /\ StackOf' = SubSeq(StackOf, 1, Len(StackOf) - 1)
           /\ Top = StackOf[Len(StackOf)]
<1>1. current \in Nat \ {0}
  BY SizesAssumption DEF TypeOK
<1>2. Len(StackOf) = current /\ StackOf \in Seq(0..DataNums)
  BY StackIsSeq
<1>3. StackOf' = [i \in 1..(current - 1) |-> buffer[i - 1]]
  BY DEF StackOf
<1>4. SubSeq(StackOf, 1, current - 1) = [i \in 1..(current - 1) |-> StackOf[i]]
  BY <1>1, <1>2
<1>5. \A i \in 1..(current - 1) : StackOf[i] = buffer[i - 1]
  BY <1>1 DEF StackOf
<1>6. Top = StackOf[current]
  BY <1>1 DEF StackOf, Top
<1> QED
  BY <1>1, <1>2, <1>3, <1>4, <1>5, <1>6

\* The threads start as the bounded stack does.
LEMMA RefinedInit == Init => Stack!AbsInit
<1> SUFFICES ASSUME Init PROVE Stack!AbsInit
  OBVIOUS
<1>1. StackOf = <<>>
  BY DEF Init, StackOf
<1>2. AllTaken = {}
  BY DEF Init, AllTaken
<1> QED
  BY <1>1, <1>2 DEF Init, Stack!AbsInit, StackOf

\* A step that leaves the data alone is no step of the bounded stack.
LEMMA RefinedStutter ==
    ASSUME UNCHANGED <<items, end>>
    PROVE  UNCHANGED Stack!absVars
BY DEF items, Stack!absVars, AllTaken

\* Every step of the threads is one of the bounded stack, or none: ProducerPuts is Push,
\* ConsumerTakes is Pop, MainEnds is Close.
LEMMA RefinedStep == Inv /\ [Next]_vars => [Stack!AbsNext]_(Stack!absVars)
<1> SUFFICES ASSUME Inv, [Next]_vars PROVE [Stack!AbsNext]_(Stack!absVars)
  OBVIOUS
<1> USE DEF Inv, items
<1>1. CASE ProducerPuts
  <2>1. nums > 0 /\ nums \in Nat /\ current # BufferMax
    BY <1>1, SizesAssumption DEF ProducerPuts, Control, TypeOK
  <2>2. StackOf' = Append(StackOf, nums)
    BY <1>1, <2>1, PutAppends DEF ProducerPuts
  <2>3. Len(StackOf) < BufferMax
    BY <2>1, StackIsSeq, SizesAssumption DEF TypeOK
  <2>4. AllTaken' = AllTaken /\ nums' = nums - 1 /\ end' = end
    BY <1>1 DEF ProducerPuts, AllTaken
  <2>5. Stack!Push
    BY <2>1, <2>2, <2>3, <2>4 DEF Stack!Push, StackOf
  <2> QED
    BY <2>5 DEF Stack!AbsNext
<1>2. ASSUME NEW c \in Consumers, ConsumerTakes(c) PROVE Stack!AbsNext
  <2>1. /\ StackOf # <<>>
        /\ StackOf' = SubSeq(StackOf, 1, Len(StackOf) - 1)
        /\ Top = StackOf[Len(StackOf)]
    BY <1>2, TakePops DEF ConsumerTakes
  <2>2. AllTaken' = AllTaken \cup {Top}
    BY <1>2 DEF ConsumerTakes, AllTaken, TypeOK
  <2>3. ~end /\ nums' = nums /\ end' = end
    BY <1>2 DEF ConsumerTakes
  <2>4. Stack!Pop
    BY <2>1, <2>2, <2>3 DEF Stack!Pop, StackOf
  <2> QED
    BY <2>4 DEF Stack!AbsNext
<1>3. CASE MainEnds
  <2>1. nums = 0
    BY <1>3 DEF MainEnds, Control
  <2>2. StackOf' = StackOf /\ AllTaken' = AllTaken /\ nums' = nums /\ end' = TRUE
    BY <1>3 DEF MainEnds, StackOf, AllTaken
  <2>3. Stack!Close
    BY <2>1, <2>2 DEF Stack!Close, StackOf
  <2> QED
    BY <2>3 DEF Stack!AbsNext
<1>4. ASSUME UNCHANGED data PROVE UNCHANGED Stack!absVars
  BY <1>4, RefinedStutter DEF data
<1>5. ASSUME NEW c \in Consumers, Consumer(c), ~ConsumerTakes(c)
      PROVE  UNCHANGED data
  BY <1>5 DEF Consumer, Lock, Relock, Acquire, ConsumerSeesEnd, ConsumerWaits,
              CondWait, ConsumerUnlocks
<1>6. ASSUME Produce, ~ProducerPuts PROVE UNCHANGED data
  BY <1>6 DEF Produce, Lock, Relock, Acquire, ProducerWaits, CondWait,
              ProducerUnlocks
<1>7. ASSUME MainThread, ~MainEnds PROVE UNCHANGED data
  BY <1>7 DEF MainThread, Lock, Acquire, MainJoinsProducer, MainUnlocks,
              MainJoinsConsumers
<1>8. ASSUME NEW t \in Consumers \cup {Producer}, SpuriousWakeup(t)
      PROVE  UNCHANGED data
  BY <1>8 DEF SpuriousWakeup
<1>9. ASSUME UNCHANGED vars PROVE UNCHANGED data
  BY <1>9 DEF vars, data
<1> QED
  BY <1>1, <1>2, <1>3, <1>4, <1>5, <1>6, <1>7, <1>8, <1>9 DEF Next, Exited

\* Every behaviour of the threads is a behaviour of the bounded stack: numbers
\* come out last in first out, none after `end', and `end' only after the last
\* was put.
THEOREM BufferIsBoundedStack == Spec => ImplementsStack
  BY RefinedInit, RefinedStep, InvHolds, PTL DEF Spec, ImplementsStack, Stack!AbsSpec
=============================================================================

\* Three consumers and two slots, the most consumers two slots allow; two numbers
\* more than the slots hold: the buffer fills, the producer sleeps, all resume.
CONSTANTS
    Consumers = {c1, c2, c3}
    Producer = producer
    Main = main
    NoThread = none
    BufferMax = 2
    DataNums = 4
    SpuriousMax = 1
SPECIFICATION FairSpec
INVARIANTS
    ExactlyOnce
    NoLostWakeup
PROPERTIES
    ImplementsStack
    Termination

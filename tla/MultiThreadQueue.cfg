\* Three consumers compete for four nodes.  The program may hang (see
\* WakesAllConsumers): deadlock is not an error here.
CONSTANTS
    NULL = NULL
    Consumers = {c1, c2, c3}
    Provider = provider
    Main = main
    NodeNums = 4
    Addresses = {a1, a2, a3, a4}
    QHead = qhead
    SpuriousMax = 1
CHECK_DEADLOCK FALSE
SPECIFICATION FairSpec
INVARIANTS
    ListIntact
    DrainedBeforeClean
PROPERTIES
    ImplementsFifo
    HangsOnlyAtGate

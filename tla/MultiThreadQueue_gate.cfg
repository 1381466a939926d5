\* The broadcast that a consumer misses.  Deadlock is not what this run looks for.
CONSTANTS
    NULL = NULL
    Consumers = {c1, c2}
    Provider = provider
    Main = main
    NodeNums = 1
    Addresses = {a1}
    QHead = qhead
    SpuriousMax = 0
CHECK_DEADLOCK FALSE
SPECIFICATION Spec
INVARIANT WakesAllConsumers

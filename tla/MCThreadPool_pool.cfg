SPECIFICATION FairSpec
CONSTANTS
    Workers = {w1, w2, w3}
    MaxWork = 4
    Exiting = {3}
INVARIANTS NoLostWakeup WaitSound CounterExact
PROPERTIES WaitEnds WorkDone ImplementsWorkQueue

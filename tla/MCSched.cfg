SPECIFICATION FairSpec
CONSTANT MAX_THREADS = 4
INVARIANTS NoLostThread RightStack
PROPERTIES EveryReadyRuns ImplementsRoundRobin

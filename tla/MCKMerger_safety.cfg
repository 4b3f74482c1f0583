CONSTANTS
    w1 = w1
    w2 = w2
    w3 = w3
    NoWorker = NoWorker
    Workers <- ThreeWorkers
    Units = 2
    MaxBatches = 5
    Failing = {"create", "merge"}
SPECIFICATION Spec
SYMMETRY Symmetry
INVARIANTS
    TypeOK
    OneCreateTask
    ChunksOwned
    NoLostWakeup
    FullGroupsSearched
    BalancedTree

CONSTANTS
    w1 = w1
    w2 = w2
    w3 = w3
    NoWorker = NoWorker
    Workers <- ThreeWorkers
    Units = 3
    MaxBatches = 5
    Failing = {"create", "merge"}
SPECIFICATION Spec
INVARIANTS ResultComplete NoSpuriousError
PROPERTIES
    Returns
    ImplementsExternalMerge

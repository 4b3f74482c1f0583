SPECIFICATION Spec
CONSTANTS
    Inputs <- SmallInputs
INVARIANTS TypeOK NothingOverwritten
PROPERTY ImplementsSortedMerge

SPECIFICATION Spec
CONSTANTS
    Size = 8
    HeaderSize = 1
    Lengths <- Short
INVARIANTS TypeOK Disjoint LiveInChain

CONSTANTS
    VMs <- MCVMs
    Nodes <- MCNodes
    Locals <- MCLocals
    Sizes <- MCSizes
    MaxNodes = 3
SPECIFICATION Spec
INVARIANTS
    TypeOK
    PassesAgree
    OperandsLinked
    JumpsInReachLand

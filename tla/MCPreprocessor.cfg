CONSTANTS
    Files <- MCFiles
    Names = {"a"}
    Texts <- MCTexts
    Options <- MCOptions
    MaxDepth = 4
    MaxCalls = 2
SPECIFICATION Spec
INVARIANTS
    TypeOK
    BranchesFollowed
    ErrorsReach
PROPERTY Returns

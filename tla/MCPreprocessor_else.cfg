CONSTANTS
    Files <- TestFiles
    Names = {"AAA", "BBB"}
    Texts <- TestTexts
    Options <- MCOptions
    MaxDepth = 10
    MaxCalls = 1
SPECIFICATION Spec
INVARIANT BranchesTaken

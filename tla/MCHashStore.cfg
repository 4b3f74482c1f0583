SPECIFICATION Spec
CONSTANTS
    w1 = w1
    w2 = w2
    f1 = f1
    f2 = f2
    f3 = f3
    k1 = k1
    k2 = k2
    sd = sd
    s1 = s1
    None = None
    NameOf <- SameName
    Keys <- TwoKeys
    Strings <- FewStrings
    Default <- FileHashes
    Workers <- TwoWorkers
    Files <- ThreeFiles
    PrevMode <- LogTypes
    Calls = 1
INVARIANTS TypeOK GuardsExclude LoadedOnce CountsExact
PROPERTIES FirstWins BatchEnds
CHECK_DEADLOCK FALSE

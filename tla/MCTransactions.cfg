SPECIFICATION TxSpec
CONSTANTS
    root = root
    static = static
    live = live
    CategoryIds = {root, static, live}
    Slugs = {root, static, live}
    ArtworkIds = {a1, a2, a3}
    NULL = NULL
    Sessions = {s1, s2}
    Tree <- MCTree
    SeedPlan <- MCSeedPlan
    MaxBegun = 3
CHECK_DEADLOCK FALSE
INVARIANTS TxTypeOK ExactUnlessDrifted NothingRefused
PROPERTIES CommitsAreStatements SeedTakesEffect

SPECIFICATION StreamSpec
CONSTANTS
    Capacity = 11
    Arms <- MCArms
    Nominals = {1, 5, 9}
    Budgets = {13, 14, 15, 16, 17, 18, 19, 20}
INVARIANTS
    NeverAborts
    CursorsAgree
    ImageIsMemory
    NextWordIsThere
    WitnessesAreFuture
    BoundariesFollowEpochs
PROPERTIES
    NoLiveOverwrite
    ImplementsAccounting

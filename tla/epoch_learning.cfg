SPECIFICATION LearningSpec
CONSTANTS
    NReg = 3
    Arms <- MCArms
    Configs <- MCConfigs
    Interval = 3
    AlphaTenths = 5
    QFloor = 60
    Ahead = 10
INVARIANTS
    LearningNeverRaises
    HitsAreTheWitnesses
    NoveltyIsPaidOnce
    WholeEpochsEarnTheMost
    CheckpointsAreConsistentCuts

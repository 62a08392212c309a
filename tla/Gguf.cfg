SPECIFICATION Spec
CONSTANTS
    Files <- MCFiles
    MetaCap = 5
    Noise = 3
INVARIANTS
    InfosExact
    ConfigExact
    WeightsExact
    TokensExact
CHECK_DEADLOCK FALSE

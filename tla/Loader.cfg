SPECIFICATION Spec
CONSTANTS
    Configs <- MCConfigs
    Prompts = {1, 7, 9}
    Hydrated = {0, 6, 7}
    Floor = 65536
    Margin = 5632
    Settings <- MCSettings
    Files <- MCFiles
    Available <- MCAvailable
    Reserve = 3  Overhead = 4
    FileMB = 12  LayerMB = 4  OutputMB = 4
    MB = 32  TokenBytes = 8  ScaleBytes = 1
    MaxSeqLen = 60  AutoCap = 30  ScratchMB = 2
INVARIANTS NeverExhausted LiveDisjoint NothingFreedTwice AllGivenBack WeightsUsable WithinMemory
CHECK_DEADLOCK FALSE

SPECIFICATION Spec
CONSTANTS
    Char <- Chars
    MaxText = 4
    Vocab <- Tokens
    Special <- Specials
    ByteToken <- ByteTokens
    Merges <- MergeList
    Bos <- BosString
    Eos <- EosString
    AddBos = TRUE
    AddEos = TRUE
INVARIANTS Lossless CanonicalMerges
PROPERTY EncodeEnds
CHECK_DEADLOCK FALSE

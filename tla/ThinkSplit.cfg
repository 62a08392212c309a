SPECIFICATION Spec
CONSTANTS
    Char <- Chars
    Sep <- Spaces
    Open <- OpenTag
    Close <- CloseTag
    MaxChunk = 3
    MaxText = 9
INVARIANTS ChunksDoNotMatter EmitsEarly
CHECK_DEADLOCK FALSE

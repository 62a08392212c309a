SPECIFICATION Spec
CONSTANTS
    w1 = w1  w2 = w2
    Worker <- Workers
    Free = Free
    Cap = {0, 2}
    MaxReq = 3
INVARIANTS Serialized OwnStop WellFormed
PROPERTIES NoDecodeForTheDead Answered
CHECK_DEADLOCK FALSE

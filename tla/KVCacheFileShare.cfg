SPECIFICATION Spec
CONSTANTS
    p1 = p1  p2 = p2  c1 = c1  c2 = c2  c3 = c3  v1 = v1
    None = None  Garbage = Garbage  NoFile = NoFile
    Proc <- TwoProc
    Conv <- TwoConvs
    Payload <- OnePayload
    TokUnits <- Ones
    BodyUnits <- Ones
    Owner <- TwoOwner
    MaxBytes = 2
    StaleAge = 1
    MaxTime = 1
    Faults = {"power"}
INVARIANT BinIntact
PROPERTIES StoreSpec JobsEnd
CHECK_DEADLOCK FALSE

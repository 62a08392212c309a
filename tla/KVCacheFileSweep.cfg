SPECIFICATION Spec
CONSTANTS
    p1 = p1  p2 = p2  c1 = c1  c2 = c2  c3 = c3  v1 = v1
    None = None  Garbage = Garbage  NoFile = NoFile
    Proc <- OneProc
    Conv <- ThreeConv
    Payload <- OnePayload
    TokUnits <- Ones
    BodyUnits <- Ones
    Owner <- OneOwner
    MaxBytes = 6
    StaleAge = 1
    MaxTime = 2
    Faults = {"crash"}
INVARIANTS BudgetHolds NoStaleTmp
PROPERTY EvictsOldestFirst
CHECK_DEADLOCK FALSE

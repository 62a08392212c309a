SPECIFICATION Spec
CONSTANTS
    NLayers = 2
    MaxContext = 2
    Overflow = 1
    Version = {1}
    Zero = Zero  Garbage = Garbage  Any = Any  NoFile = NoFile
INVARIANTS PoolIsArray ScalesFollow
CHECK_DEADLOCK FALSE

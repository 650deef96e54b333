SPECIFICATION Spec
CONSTANTS
    Call = {c1, c2, c3}
    Foreign = Foreign
    Gate = TRUE
    MaxTurns = 2
    MaxWorkers = 4
SYMMETRY Symmetry
VIEW View
INVARIANT NoFalseForgery
CHECK_DEADLOCK FALSE

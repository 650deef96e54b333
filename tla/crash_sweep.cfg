SPECIFICATION Spec
CONSTANTS
    Thread = {t1}
    Instance = {i1,i2}
    Run = {r1}
    Call = {c1,c2}
    Request = {q1}
    Nil = Nil
    ThreadOf <- MCThreadOf
    RequireApproval = FALSE
    StaleAge = 3
    MaxMissed = 1
    RecursionLimit = 2
    MaxCrashes = 1
    MaxFaults = 1
SYMMETRY Symmetry
INVARIANTS LiveRunNotStale LiveRunActive
PROPERTIES LiveRunKept EndedStays

SPECIFICATION Spec
CONSTANTS
    Thread = {t1}
    Instance = {i1,i2}
    Run = {r1}
    Call = {c1}
    Request = {q1}
    Nil = Nil
    ThreadOf <- MCThreadOf
    RequireApproval = TRUE
    StaleAge = 2
    MaxMissed = 0
    RecursionLimit = 2
    MaxCrashes = 0
    MaxFaults = 0
SYMMETRY Symmetry
PROPERTY EndedStays

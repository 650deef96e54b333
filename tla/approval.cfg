SPECIFICATION Spec
CONSTANTS
    Thread = {t1}
    Instance = {i1}
    Run = {r1}
    Call = {c1,c2,c3}
    Request = {q1}
    Nil = Nil
    ThreadOf <- MCThreadOf
    RequireApproval = TRUE
    StaleAge = 2
    MaxMissed = 0
    RecursionLimit = 2
    MaxCrashes = 0
    MaxFaults = 0
SYMMETRY Symmetry
INVARIANTS OneDriver AnswerIffCompleted
PROPERTY ImplementsContract

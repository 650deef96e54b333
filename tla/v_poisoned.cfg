SPECIFICATION Spec
CONSTANTS
    Thread = {t1}
    Instance = {i1}
    Run = {r1}
    Call = {c1}
    Request = {}
    Nil = Nil
    ThreadOf <- MCThreadOf
    RequireApproval = FALSE
    StaleAge = 2
    MaxMissed = 0
    RecursionLimit = 2
    MaxCrashes = 0
    MaxFaults = 0
SYMMETRY Symmetry
INVARIANT ConversationUsable

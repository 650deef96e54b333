SPECIFICATION FairSpec
CONSTANTS
    Thread = {t1}
    Instance = {i1}
    Run = {r1}
    Call = {c1,c2}
    Request = {}
    Nil = Nil
    ThreadOf <- MCThreadOf
    RequireApproval = TRUE
    StaleAge = 2
    MaxMissed = 0
    RecursionLimit = 2
    MaxCrashes = 1
    MaxFaults = 2
INVARIANTS AnswerIffCompleted NoLeakedHeartbeat
PROPERTY RunSettles

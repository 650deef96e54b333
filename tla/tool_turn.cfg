SPECIFICATION Spec
CONSTANTS
    Call = {c1, c2, c3}
    Foreign = Foreign
    Gate = TRUE
    MaxTurns = 2
    MaxWorkers = 4
SYMMETRY Symmetry
VIEW BriefView
CONSTRAINT NotCut
INVARIANTS TypeOK OnlyApprovedRun PendingIsOpen CellsTell Conversable AnswersGrounded
PROPERTY OnlyApprovedCut
CHECK_DEADLOCK FALSE

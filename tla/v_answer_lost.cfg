SPECIFICATION Spec
CONSTANTS
    Writer = {w1, w2}
    Client = {k1}
    MaxSteps = 1
    MaxFailures = 0
SYMMETRY Symmetry
INVARIANT AnswerDelivered

SPECIFICATION Spec
CONSTANTS
    Thread = {t1, t2, t3}
    Server = {s1, s2}
    Nil = Nil
    MaxSeq = 3
    Ranges <- SomeRanges
SYMMETRY Symmetry
INVARIANTS TypeOK NumbersOrder SeedExact SummaryHonest
PROPERTIES ImplementsForkCopy
CHECK_DEADLOCK FALSE

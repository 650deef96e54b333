SPECIFICATION Spec
CONSTANTS
    a1 = a1
    a2 = a2
    Article = {a1, a2}
    Job = {j1, j2}
    EffDate <- MCEffDate
    Length <- MCLength
    MaxChars = 3
    Overlap = 1
    SearchLimit = 3
    TopK = 2
SYMMETRY Symmetry
INVARIANTS TypeOK CurrentExact WholeTextSearchable NeverVanishes PointHasGraph CitationShowsWhatWasRead

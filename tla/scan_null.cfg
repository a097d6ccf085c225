\* k = 1 over three 2-d vectors with three cells per dimension when heap
\* rows may have a NULL feature; the marks were built from every non-null row.
CONSTANTS
    NumMarks = 4
    N = 3
    D = 2
    Values <- MCValues
    Limits = {1}
    Norms <- MCNormL1
    Garbage <- MCGarbage
    SampleAll = TRUE
    CheckTids = {FALSE}
    Inputs <- MCNoInput
    NullFeatures = TRUE
    NoFeature = NoFeature
SPECIFICATION Spec
INVARIANTS
    NoFalseNegative

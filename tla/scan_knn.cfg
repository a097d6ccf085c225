\* k = 2 over three 1-d vectors in 0..6 with three cells per dimension,
\* marks built from all of them, L1.
CONSTANTS
    NumMarks = 4
    N = 3
    D = 1
    Values <- MCWideValues
    Limits = {2}
    Norms <- MCNormL1
    Garbage <- MCGarbage
    SampleAll = TRUE
    CheckTids = {FALSE}
    Inputs <- MCNoInput
    NullFeatures = FALSE
    NoFeature = NoFeature
SPECIFICATION Spec
INVARIANTS
    NoFalseNegative

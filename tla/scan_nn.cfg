\* Nearest-neighbour (k = 1) and unlimited scans over three 2-d vectors whose
\* marks were built from all of them, under L2, with rescans to new
\* queries and an input bitmap that selects the multi search.
CONSTANTS
    NumMarks = 3
    N = 3
    D = 2
    Values <- MCValues
    Limits = {0, 1}
    Norms <- MCNormL2Max
    Garbage <- MCGarbage
    SampleAll = TRUE
    CheckTids = {TRUE}
    Inputs <- MCInputs
    NullFeatures = FALSE
    NoFeature = NoFeature
SPECIFICATION Spec
INVARIANTS
    TypeOK
    BoundsSound
    NoFalseNegative
PROPERTY
    ScanRefines

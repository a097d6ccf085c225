\* Every sample of up to five rows over components 0..4 (NULL rows
\* included): five marks over a five-cell histogram, both strategies, then
\* the normalization precompute under each kind of distance clause.
CONSTANTS
    MaxMarks = 5
    SF = 5
    MinSampleRows = 1
    NSamples = 5
    Values = {0, 1, 2, 3, 4}
    NoFeature = null
    Distances = {"minkowski", "named"}
    FeatComps = {0, 1, 2}
    FeatMaxDim = 2
    FeatMaxRows = 3
SPECIFICATION Spec
INVARIANTS
    TypeOK
    MarksContract
    EquifrequentIsQuantile
    NormalizedOrderKept
    MinMaxFoldPerSpec

\* Every sample of up to four rows over components 0..3 (NULL rows
\* included), four marks over a four-cell histogram, both strategies.
CONSTANTS
    MaxMarks = 4
    SF = 4
    MinSampleRows = 1
    NSamples = 4
    Values = {0, 1, 2, 3}
    NoFeature = null
SPECIFICATION Spec
INVARIANTS
    PopulationPerSpec

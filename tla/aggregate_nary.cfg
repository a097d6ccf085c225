\* Every fuzzy aggregate over one to three rows: does the sfunc/final pair
\* compute the n-ary union or intersection its comment defines?
CONSTANTS
    Den = 8
    Distances <- MCDistances
    MaxRows = 3
    Aggregates <- MCAggregates
    InitCond <- MCInitCond
    NoResult = NoResult
SPECIFICATION Spec
INVARIANT
    AggregateIsNaryNorm

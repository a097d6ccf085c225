\* Two inserters index three new TIDs into a built index of one full page,
\* with heap deletes and a reader; no VACUUM.
CONSTANTS
    Procs <- MCProcs2
    NewTids <- MCNewTids3
    BuildTids <- MCBuild2
    PageCap = 2
    ExactFit = FALSE
    MetaBlockN = 1
    MaxBlocks = 4
    MaxVacuums = 0
    NoTid = none
    NoProc = nobody
    p1 = p1
    p2 = p2
    t1 = t1
    t2 = t2
    t3 = t3
    t4 = t4
    t5 = t5
    t6 = t6
    none = none
    nobody = nobody
SPECIFICATION Spec
CHECK_DEADLOCK FALSE
INVARIANTS
    NoLostTuple
    ScanComplete

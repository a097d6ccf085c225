\* An insert and a VACUUM over a one-tuple-per-page index: does a live
\* tuple stay on a live page?
CONSTANTS
    Procs <- MCProcs1
    NewTids <- MCNewTids2
    BuildTids <- MCBuild1
    PageCap = 1
    ExactFit = FALSE
    MetaBlockN = 1
    MaxBlocks = 3
    MaxVacuums = 1
    NoTid = none
    NoProc = nobody
    p1 = p1
    p2 = p2
    t1 = t1
    t2 = t2
    t3 = t3
    t4 = t4
    t5 = t5
    t6 = t6
    none = none
    nobody = nobody
SPECIFICATION Spec
CHECK_DEADLOCK FALSE
INVARIANTS
    NoLostTuple

\* Build over three tuples, heap deletes, two VACUUM rounds and a reader;
\* no inserts.
CONSTANTS
    Procs <- MCNoProcs
    NewTids <- MCNoProcs
    BuildTids <- MCBuild3
    PageCap = 2
    ExactFit = FALSE
    MetaBlockN = 1
    MaxBlocks = 3
    MaxVacuums = 2
    NoTid = none
    NoProc = nobody
    p1 = p1
    p2 = p2
    t1 = t1
    t2 = t2
    t3 = t3
    t4 = t4
    t5 = t5
    t6 = t6
    none = none
    nobody = nobody
SPECIFICATION Spec
CHECK_DEADLOCK FALSE
INVARIANTS
    TypeOK
    NoLostTuple
    FsmPagesReusable
    NoDuplicateEntry

\* One inserter with two new TIDs, heap deletes, one VACUUM and a reader
\* over a built index of one half-full page (two tuples per page), so the
\* bulk delete lists it and waits for the meta lock.
CONSTANTS
    Procs <- MCProcs1
    NewTids <- MCNewTids2
    BuildTids <- MCBuild1
    PageCap = 2
    ExactFit = FALSE
    MetaBlockN = 1
    MaxBlocks = 3
    MaxVacuums = 1
    NoTid = none
    NoProc = nobody
    p1 = p1
    p2 = p2
    t1 = t1
    t2 = t2
    t3 = t3
    t4 = t4
    t5 = t5
    t6 = t6
    none = none
    nobody = nobody
SPECIFICATION FairSpec
CHECK_DEADLOCK FALSE
PROPERTIES
    VacuumTerminates
INVARIANTS
    FsmPagesReusable

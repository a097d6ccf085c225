--------------------------- MODULE MC_VAPageStore ---------------------------
EXTENDS VAPageStore

CONSTANTS p1, p2, t1, t2, t3, t4, t5, t6, none, nobody

MCProcs1 == {p1}
MCProcs2 == {p1, p2}
MCNoProcs == {}
MCNewTids1 == {t4}
MCNewTids2 == {t4, t5}
MCNewTids3 == {t4, t5, t6}
MCBuild1 == <<t1>>
MCBuild2 == <<t1, t2>>
MCBuild3 == <<t1, t2, t3>>

=============================================================================

------------------------------- MODULE VAScan -------------------------------
(***************************************************************************)
(* The index scan of a k-nearest-neighbour query over a VA file,          *)
(* src/backend/utils/adt/adam_index_va.c: vaBeginScan, vaReScan (new      *)
(* keys), vaEndScan, and vaGetBitmap, which runs bitmapSingleSearch or,    *)
(* for a limited query over a non-empty input bitmap with check_tid set,   *)
(* bitmapMultiSearch (Weber's VAF-NOA).  Each search walks the             *)
(* approximation tuples in page order twice: pass one feeds (lower bound,  *)
(* upper bound) pairs to a bounded priority queue of upper bounds, pass    *)
(* two adds every tuple whose lower bound passes insertIntoQueueCheck      *)
(* against the final queue.  The executor then refines the added TIDs      *)
(* with the exact distance.                                                *)
(*                                                                         *)
(* The indexed vectors, the marks they were approximated with, the norm    *)
(* and the limit are chosen in Init and fixed for the scan; each rescan    *)
(* may bring a new query.  The marks are what the mark builder guarantees  *)
(* (see README): per dimension non-decreasing, from the minimum to the     *)
(* maximum over the sampled rows.                                          *)
(***************************************************************************)
EXTENDS VABounds, FiniteSets

CONSTANTS
    N,          \* number of indexed tuples; TIDs are 1..N in page order
    D,          \* dimensions of the vectors and of the query
    Values,     \* vector and query components
    Limits,     \* nn_limit values (0 means no limit)
    Norms,      \* the norm arguments of queries, as the parser gives them
    Garbage,    \* what the out-of-bounds read results[-2] may yield
    SampleAll,  \* TRUE: the marks were computed from every indexed row
    CheckTids,  \* adamOptions->check_tid values
    Inputs,     \* bitmaps the executor may pass to amgetbitmap
    NullFeatures, \* TRUE: heap rows may have a NULL feature
    NoFeature   \* the feature of such a row

ASSUME N \in Nat \ {0} /\ D \in Nat \ {0} /\ Limits \subseteq Nat
ASSUME SampleAll \in BOOLEAN /\ CheckTids \subseteq BOOLEAN
ASSUME NullFeatures \in BOOLEAN
ASSUME Inputs \subseteq SUBSET (1..N)

VARIABLES
    vec,        \* vec[t]: the feature vector of heap tuple t
    marks,      \* marks[d]: the NumMarks marks of dimension d
    query,      \* skey->sk_argument
    norm,       \* adamOptions->nn_minkowski
    k,          \* adamOptions->nn_limit
    checkTid,   \* adamOptions->check_tid
    garbage,    \* the value results[-2] holds in this scan
    pq,         \* the priority queue (maxSize 0 stands for q == NULL)
    pass,       \* "init", "open", "start", "filter", "emit", "done",
                \* "closed" or "error"
    pos,        \* the next tuple of the current pass
    input,      \* the bitmap amgetbitmap was called with
    tbm,        \* the bitmap: input and the TIDs added to it
    added       \* the TIDs passed to tbm_add_tuples (ntids counts them)

vars == <<vec, marks, query, norm, k, checkTid, garbage, pq, pass, pos,
          input, tbm, added>>

PQ == INSTANCE PriorityQueue

Tids == 1..N

Features == [1..D -> Values]

\* the rows whose feature is not NULL: the only ones with a distance
NonNull == {t \in Tids : vec[t] # NoFeature}

(***************************************************************************)
(* Marks a mark builder may return when it sampled the non-null rows S:   *)
(* the first mark is the minimum, the last the maximum over S, interior    *)
(* marks are non-decreasing in between (getEquidistantMarks,              *)
(* getEquifrequentMarks).                                                  *)
(***************************************************************************)
MarksOf(S) ==
    {mk \in [1..D -> {m \in [1..NumMarks -> Values] :
                         IsSorted(m, LAMBDA a, b : a <= b)}] :
        \A d \in 1..D :
            /\ mk[d][1] = Min({vec[t][d] : t \in S})
            /\ mk[d][NumMarks] = Max({vec[t][d] : t \in S})}

\* formTuple: the approximation stored for heap tuple t; a NULL feature
\* leaves the palloc0'd approximation, cell 0 in every dimension.
Apx(t) ==
    IF vec[t] = NoFeature THEN [d \in 1..Len(marks) |-> 0]
    ELSE SetBitstring(vec[t], marks)

\* The bounds of tuple t for this scan (get_bound on its approximation).
LBound(t) ==
    GetBound(Apx(t),
             PrecomputeLBound(query, marks, norm, garbage),
             Dims(query, marks), NumMarks, norm)
UBound(t) ==
    GetBound(Apx(t),
             PrecomputeUBound(query, marks, norm, garbage),
             Dims(query, marks), NumMarks, norm)

Dist(t) == MinkowskiDistance(vec[t], query, norm)

Init ==
    /\ vec \in [Tids -> Features \cup (IF NullFeatures THEN {NoFeature} ELSE {})]
    /\ \E S \in (SUBSET NonNull) \ {{}} :
           /\ SampleAll => S = NonNull
           /\ marks \in MarksOf(S)
    \* no keys before vaReScan: the query is a placeholder no step reads
    /\ query = [d \in 1..D |-> Min(Values)]
    \* nn_minkowski: getDistanceProcId parses the query's norm argument; a
    \* rejected one raises before the scan exists
    /\ norm \in {r \in {GetMinkowskiNormFromInput(x) : x \in Norms} :
                   MinkowskiNormAccepted(r)}
    /\ k \in Limits
    /\ checkTid \in CheckTids
    /\ garbage \in Garbage
    /\ pq = PQ!CreateQueue(0)
    /\ pass = "init"
    /\ pos = 1
    /\ input = {}
    /\ tbm = {}
    /\ added = {}

Fixed == <<vec, marks, norm, k, checkTid, garbage>>

\* vaBeginScan: RelationGetIndexScan, no keys yet
BeginScan ==
    /\ pass = "init"
    /\ pass' = "open"
    /\ UNCHANGED <<Fixed, query, pq, pos, input, tbm, added>>

\* vaReScan: the keys are replaced (a new outer tuple of a nested loop)
ReScan ==
    /\ pass \in {"open", "done"}
    /\ query' \in [1..D -> Values]
    /\ pass' = "start"
    /\ UNCHANGED <<Fixed, pq, pos, input, tbm, added>>

\* vaEndScan
EndScan ==
    /\ pass \in {"open", "done"}
    /\ pass' = "closed"
    /\ UNCHANGED <<Fixed, query, pq, pos, input, tbm, added>>

\* vaGetBitmap: bitmapMultiSearch when check_tid is set, there is a limit
\* and the bitmap is not empty; bitmapSingleSearch otherwise.
MultiFor(in) == checkTid /\ k > 0 /\ in # {}
Multi == MultiFor(input)

\* The norm check: only Minkowski norms 0..100 reach the scan loops.
NormChecked == IF norm < 0 \/ norm > 100 THEN "error" ELSE "filter"

\* bitmapSingleSearch up to its loops: a queue of nn_limit, if any.
SingleStart(in) ==
    /\ pass = "start" /\ ~MultiFor(in)
    /\ pq' = PQ!CreateQueue(k)
    /\ pass' = NormChecked
    /\ pos' = 1 /\ input' = in /\ tbm' = in /\ added' = {}
    /\ UNCHANGED <<Fixed, query>>

\* bitmapMultiSearch up to its loops: a queue of MAX(nn_limit, the number
\* of TIDs in the bitmap).
MultiStart(in) ==
    /\ pass = "start" /\ MultiFor(in)
    /\ pq' = PQ!CreateQueue(IF k >= Cardinality(in) THEN k ELSE Cardinality(in))
    /\ pass' = NormChecked
    /\ pos' = 1 /\ input' = in /\ tbm' = in /\ added' = {}
    /\ UNCHANGED <<Fixed, query>>

\* Pass one with a queue: insert the upper bound when the lower bound passes.
FilterQueued ==
    /\ pass = "filter" /\ pos <= N /\ pq.maxSize > 0 /\ ~Multi
    /\ pq' = IF PQ!InsertIntoQueueCheck(pq, LBound(pos))
             THEN PQ!InsertIntoQueue(pq, UBound(pos))
             ELSE pq
    /\ pos' = pos + 1
    /\ UNCHANGED <<Fixed, query, pass, input, tbm, added>>

\* bitmapMultiSearch, pass one: as above for the tuples in the bitmap
\* (tbm_contains_tuple); the others are skipped.
MultiFilter ==
    /\ pass = "filter" /\ pos <= N /\ Multi
    /\ pq' = IF pos \in tbm /\ PQ!InsertIntoQueueCheck(pq, LBound(pos))
             THEN PQ!InsertIntoQueue(pq, UBound(pos))
             ELSE pq
    /\ pos' = pos + 1
    /\ UNCHANGED <<Fixed, query, pass, input, tbm, added>>

\* Pass one without a queue (no limit): every tuple is added.
FilterNoLimit ==
    /\ pass = "filter" /\ pos <= N /\ pq.maxSize = 0
    /\ tbm' = tbm \cup {pos}
    /\ added' = added \cup {pos}
    /\ pos' = pos + 1
    /\ UNCHANGED <<Fixed, query, pq, pass, input>>

FilterEnd ==
    /\ pass = "filter" /\ pos = N + 1
    /\ IF pq.maxSize > 0 THEN pass' = "emit" /\ pos' = 1
                         ELSE pass' = "done" /\ pos' = pos
    /\ UNCHANGED <<Fixed, query, pq, input, tbm, added>>

\* Pass two: emit the tuples whose lower bound passes the final queue.
Emit ==
    /\ pass = "emit" /\ pos <= N /\ ~Multi
    /\ IF PQ!InsertIntoQueueCheck(pq, LBound(pos))
       THEN tbm' = tbm \cup {pos} /\ added' = added \cup {pos}
       ELSE UNCHANGED <<tbm, added>>
    /\ pos' = pos + 1
    /\ UNCHANGED <<Fixed, query, pq, pass, input>>

\* Mutant: pass two forgets the tbm_contains_tuple test.
MultiEmitAnyTid ==
    /\ pass = "emit" /\ pos <= N /\ Multi
    /\ IF PQ!InsertIntoQueueCheck(pq, LBound(pos))
       THEN tbm' = tbm \cup {pos} /\ added' = added \cup {pos}
       ELSE UNCHANGED <<tbm, added>>
    /\ pos' = pos + 1
    /\ UNCHANGED <<Fixed, query, pq, pass, input>>

\* bitmapMultiSearch, pass two: a tuple of the bitmap whose lower bound
\* passes the queue is added to the bitmap it was found in.
MultiEmit ==
    /\ pass = "emit" /\ pos <= N /\ Multi
    /\ IF pos \in tbm /\ PQ!InsertIntoQueueCheck(pq, LBound(pos))
       THEN tbm' = tbm \cup {pos} /\ added' = added \cup {pos}
       ELSE UNCHANGED <<tbm, added>>
    /\ pos' = pos + 1
    /\ UNCHANGED <<Fixed, query, pq, pass, input>>

EmitEnd ==
    /\ pass = "emit" /\ pos = N + 1
    /\ pass' = "done"
    /\ UNCHANGED <<Fixed, query, pq, pos, input, tbm, added>>

\* The scan has been closed, or the query raised its error.
Finished ==
    /\ pass \in {"closed", "error"}
    /\ UNCHANGED vars

Next ==
    \/ BeginScan \/ ReScan \/ EndScan
    \/ \E in \in Inputs : SingleStart(in) \/ MultiStart(in)
    \/ FilterQueued \/ MultiFilter \/ FilterNoLimit \/ FilterEnd
    \/ Emit \/ MultiEmit \/ EmitEnd
    \/ Finished

Spec == Init /\ [][Next]_vars

-----------------------------------------------------------------------------
TypeOK ==
    /\ vec \in [Tids -> Features \cup {NoFeature}]
    /\ query \in [1..D -> Values]
    /\ pass \in {"init", "open", "start", "filter", "emit", "done", "closed",
                 "error"}
    /\ pos \in 1..N + 1
    /\ added \subseteq tbm /\ tbm \subseteq Tids
    /\ Len(pq.queue) <= pq.maxSize

(***************************************************************************)
(* Spec section 8, invariant 2: for every non-null indexed vector the     *)
(* lower bound get_bound computes from its approximation is at most, and  *)
(* the upper bound at least, its distance to the query (checked once the  *)
(* scan has returned; the bounds do not change during a scan).  About     *)
(* set_bitstring, the precompute_differences tables and get_bound.        *)
(***************************************************************************)
BoundsSound ==
    pass = "done" =>
        \A t \in NonNull : LBound(t) <= Dist(t) /\ Dist(t) <= UBound(t)

(***************************************************************************)
(* The filter loses no answer: when the scan has returned, every          *)
(* candidate it did not add, and whose feature is not NULL, is preceded   *)
(* by at least k added non-null tuples that are no farther from the       *)
(* query, so refining the added TIDs yields a correct k-nearest-neighbour *)
(* answer; for the multi search the candidates are the TIDs of the input  *)
(* bitmap.  About both passes of bitmapSingleSearch and bitmapMultiSearch, *)
(* and the priority queue.                                                 *)
(***************************************************************************)
Candidates == IF Multi THEN input ELSE Tids

NoFalseNegative ==
    pass = "done" =>
        \A t \in (Candidates \ added) \cap NonNull :
            Cardinality({u \in added \cap NonNull : Dist(u) <= Dist(t)}) >= k


(***************************************************************************)
(* Refinement: the scan implements KnnScan.  The begin/rescan/end steps   *)
(* are KnnScan's; the start of a bitmap call is its Call, or its Fail when *)
(* the norm check raises; the filter and emit steps are invisible, and the *)
(* step that sets pass to "done" is its Return with the added TIDs.        *)
(***************************************************************************)
AbsPhase ==
    CASE pass \in {"init", "open", "done", "closed", "error"} -> pass
      [] pass = "start"                -> "ready"
      [] pass \in {"filter", "emit"}   -> "busy"

AbsCand == IF pass \in {"filter", "emit", "done"} THEN Candidates ELSE {}

AbsResult == IF pass = "done" THEN added ELSE {}

\* Under MINKOWSKI_MAX_NORM the norm check raises before any call returns,
\* so no answer depends on the distances (and calculateMinkowski's Ln for
\* n = -1 is no power sum): they are all 0 then.
AbsDist == [t \in Tids |-> IF t \in NonNull /\ norm > 0 THEN Dist(t) ELSE 0]

Knn == INSTANCE KnnScan
         WITH phase <- AbsPhase, dist <- AbsDist, limit <- k, live <- NonNull,
              cand <- AbsCand, result <- AbsResult

(***************************************************************************)
(* Every behaviour of vaBeginScan, vaReScan, vaGetBitmap and vaEndScan is  *)
(* one of KnnScan: calls only follow keys, each returns a subset of its    *)
(* candidates (the executor's bitmap, for the multi search) containing a   *)
(* k-nearest-neighbour answer, and the answer stays until the next rescan. *)
(***************************************************************************)
ScanRefines == Knn!Spec

=============================================================================

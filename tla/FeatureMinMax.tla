---------------------------- MODULE FeatureMinMax ----------------------------
(***************************************************************************)
(* The MIN/MAX transition functions of the feature type,                   *)
(* src/backend/utils/adt/adam_data_feature.c: feature_min, feature_max and *)
(* feature_minmax_end, and the loop of getMinMax (adam_index_marks.c) that *)
(* folds them over the sampled rows to find each dimension's range.        *)
(*                                                                         *)
(* A feature is a sequence of components; a component may be NULL         *)
(* (NullComp), since feature_in hands "{...}" to float8[]'s array_in.      *)
(* Components are integers, compared as btfloat8cmp compares doubles.      *)
(***************************************************************************)
EXTENDS Integers, Sequences, SequencesExt

CONSTANTS
    NoFeature,  \* a sampled row with a NULL feature or failing the predicate
    NullComp,   \* a NULL array element
    Garbage     \* a palloc'd Datum slot nothing wrote

\* the smaller of the two array lengths: dims = MIN(ArrayGetNItems(...), ...)
Dims(f, a) == IF Len(f) < Len(a) THEN Len(f) ELSE Len(a)

\* The positions the lock-step iteration uses: both elements non-null.
\* transResult[i] is written and i incremented only at these, so the k-th
\* such position lands in slot k whatever NULLs precede it.
Paired(f, a) ==
    SelectSeq([k \in 1..Dims(f, a) |-> k],
              LAMBDA k : f[k] # NullComp /\ a[k] # NullComp)

\* construct_array over transResult: slots past the last write are garbage
Fill(vals, dims) ==
    [j \in 1..dims |-> IF j <= Len(vals) THEN vals[j] ELSE Garbage]

\* PG_ARGISNULL(0): the first row is copied, a NULL element leaves its slot
\* unwritten
FirstCopy(f) == [k \in 1..Len(f) |-> IF f[k] # NullComp THEN f[k] ELSE Garbage]

\* feature_min(a, f1): btfloat8cmp(f1, a) > 0 or = 0 keeps a, < 0 takes f1
FeatureMin(a, f) ==
    LET idx == Paired(f, a) IN
    Fill([j \in 1..Len(idx) |->
            IF f[idx[j]] < a[idx[j]] THEN f[idx[j]] ELSE a[idx[j]]],
         Dims(f, a))

\* Mutant: dims is the new row's length, not the smaller one.
FeatureMaxRowDims(a, f) ==
    LET idx == Paired(f, a) IN
    Fill([j \in 1..Len(idx) |->
            IF a[idx[j]] > f[idx[j]] THEN a[idx[j]] ELSE f[idx[j]]],
         Len(f))

\* feature_max(a, f1): btfloat8cmp(f1, a) > 0 or = 0 keeps f1, < 0 takes a
FeatureMax(a, f) ==
    LET idx == Paired(f, a) IN
    Fill([j \in 1..Len(idx) |->
            IF a[idx[j]] > f[idx[j]] THEN a[idx[j]] ELSE f[idx[j]]],
         Dims(f, a))

\* feature_minmax_end: arrayFeatureCast makes the array a feature with the
\* same elements
FeatureMinMaxEnd(a) == a

(***************************************************************************)
(* getMinMax: every row whose feature is NULL is skipped; the first other  *)
(* row reaches the functions with argnull[0] set (getMinMaxResult), the    *)
(* rest with the running results.  With no such row it raises "not enough  *)
(* sample data"; otherwise feature_minmax_end ends both results.           *)
(***************************************************************************)
RECURSIVE MinMaxLoop(_, _, _, _)
MinMaxLoop(rows, firstRun, mn, mx) ==
    IF rows = <<>> THEN [first |-> firstRun, min |-> mn, max |-> mx]
    ELSE LET f == Head(rows) IN
         IF f = NoFeature THEN MinMaxLoop(Tail(rows), firstRun, mn, mx)
         ELSE IF firstRun
         THEN MinMaxLoop(Tail(rows), FALSE, FirstCopy(f), FirstCopy(f))
         ELSE MinMaxLoop(Tail(rows), FALSE, FeatureMin(mn, f), FeatureMax(mx, f))

GetMinMax(rows) ==
    LET r == MinMaxLoop(rows, TRUE, <<>>, <<>>) IN
    IF r.first THEN "error"
    ELSE [min |-> FeatureMinMaxEnd(r.min), max |-> FeatureMinMaxEnd(r.max)]

-----------------------------------------------------------------------------
\* The min/max pass of spec section 5 over the rows that have a feature:
\* the elementwise minimum and maximum, reduced to the shortest row.
SpecMinMax(rows) ==
    LET R   == {rows[i] : i \in {i \in DOMAIN rows : rows[i] # NoFeature}}
        len == CHOOSE l \in {Len(r) : r \in R} : \A r \in R : l <= Len(r)
        Lo(S) == CHOOSE x \in S : \A y \in S : x <= y
        Hi(S) == CHOOSE x \in S : \A y \in S : x >= y
    IN  IF R = {} THEN "error"
        ELSE [min |-> [d \in 1..len |-> Lo({r[d] : r \in R})],
              max |-> [d \in 1..len |-> Hi({r[d] : r \in R})]]

\* Samples of up to maxRows rows, each NULL or a dense feature of up to
\* maxDim components from comps.
DenseSamples(comps, maxDim, maxRows) ==
    LET Feats == UNION {[1..k -> comps] : k \in 0..maxDim}
    IN  UNION {[1..n -> Feats \cup {NoFeature}] : n \in 0..maxRows}

==============================================================================

------------------------------- MODULE VAMarks -------------------------------
(***************************************************************************)
(* The mark builder of the VA file,                                        *)
(* src/backend/utils/adt/adam_index_marks.c: calculateMarks chooses        *)
(* equiDistantMarks or equiFrequentMarks; both take a sample of heap rows  *)
(* (getSampledRows), the per-dimension minimum and maximum of the non-null *)
(* features in it (getMinMax), and equiFrequentMarks also a histogram of   *)
(* SAMPLING_FREQUENCY cells (getFrequencies) that getEquifrequentMarks     *)
(* walks to place marks at equal populations.                              *)
(*                                                                         *)
(* One dimension is modelled: every loop of the code treats the dimensions *)
(* independently with the same arithmetic.  A mark is kept as its value    *)
(* times Scale = MAX_PARTITIONS * SAMPLING_FREQUENCY, which makes both     *)
(* min + k*(max-min)/MAX_PARTITIONS and min + k*(max-min)/SF integers.     *)
(***************************************************************************)
EXTENDS Integers, Sequences, SequencesExt, FiniteSetsExt

CONSTANTS
    MaxMarks,       \* MAX_MARKS
    SF,             \* SAMPLING_FREQUENCY: the cells of the histogram
    MinSampleRows,  \* the sample size getSampledRows requires (256)
    NSamples,       \* N_SAMPLES: rows acquire_sample_rows may return
    Values,         \* feature components
    NoFeature       \* a sampled row with a NULL feature or failing the predicate

ASSUME MaxMarks \in Nat /\ MaxMarks >= 3 /\ SF \in Nat \ {0}
ASSUME MinSampleRows \in Nat /\ NSamples \in Nat /\ Values \subseteq Nat

VARIABLES
    sample,     \* the rows getSampledRows returned, in order
    strategy,   \* indexInfo->ii_MarksStrategy
    marks,      \* the marks of the dimension, marks[p + 1] is the code's p
    status      \* "idle", "built", or the error raised

vars == <<sample, strategy, marks, status>>

\* MAX_PARTITIONS where the macro is used as a whole: MAX_MARKS - 1
P == MaxMarks - 1
Scale == P * SF

\* the features getMinMax and getFrequencies use: non-null rows
Used(s) == SelectSeq(s, LAMBDA v : v # NoFeature)

\* dtoi4 on a / b (a >= 0, b > 0): rint, ties to even
Rint(a, b) ==
    LET q == a \div b
        r == a % b
    IN  CASE 2 * r > b -> q + 1
          [] 2 * r < b -> q
          [] OTHER     -> IF q % 2 = 0 THEN q ELSE q + 1

Clamp(c, lo, hi) == IF c < lo THEN lo ELSE IF c > hi THEN hi ELSE c

\* getFrequencies: the histogram cell of component v
Cell(v, mn, mx) ==
    IF mx - mn = 0 THEN 0
    ELSE Clamp(Rint(SF * (v - mn), mx - mn), 0, SF - 1)

Frequencies(vals, mn, mx) ==
    [c \in 0..SF - 1 |-> Len(SelectSeq(vals, LAMBDA v : Cell(v, mn, mx) = c))]

\* n = (mark_ctr * numRowsUsed) / MAX_PARTITIONS, with the macro expanded in
\* place: (mark_ctr * numRowsUsed) / MAX_MARKS - 1
Threshold(p, n) == (p * n) \div MaxMarks - 1

\* Mutant: the loop runs while sum <= n.
RECURSIVE AdvanceInclusive(_, _, _, _)
AdvanceInclusive(freq, sum, k, n) ==
    IF sum <= n THEN AdvanceInclusive(freq, sum + freq[k], k + 1, n)
    ELSE <<sum, k>>

\* while (sum < n) { sum = sum + frequencies[k]; k++; }
RECURSIVE Advance(_, _, _, _)
Advance(freq, sum, k, n) ==
    IF sum < n THEN Advance(freq, sum + freq[k], k + 1, n) ELSE <<sum, k>>

\* for (mark_ctr = p; mark_ctr < MAX_PARTITIONS; mark_ctr++): the histogram
\* cell k of every interior mark, sum and k carried from mark to mark
RECURSIVE MarkCells(_, _, _, _, _)
MarkCells(freq, n, p, sum, k) ==
    IF p >= P THEN <<>>
    ELSE LET r == Advance(freq, sum, k, Threshold(p, n))
         IN  <<r[2]>> \o MarkCells(freq, n, p + 1, r[1], r[2])

\* getMinMax folds feature_min and feature_max over the rows, here features
\* of one component; none is NULL, so the two NULL constants never appear
FM == INSTANCE FeatureMinMax WITH NullComp <- NoFeature, Garbage <- NoFeature

Rows1(vals) == [i \in DOMAIN vals |-> <<vals[i]>>]
MinOf(vals) == FM!GetMinMax(Rows1(vals)).min[1]
MaxOf(vals) == FM!GetMinMax(Rows1(vals)).max[1]

\* Mutant: the interior marks are k * (max - min) / SF without min added.
EquifrequentMarksNoOffset(vals) ==
    LET mn == MinOf(vals)
        mx == MaxOf(vals)
        ks == MarkCells(Frequencies(vals, mn, mx), Len(vals), 1, 0, 0)
    IN  [i \in 1..MaxMarks |->
            CASE i = 1        -> mn * Scale
              [] i = MaxMarks -> mx * Scale
              [] OTHER        -> ks[i - 1] * (mx - mn) * P]

\* getEquifrequentMarks: min, then min + k * (max - min) / SF, then max
EquifrequentMarks(vals) ==
    LET mn == MinOf(vals)
        mx == MaxOf(vals)
        ks == MarkCells(Frequencies(vals, mn, mx), Len(vals), 1, 0, 0)
    IN  [i \in 1..MaxMarks |->
            CASE i = 1        -> mn * Scale
              [] i = MaxMarks -> mx * Scale
              [] OTHER        -> mn * Scale + ks[i - 1] * (mx - mn) * P]

\* Mutant: the maximum is written one slot past the last mark.
EquidistantMarksOverrun(vals) ==
    LET mn == MinOf(vals)
        mx == MaxOf(vals)
    IN  [i \in 1..MaxMarks + 1 |->
            CASE i = 1            -> mn * Scale
              [] i = MaxMarks + 1 -> mx * Scale
              [] OTHER            -> mn * Scale + (i - 1) * (mx - mn) * SF]

\* getEquidistantMarks: min + p * (max - min) / MAX_PARTITIONS
EquidistantMarks(vals) ==
    LET mn == MinOf(vals)
        mx == MaxOf(vals)
    IN  [i \in 1..MaxMarks |->
            CASE i = 1        -> mn * Scale
              [] i = MaxMarks -> mx * Scale
              [] OTHER        -> mn * Scale + (i - 1) * (mx - mn) * SF]

Init ==
    /\ sample \in UNION {[1..n -> Values \cup {NoFeature}] : n \in 0..NSamples}
    /\ strategy \in {"EQUIDISTANT", "EQUIFREQUENT"}
    /\ marks = <<>>
    /\ status = "idle"

\* getSampledRows: "too few sample data to create marks"
SampleTooSmall ==
    /\ status = "idle"
    /\ Len(sample) < MinSampleRows
    /\ status' = "tooFewSamples"
    /\ UNCHANGED <<sample, strategy, marks>>

\* getMinMax: "not enough sample data for VA indexing available"
NoSampleData ==
    /\ status = "idle"
    /\ Len(sample) >= MinSampleRows
    /\ Used(sample) = <<>>
    /\ status' = "noData"
    /\ UNCHANGED <<sample, strategy, marks>>

\* equiDistantMarks: getSampledRows, getMinMax, getEquidistantMarks
BuildEquidistant ==
    /\ status = "idle" /\ strategy = "EQUIDISTANT"
    /\ Len(sample) >= MinSampleRows
    /\ Used(sample) # <<>>
    /\ marks' = EquidistantMarks(Used(sample))
    /\ status' = "built"
    /\ UNCHANGED <<sample, strategy>>

\* equiFrequentMarks: getSampledRows, getMinMax, getFrequencies,
\* getEquifrequentMarks
BuildEquifrequent ==
    /\ status = "idle" /\ strategy = "EQUIFREQUENT"
    /\ Len(sample) >= MinSampleRows
    /\ Used(sample) # <<>>
    /\ marks' = EquifrequentMarks(Used(sample))
    /\ status' = "built"
    /\ UNCHANGED <<sample, strategy>>

\* the build has returned or raised its error
Finished ==
    /\ status # "idle"
    /\ UNCHANGED vars

\* calculateMarks: the strategy chooses the builder
Next ==
    \/ SampleTooSmall \/ NoSampleData
    \/ BuildEquidistant \/ BuildEquifrequent
    \/ Finished

Spec == Init /\ [][Next]_vars

-----------------------------------------------------------------------------
TypeOK ==
    /\ status \in {"idle", "built", "tooFewSamples", "noData"}
    /\ status = "built" => marks \in [1..MaxMarks -> Int]

(***************************************************************************)
(* The marks meet the contract the VA scan's bounds rely on (VAScan's      *)
(* MarksOf): the first mark is the sample minimum, the last the sample     *)
(* maximum, and the marks never decrease.  About getMinMax's fold of       *)
(* feature_min/feature_max, getEquidistantMarks and getEquifrequentMarks,  *)
(* the latter through its histogram walk.                                  *)
(***************************************************************************)
MarksContract ==
    status = "built" =>
        LET vals == Used(sample) IN
        /\ marks[1] = Min(Range(vals)) * Scale
        /\ marks[MaxMarks] = Max(Range(vals)) * Scale
        /\ IsSorted(marks, LAMBDA a, b : a <= b)

\* rows of vals in histogram cells below k
RowsBelow(vals, k) ==
    Len(SelectSeq(vals, LAMBDA v : Cell(v, Min(Range(vals)), Max(Range(vals))) < k))

(***************************************************************************)
(* Each interior equifrequent mark p sits at the first histogram cell k    *)
(* with at least threshold(p) rows below it: the incremental walk, which   *)
(* carries sum and k from one mark to the next, places every mark where a  *)
(* fresh search of the histogram would.  About the while loop of           *)
(* getEquifrequentMarks.                                                   *)
(***************************************************************************)
EquifrequentIsQuantile ==
    status = "built" /\ strategy = "EQUIFREQUENT" =>
        LET vals == Used(sample)
            mn == Min(Range(vals))
            mx == Max(Range(vals))
            k(p) == Min({c \in 0..SF : RowsBelow(vals, c) >= Threshold(p, Len(vals))})
        IN  \A p \in 1..P - 1 : marks[p + 1] = mn * Scale + k(p) * (mx - mn) * P

\* the histogram cell of spec section 5: the floor, clamped
SpecCell(v, mn, mx) == Clamp((SF * (v - mn)) \div (mx - mn), 0, SF - 1)

(***************************************************************************)
(* Spec section 5, EQUIFREQUENT: mark p is placed once the rows in the     *)
(* cells below it number at least p * n / P, so that the P partitions hold *)
(* near-equal populations.  Stated with the quotient rounded down, as the  *)
(* code's (mark_ctr * numRowsUsed) / MAX_PARTITIONS means it, which the    *)
(* spec's rule implies.  About getEquifrequentMarks' threshold with the    *)
(* macro MAX_PARTITIONS expanded in place.                                 *)
(***************************************************************************)
PopulationPerSpec ==
    status = "built" /\ strategy = "EQUIFREQUENT" =>
        LET vals == Used(sample)
            mn == Min(Range(vals))
            mx == Max(Range(vals))
            k(p) == (marks[p + 1] - mn * Scale) \div ((mx - mn) * P)
            below(p) == Len(SelectSeq(vals, LAMBDA v : SpecCell(v, mn, mx) < k(p)))
        IN  mx > mn => \A p \in 1..P - 1 : below(p) >= (p * Len(vals)) \div P

=============================================================================

---------------------------- MODULE Normalization ----------------------------
(***************************************************************************)
(* PRECOMPUTE NORMALIZATION, src/backend/utils/adt/                        *)
(* adam_retrieval_normalization.c: adjustAdamNormalizationPrecomputeStmt   *)
(* takes a sample of heap rows (getSampledRows), resolves the distance     *)
(* (only a plain Minkowski distance is accepted), and                      *)
(* calculateNormalizationParameters walks every ordered pair of sampled    *)
(* rows whose feature is not NULL, meaning to accumulate the largest       *)
(* distance and the sums of the distances and their squares in numerics.   *)
(*                                                                         *)
(* The distance is calculateMinkowski's float8 Datum, and the loop hands   *)
(* it to numeric_gt, numeric_add and numeric_mul as a Numeric pointer.  On *)
(* a build that passes float8 by value (USE_FLOAT8_BYVAL, the 64-bit       *)
(* default) the Datum is the double's bits: 0.0 is the NULL pointer, and   *)
(* every other distance a non-canonical address, so detoasting it          *)
(* crashes the backend.  The first pair the loops visit is always a row    *)
(* with itself.  The model follows that build; the by-reference build      *)
(* reads a float8 as a Numeric header, which has no defined outcome.       *)
(***************************************************************************)
EXTENDS Integers, Sequences

CONSTANTS
    NSamples,       \* N_SAMPLES: rows acquire_sample_rows may return
    Values,         \* feature components
    NoFeature,      \* a sampled row whose feature is NULL
    Distances       \* the distance clauses of the statement

VARIABLES
    sample,     \* the rows getSampledRows returned, in order
    distance,   \* stmt->distance: "minkowski", "weighted" or "named"
    npc,        \* "start", "outer", "inner", "error" or "crash"
    i1, i2      \* the loop counters of calculateNormalizationParameters

nvars == <<sample, distance, npc, i1, i2>>

NormInit ==
    /\ sample \in UNION {[1..n -> Values \cup {NoFeature}] : n \in 0..NSamples}
    /\ distance \in Distances
    /\ npc = "start"
    /\ i1 = 1 /\ i2 = 1

\* getDistanceProcId: anything but MINKOWSKI_PROCOID raises "precomputation
\* can only be performed with Minkowski distances" (getSampledRows, before
\* it, only LOGs when fewer than 100 rows come back)
Resolve ==
    /\ npc = "start"
    /\ npc' = IF distance = "minkowski" THEN "outer" ELSE "error"
    /\ UNCHANGED <<sample, distance, i1, i2>>

\* outer loop: a row whose feature is NULL is skipped (continue)
OuterSkipNull ==
    /\ npc = "outer" /\ i1 <= Len(sample) /\ sample[i1] = NoFeature
    /\ i1' = i1 + 1
    /\ UNCHANGED <<sample, distance, npc, i2>>

\* f1 is set: the inner loop runs over every row from i2 = 0
OuterRow ==
    /\ npc = "outer" /\ i1 <= Len(sample) /\ sample[i1] # NoFeature
    /\ npc' = "inner" /\ i2' = 1
    /\ UNCHANGED <<sample, distance, i1>>

InnerSkipNull ==
    /\ npc = "inner" /\ i2 <= Len(sample) /\ sample[i2] = NoFeature
    /\ i2' = i2 + 1
    /\ UNCHANGED <<sample, distance, npc, i1>>

\* calculateDistance, then numeric_gt(calcDist, *transMaxDist) detoasts the
\* float8 Datum as a pointer: the backend crashes at the first pair
InnerPair ==
    /\ npc = "inner" /\ i2 <= Len(sample) /\ sample[i2] # NoFeature
    /\ npc' = "crash"
    /\ UNCHANGED <<sample, distance, i1, i2>>

(***************************************************************************)
(* After the loops: with no pair visited rows_cntr is 0, and numeric_div   *)
(* by int4_numeric(rows_cntr * (rows_cntr - 1)) raises "division by zero". *)
(* A pair is visited as soon as one row has a feature, so this exit is     *)
(* the one of a sample without features.                                   *)
(***************************************************************************)
Finish ==
    /\ npc = "outer" /\ i1 > Len(sample)
    /\ npc' = "error"
    /\ UNCHANGED <<sample, distance, i1, i2>>

NormNext ==
    \/ Resolve
    \/ OuterSkipNull \/ OuterRow
    \/ InnerSkipNull \/ InnerPair
    \/ Finish

NormSpec == NormInit /\ [][NormNext]_nvars

(***************************************************************************)
(* The normalization functions the parameters are for.  normalizeMinMax:   *)
(* 1 when dist >= max, else (1 / max) * dist, then clamped to [0, 1]; a    *)
(* result is a fraction <<num, den>>.                                      *)
(***************************************************************************)
NormalizeMinMax(d, max) ==
    LET r == IF d >= max THEN <<1, 1>> ELSE <<d, max>>
    IN  IF r[1] > r[2] THEN <<1, 1>> ELSE IF r[1] < 0 THEN <<0, 1>> ELSE r

(***************************************************************************)
(* normalizeGaussian: (dist - mu) / (6 sigma) + 0.5, clamped to [0, 1].    *)
(* sigma is the square root of sig2 = <<a, b>>, so an unclamped result is  *)
(* kept as z = (dist - mu) * mu's denominator, and it lies outside [0, 1]  *)
(* exactly when |dist - mu| > 3 sigma, i.e. z^2 * b > 9 * den(mu)^2 * a.   *)
(* numeric_div raises when sigma = 0 (GaussRaises).                        *)
(***************************************************************************)
GaussRaises(sig2) == sig2[1] = 0

GaussZ(d, mu) == d * mu[2] - mu[1]

GaussOver(d, mu, sig2) ==
    GaussZ(d, mu) * GaussZ(d, mu) * sig2[2] > 9 * mu[2] * mu[2] * sig2[1]

\* Mutant: the "result > 1" clamp is missing.
NormalizeGaussianNoCeil(d, mu, sig2) ==
    IF GaussOver(d, mu, sig2) /\ GaussZ(d, mu) < 0 THEN [k |-> "zero"]
    ELSE [k |-> "mid", z |-> GaussZ(d, mu)]

NormalizeGaussian(d, mu, sig2) ==
    IF GaussOver(d, mu, sig2) /\ GaussZ(d, mu) > 0 THEN [k |-> "one"]
    ELSE IF GaussOver(d, mu, sig2) /\ GaussZ(d, mu) < 0 THEN [k |-> "zero"]
    ELSE [k |-> "mid", z |-> GaussZ(d, mu)]

-----------------------------------------------------------------------------
NormTypeOK ==
    /\ npc \in {"start", "outer", "inner", "error", "crash"}
    /\ i1 \in 1..NSamples + 1 /\ i2 \in 1..NSamples + 1

\* the order of scores and membership of [0, 1], from the fractions and the
\* Gaussian's clamped/unclamped form above
FracLeq(r, s) == r[1] * s[2] <= s[1] * r[2]
FracInUnit(r) == 0 <= r[1] /\ r[1] <= r[2]
GaussLeq(g, h) ==
    g.k = "zero" \/ h.k = "one" \/ (g.k = "mid" /\ h.k = "mid" /\ g.z <= h.z)
GaussInUnit(g, mu, sig2) ==
    g.k # "mid" \/ g.z * g.z * sig2[2] <= 9 * mu[2] * mu[2] * sig2[1]

(***************************************************************************)
(* With parameters max, mu and sigma^2 as a user gives them, both          *)
(* normalizations map every distance from 0 to max + 1 into [0, 1]         *)
(* without changing the order of any two, so ranking by the normalized     *)
(* distance is ranking by the distance (spec section 4.4).  The Gaussian   *)
(* is applied where sigma > 0.  About the clamps of normalizeMinMax and    *)
(* normalizeGaussian.                                                      *)
(***************************************************************************)
OrderKept(mx, mu, sg) ==
    \A d1, d2 \in 0..(mx + 1) :
        /\ FracInUnit(NormalizeMinMax(d1, mx))
        /\ d1 <= d2 => FracLeq(NormalizeMinMax(d1, mx), NormalizeMinMax(d2, mx))
        /\ ~GaussRaises(sg) =>
             /\ GaussInUnit(NormalizeGaussian(d1, mu, sg), mu, sg)
             /\ d1 <= d2 => GaussLeq(NormalizeGaussian(d1, mu, sg),
                                     NormalizeGaussian(d2, mu, sg))

==============================================================================

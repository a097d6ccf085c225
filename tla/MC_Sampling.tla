----------------------------- MODULE MC_Sampling -----------------------------
(***************************************************************************)
(* The two statistics ADAM computes from a sample of heap rows: the marks  *)
(* of CREATE INDEX ... USING va (VAMarks) and the parameters of PRECOMPUTE *)
(* NORMALIZATION (Normalization), which ends in an error or a crash.  Each *)
(* takes its own sample from                                               *)
(* acquire_sample_rows and no state is shared, so one variable `sample`    *)
(* ranging over every sample serves both: every sample each may draw is   *)
(* checked.  The index is built after the precompute has returned, as a   *)
(* session that precomputes and then creates the index would.  The marks' *)
(* min/max pass (FeatureMinMax) is also checked on its own over samples    *)
(* of multi-dimensional features, which the one-dimensional marks cannot  *)
(* show.                                                                   *)
(***************************************************************************)
EXTENDS Integers

CONSTANTS
    MaxMarks, SF, MinSampleRows, NSamples, Values, NoFeature, Distances,
    FeatComps, FeatMaxDim, FeatMaxRows  \* the samples of MinMaxFoldPerSpec

VARIABLES sample, strategy, marks, status, distance, npc, i1, i2

vars == <<sample, strategy, marks, status, distance, npc, i1, i2>>

Marks == INSTANCE VAMarks
Norm  == INSTANCE Normalization
FMX   == INSTANCE FeatureMinMax WITH NullComp <- NoFeature, Garbage <- NoFeature

Init == Marks!Init /\ Norm!NormInit

Next ==
    \/ Norm!NormNext /\ UNCHANGED <<strategy, marks, status>>
    \/ npc \in {"error", "crash"}
       /\ Marks!Next /\ UNCHANGED <<distance, npc, i1, i2>>

Spec == Init /\ [][Next]_vars

\* Both type invariants of the composed modules.
TypeOK == Marks!TypeOK /\ Norm!NormTypeOK

\* Marks from the minimum to the maximum that never decrease (VAMarks).
MarksContract == Marks!MarksContract

\* Each equifrequent mark at the first cell reaching its threshold (VAMarks).
EquifrequentIsQuantile == Marks!EquifrequentIsQuantile

\* Normalization parameters a user may pass to normalizeMinMax and
\* normalizeGaussian: max, mu and sigma^2 over the sample's components
UserParams ==
    [max : Values, mu : Values \X {1, 2}, sigma2 : (0..9) \X {1, 2}]

\* Both normalizations keep distances in [0, 1] and in order, for every
\* parameter triple above (Normalization's OrderKept; a constant, so TLC
\* evaluates it once, in the states where the marks are built).
UserParamsOrderKept ==
    \A p \in UserParams : Norm!OrderKept(p.max, p.mu, p.sigma2)

NormalizedOrderKept == status = "built" => UserParamsOrderKept

\* getMinMax against spec section 5 on every small sample of features
\* (constant: TLC evaluates it once)
MinMaxFoldSamples ==
    \A rows \in FMX!DenseSamples(FeatComps, FeatMaxDim, FeatMaxRows) :
        FMX!GetMinMax(rows) = FMX!SpecMinMax(rows)

(***************************************************************************)
(* The marks of a built index rest on a min/max pass that is spec section  *)
(* 5's: getMinMax, folding feature_min and feature_max over every sample   *)
(* of up to FeatMaxRows rows (NULL, or dense features of up to FeatMaxDim  *)
(* components and different lengths), returns the elementwise minimum and *)
(* maximum reduced to the shortest row, and raises exactly when no row has *)
(* a feature.  About the first-row copy, the lock-step iteration and the   *)
(* MIN of the two lengths in feature_min/feature_max.                      *)
(***************************************************************************)
MinMaxFoldPerSpec == status = "built" => MinMaxFoldSamples

=============================================================================

------------------------- MODULE MC_FuzzyAggregation -------------------------
(***************************************************************************)
(* FuzzyAggregation over up to three rows whose distances are 0, 1/2, 1   *)
(* and 3/2 (the last clamped), scaled by Den = 8.                          *)
(*                                                                         *)
(* The initcond of each CREATE AGGREGATE is not part of the sources; each  *)
(* aggregate starts from the value under which its sfunc and final        *)
(* function compute the two-row operator of its comment: 0 for the sums   *)
(* and the maximum, 1 for the minimum and the products, {0, 1} for the    *)
(* algebraic union's (sum, product) pair.                                  *)
(***************************************************************************)
EXTENDS FuzzyAggregation

MCDistances == {0, 4, 8, 12}

MCAggregates ==
    {"standard_union", "algebraic_union", "bounded_union", "drastic_union",
     "standard_intersect", "algebraic_intersect", "bounded_intersect",
     "drastic_intersect"}

MCInitCond ==
    [a \in MCAggregates |->
        CASE a = "algebraic_union" -> <<0, 8>>
          [] a \in {"standard_intersect", "algebraic_intersect",
                    "drastic_intersect"} -> 8
          [] OTHER -> 0]
==============================================================================

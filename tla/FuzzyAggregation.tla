--------------------------- MODULE FuzzyAggregation ---------------------------
(***************************************************************************)
(* The fuzzy union and intersection aggregates of                          *)
(* src/backend/utils/adt/adam_retrieval_aggregation.c.  Each aggregate is  *)
(* a transition function (sfunc) that PostgreSQL's executor applies to the *)
(* transition value once per input row, and a final function applied once *)
(* after the last row.  The inputs are distances; every sfunc turns its    *)
(* row into a similarity (distance_to_similarity), combines it with the    *)
(* transition value by the operator its comment states for two sets,       *)
(* u(m_a, m_b) or n(m_a, m_b), and the final function turns the result     *)
(* back into a distance (similarity_to_distance).                          *)
(*                                                                         *)
(* Numbers are kept as integers times Den: x stands for x / Den.  With     *)
(* inputs on a grid of halves and at most MaxRows rows, Den = 2^MaxRows   *)
(* keeps every sum and product exact.  The executor's loop (not part of    *)
(* this repository) is the two actions Transition and Finalize.            *)
(***************************************************************************)
EXTENDS Integers, Sequences, SequencesExt

CONSTANTS
    Den,          \* the scale: the float8 1.0
    Distances,    \* the distances the rows carry, scaled
    MaxRows,      \* the most rows one aggregate call sees
    Aggregates,   \* the aggregates, named by their C prefix
    InitCond,     \* each aggregate's initial transition value (its initcond)
    NoResult      \* the result before the final function has run

ASSUME Den \in Nat \ {0} /\ Distances \subseteq Int /\ MaxRows \in Nat \ {0}

VARIABLES
    agg,      \* the aggregate being computed
    rows,     \* the input rows not yet passed to the sfunc
    seen,     \* the input rows already passed to the sfunc, in order
    trans,    \* the transition value
    result    \* the final function's result, or NoResult

vars == <<agg, rows, seen, trans, result>>

\* float8 multiplication, exact on the grid
Mul(a, b) == (a * b) \div Den

\* x < EPSILON (0.00001): on the grid the least positive value is 1 / Den
BelowEpsilon(x) == x <= 0

\* both conversions clamp their argument to [0, 1] before taking 1 - x
Clamp01(x) == IF x > Den THEN Den ELSE IF x < 0 THEN 0 ELSE x

distance_to_similarity(d) == Den - Clamp01(d)

similarity_to_distance(s) == Den - Clamp01(s)

(***************************************************************************)
(* The transition functions: t is the transition value, m the row's        *)
(* similarity.                                                             *)
(***************************************************************************)
standard_union_sfunc(t, m) == IF t > m THEN t ELSE m

\* the sum and the product are carried separately in a float8[2]
algebraic_union_sfunc(t, m) == <<t[1] + m, Mul(t[2], m)>>

bounded_union_sfunc(t, m) == t + m

drastic_union_sfunc(t, m) ==
    CASE BelowEpsilon(m) -> t
      [] BelowEpsilon(t) -> m
      [] OTHER           -> Den

standard_intersect_sfunc(t, m) == IF t < m THEN t ELSE m

algebraic_intersect_sfunc(t, m) == Mul(t, m)

bounded_intersect_sfunc(t, m) == t + m

\* the tests are newnum - 1 < EPSILON and transnum - 1 < EPSILON
drastic_intersect_sfunc(t, m) ==
    CASE BelowEpsilon(m - Den) -> t
      [] BelowEpsilon(t - Den) -> m
      [] OTHER                 -> 0

(***************************************************************************)
(* The final functions.                                                    *)
(***************************************************************************)
standard_union_final(t) == similarity_to_distance(t)

algebraic_union_final(t) == similarity_to_distance(t[1] - t[2])

bounded_union_final(t) ==
    IF t < Den THEN similarity_to_distance(t) ELSE similarity_to_distance(Den)

drastic_union_final(t) == similarity_to_distance(t)

standard_intersect_final(t) == similarity_to_distance(t)

algebraic_intersect_final(t) == similarity_to_distance(t)

bounded_intersect_final(t) ==
    IF t - Den > 0 THEN similarity_to_distance(t - Den)
    ELSE similarity_to_distance(0)

(***************************************************************************)
(* drastic_intersect_final passes the Datum itself, not DatumGetFloat8 of  *)
(* it, to similarity_to_distance: the float8's bit pattern is converted as *)
(* an unsigned integer.  +0.0 is the integer 0; every other non-negative   *)
(* float8 is an integer of at least 1, which the clamp makes 1.            *)
(***************************************************************************)
DatumAsFloat8(t) == IF t = 0 THEN 0 ELSE Den

drastic_intersect_final(t) == similarity_to_distance(DatumAsFloat8(t))

\* the sfunc and final function of each aggregate
SFunc(a, t, d) ==
    LET m == distance_to_similarity(d) IN
    CASE a = "standard_union"      -> standard_union_sfunc(t, m)
      [] a = "algebraic_union"     -> algebraic_union_sfunc(t, m)
      [] a = "bounded_union"       -> bounded_union_sfunc(t, m)
      [] a = "drastic_union"       -> drastic_union_sfunc(t, m)
      [] a = "standard_intersect"  -> standard_intersect_sfunc(t, m)
      [] a = "algebraic_intersect" -> algebraic_intersect_sfunc(t, m)
      [] a = "bounded_intersect"   -> bounded_intersect_sfunc(t, m)
      [] a = "drastic_intersect"   -> drastic_intersect_sfunc(t, m)

Final(a, t) ==
    CASE a = "standard_union"      -> standard_union_final(t)
      [] a = "algebraic_union"     -> algebraic_union_final(t)
      [] a = "bounded_union"       -> bounded_union_final(t)
      [] a = "drastic_union"       -> drastic_union_final(t)
      [] a = "standard_intersect"  -> standard_intersect_final(t)
      [] a = "algebraic_intersect" -> algebraic_intersect_final(t)
      [] a = "bounded_intersect"   -> bounded_intersect_final(t)
      [] a = "drastic_intersect"   -> drastic_intersect_final(t)

Init ==
    /\ agg \in Aggregates
    /\ rows \in UNION {[1..n -> Distances] : n \in 1..MaxRows}
    /\ seen = <<>>
    /\ trans = InitCond[agg]
    /\ result = NoResult

\* the executor passes the next row to the sfunc
Transition ==
    /\ rows # <<>>
    /\ trans' = SFunc(agg, trans, Head(rows))
    /\ seen' = Append(seen, Head(rows))
    /\ rows' = Tail(rows)
    /\ UNCHANGED <<agg, result>>

\* after the last row the executor calls the final function
Finalize ==
    /\ rows = <<>> /\ result = NoResult
    /\ result' = Final(agg, trans)
    /\ UNCHANGED <<agg, rows, seen, trans>>

Done ==
    /\ result # NoResult
    /\ UNCHANGED vars

Next == Transition \/ Finalize \/ Done

Spec == Init /\ [][Next]_vars

-----------------------------------------------------------------------------
(***************************************************************************)
(* Reference: the operators the comments above each function state for two *)
(* sets, u(m_a, m_b) and n(m_a, m_b).  These are associative, and an      *)
(* aggregate over n rows is the operator applied across the n similarities.*)
(***************************************************************************)
BinaryOp(a, x, y) ==
    CASE a = "standard_union"      -> IF x > y THEN x ELSE y
      [] a = "algebraic_union"     -> x + y - Mul(x, y)
      [] a = "bounded_union"       -> IF x + y < Den THEN x + y ELSE Den
      [] a = "drastic_union"       -> (CASE y = 0 -> x [] x = 0 -> y [] OTHER -> Den)
      [] a = "standard_intersect"  -> IF x < y THEN x ELSE y
      [] a = "algebraic_intersect" -> Mul(x, y)
      [] a = "bounded_intersect"   -> IF x + y - Den > 0 THEN x + y - Den ELSE 0
      [] a = "drastic_intersect"   -> (CASE y = Den -> x [] x = Den -> y [] OTHER -> 0)

NaryOp(a, ms) == FoldLeft(LAMBDA x, y : BinaryOp(a, x, y), ms[1], Tail(ms))

(***************************************************************************)
(* Every aggregate returns, as a distance, the union or intersection its   *)
(* comment defines taken over all the rows it was given: the sfunc and the *)
(* final function together compute the n-ary operator, for one row and    *)
(* for more than two.  About the sfunc/final pairs of                      *)
(* adam_retrieval_aggregation.c.                                           *)
(***************************************************************************)
AggregateIsNaryNorm ==
    result # NoResult =>
        result = similarity_to_distance(
                    NaryOp(agg, [i \in DOMAIN seen |-> distance_to_similarity(seen[i])]))

==============================================================================

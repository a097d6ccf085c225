------------------------------ MODULE VABounds ------------------------------
(***************************************************************************)
(* The approximation codec and the distance-bound arithmetic of the VA     *)
(* file, src/backend/utils/adt/adam_index_va.c: set_bitstring (a vector to *)
(* its cell numbers), precompute_differences_lbound/_ubound(_lnorm) (the   *)
(* per-cell partial bounds for one query) and get_bound (a tuple's bound). *)
(*                                                                         *)
(* Values are integers.  A vector, a query and marks[d] are sequences;     *)
(* the code's 0-based mark p is marks[d][p+1] here, and its cell numbers   *)
(* stay 0-based.  A table of partial bounds maps a dimension d (1-based,   *)
(* the code's j = d-1) to the slots 0..NumMarks-1 the code allocates.      *)
(***************************************************************************)
EXTENDS Integers, Sequences, SequencesExt, FiniteSetsExt

CONSTANT NumMarks   \* MAX_MARKS: marks per dimension (ARR_DIMS(marks)[1])

ASSUME NumMarks \in Nat /\ NumMarks >= 2

\* MINKOWSKI_MAX_NORM (adam_retrieval_minkowski.h)
MINKOWSKI_MAX_NORM == -1

(***************************************************************************)
(* getMinkowskiNormFromInput (adam_retrieval_minkowski.c): the norm        *)
(* argument of a MINKOWSKI(...) distance, as the parser hands it over: a   *)
(* String node ("max" or "MAX", or a numeral that atof reads if it has at  *)
(* most five characters) or a numeric node.  An input is a record with     *)
(* its node kind, its text and length, and the number atof or the node     *)
(* carries.  Anything but MINKOWSKI_MAX_NORM or a value in (0, 100) is     *)
(* rejected with an ERROR before a scan is built.                          *)
(***************************************************************************)
GetMinkowskiNormFromInput(x) ==
    CASE x.kind = "String" /\ x.text \in {"max", "MAX"} -> MINKOWSKI_MAX_NORM
      [] x.kind = "String" -> IF x.len <= 5 THEN x.num ELSE 0
      [] OTHER             -> x.num

MinkowskiNormAccepted(r) == r = MINKOWSKI_MAX_NORM \/ (r > 0 /\ r < 100)

Lesser(a, b) == IF a < b THEN a ELSE b

\* MIN(so->state.dimensions, ArrayGetNItems(query)): the dimensions compared
Dims(query, marks) == Lesser(Len(query), Len(marks))

(***************************************************************************)
(* set_bitstring: for each dimension, j counts the marks that are < f; at  *)
(* the first mark that is not < f, j is decremented and the loop left.     *)
(* When every mark is < f the loop runs out and j = number of marks.  j is *)
(* then clamped to 0..255 (one BitStringElement).                          *)
(***************************************************************************)
CellIndex(f, m) ==
    LET notLess == {i \in 1..Len(m) : ~(m[i] < f)}
    IN  IF notLess = {} THEN Len(m) ELSE Min(notLess) - 2

ClampByte(j) == IF j < 0 THEN 0 ELSE IF j > 255 THEN 255 ELSE j

SetBitstring(v, marks) ==
    [d \in 1..Lesser(Len(v), Len(marks)) |-> ClampByte(CellIndex(v[d], marks[d]))]

(***************************************************************************)
(* The partial bounds of cell i (i < i_max - 1) of a dimension with marks  *)
(* m, query component f and exponent s.                                    *)
(***************************************************************************)
\* precompute_differences_lbound_lnorm, loop body
LBoundCell(f, m, i, s) ==
    CASE f < m[i + 1] -> (m[i + 1] - f) ^ s
      [] f > m[i + 2] -> (f - m[i + 2]) ^ s
      [] OTHER        -> 0

\* Mutant: the centre test is reversed, the nearer cell wall is taken.
UBoundCellNearWall(f, m, i, s) ==
    IF 2 * f >= m[i + 1] + m[i + 2]
    THEN (m[i + 2] - f) ^ s
    ELSE (f - m[i + 1]) ^ s

\* precompute_differences_ubound_lnorm, loop body: compare with the centre
\* b = (m + mp1) / 2 of the cell (2f <= m + mp1 is f <= b without division)
UBoundCell(f, m, i, s) ==
    IF 2 * f <= m[i + 1] + m[i + 2]
    THEN (m[i + 2] - f) ^ s
    ELSE (f - m[i + 1]) ^ s

(***************************************************************************)
(* The tables.  After the loop over cells 0..i_max-2 of dimension j the    *)
(* code sets results[j*i_max + i_max-1] = results[j*i_max - 2]: for j > 0  *)
(* that is cell i_max-2 of the PREVIOUS dimension, for j = 0 it reads two  *)
(* doubles before the allocation, whose content the build does not        *)
(* define; that value is the parameter garbage.                            *)
(***************************************************************************)
WithLastSlot(real, garbage) ==
    [d \in DOMAIN real |->
        [i \in 0..NumMarks - 1 |->
            IF i < NumMarks - 1 THEN real[d][i]
            ELSE IF d = 1 THEN garbage
            ELSE real[d - 1][NumMarks - 2]]]

\* precompute_differences_lbound / _ubound: L_inf uses exponent 1
Exponent(norm) == IF norm = MINKOWSKI_MAX_NORM THEN 1 ELSE norm

PrecomputeLBound(query, marks, norm, garbage) ==
    WithLastSlot([d \in 1..Dims(query, marks) |->
                    [i \in 0..NumMarks - 2 |->
                        LBoundCell(query[d], marks[d], i, Exponent(norm))]],
                 garbage)

PrecomputeUBound(query, marks, norm, garbage) ==
    WithLastSlot([d \in 1..Dims(query, marks) |->
                    [i \in 0..NumMarks - 2 |->
                        UBoundCell(query[d], marks[d], i, Exponent(norm))]],
                 garbage)

(***************************************************************************)
(* get_bound: the cell of dimension d is MIN(apx[d], partitions - 1); the  *)
(* contributions are summed for L_s (s < 100) and maximised (from 0) for   *)
(* L_inf.                                                                  *)
(***************************************************************************)
\* get_bound's loops over the dimensions, from trans_result = 0: the sum
\* of f[1..n], and the largest of 0, f[1..n]
RECURSIVE SumTo(_, _)
SumTo(f, n) == IF n = 0 THEN 0 ELSE SumTo(f, n - 1) + f[n]

RECURSIVE MaxTo(_, _)
MaxTo(f, n) == IF n = 0 THEN 0 ELSE LET r == MaxTo(f, n - 1) IN IF r < f[n] THEN f[n] ELSE r

GetBound(apx, differences, dimensions, partitions, norm) ==
    LET part == [d \in 1..dimensions |->
                    differences[d][Lesser(apx[d], partitions - 1)]]
    IN  CASE norm < 100 /\ norm # MINKOWSKI_MAX_NORM ->
                SumTo(part, dimensions)
          [] norm = MINKOWSKI_MAX_NORM ->
                MaxTo(part, dimensions)
          [] OTHER -> 0

(***************************************************************************)
(* Reference: the distance the executor refines with, calculateMinkowski  *)
(* (adam_retrieval_minkowski.c) for s = 1 (L1) and integer s > 1 (Ln):     *)
(* the sum of |x - y|^s, without the root.                                 *)
(***************************************************************************)
Abs(x) == IF x < 0 THEN -x ELSE x

MinkowskiDistance(v, q, s) ==
    LET n == Lesser(Len(v), Len(q))
    IN  SumTo([d \in 1..n |-> Abs(v[d] - q[d]) ^ s], n)

=============================================================================

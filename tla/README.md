# TLA+ models of the ADAM VA-file index

ADAM extends PostgreSQL with a `feature` vector type, distance functions and a
vector-approximation (VA) file index for k-nearest-neighbour queries. This
directory holds TLA+ models of the index's algorithms and protocols, the TLC
configurations that check them, and `PROJECT.json`, which maps every model
definition to the C lines it translates.

## 1. The system

The components, the state each one keeps and the operations that change it are
listed below. All paths are under `src/src/`.

| Component | Code | State | Operations |
|---|---|---|---|
| Mark builder | `backend/utils/adt/adam_index_marks.c` | none kept; returns a `D x MAX_MARKS` array of marks, stored in the catalog | `calculateMarks`, `equiDistantMarks`, `equiFrequentMarks` (`getSampledRows`, `getMinMax`, `getFrequencies`, `getEquifrequentMarks`) |
| Approximation codec | `adam_index_va.c: set_bitstring` | none (pure) | a vector and the marks give one cell number per dimension (one byte) |
| Distance bounds | `adam_index_va.c: precompute_differences_*`, `get_bound` | per-query tables of partial lower and upper bounds, `D x MAX_MARKS` doubles | precompute once per scan; sum them for L_s, or take their maximum for L_inf, per tuple |
| Priority queue | `backend/utils/misc/adam_utils_priorityqueue.c` | `maxSize`, `currentSize`, `queue[]` | `createQueue`, `insertIntoQueueCheck`, `insertIntoQueue`, `getMaximumElement` |
| VA scan | `adam_index_va.c: bitmapSingleSearch`, `bitmapMultiSearch` | the queue and the bitmap of emitted TIDs | two passes over the data pages: filter, then emit |
| Page store | `adam_index_va.c: vaBuild`, `buildCallback`, `vaInsert`, `addItemToBlock`, `addItem`, `newBuffer`, `vaBulkDelete`, `vaVacuumCleanup` | meta page (magic, `nChanges`, free-page ring `notFullPage[nStart..nEnd)`), data pages (`maxoff`, flags `VA_META`/`VA_DELETED`, packed tuples), the FSM, the relation length | build, insert, bulk delete, vacuum cleanup; buffer share/exclusive locks |
| Minkowski distances | `adam_retrieval_minkowski.c` | none (pure) | `calculateMinkowski(L1/Ln/Lmax)`, weighted variants, `getMinkowskiNormFromInput` |
| Fuzzy aggregation | `adam_retrieval_aggregation.c` | the aggregate's transition value, one per group, kept by the executor | per row: `*_sfunc` (distance to similarity, combine); per group: `*_final` (back to a distance) |
| Normalization precompute | `adam_retrieval_normalization.c` | none kept: the results list is built and dropped | `PRECOMPUTE NORMALIZATION`: `adjustAdamNormalizationPrecomputeStmt`, `getSampledRows`, `calculateNormalizationParameters` (max, mean and standard deviation of the pair distances of a sample) |
| Distance pipeline | `adam_retrieval.c` | per-call function state | executor-side lookup of distance, normalization, weight and complement functions |
| Feature type, catalog, commands, parser | `adam_data_feature.c`, `catalog/`, `commands/`, `parser/` | system catalogs | text I/O, CREATE/DROP FEATURE FUNCTION |

How the components interact:
- `vaBuild` computes the marks from a sample of the heap and writes the meta page.
- It approximates every heap row (`buildCallback`) and packs the tuples into pages.
- `vaInsert` approximates a new row with the *stored* marks and places it through the meta page's free-page ring, or on a new page.
- `vaBulkDelete` compacts the pages and rewrites the ring.
- `vaVacuumCleanup` records deleted pages in the FSM and truncates trailing ones.
- A k-NN query opens an index scan (`vaBeginScan`, then `vaReScan` with the keys, again for each new outer row of a nested loop) and calls `vaGetBitmap`. That runs `bitmapMultiSearch` when `check_tid` is set, there is a limit and the executor's bitmap is not empty, and `bitmapSingleSearch` otherwise. Both do the same two passes; the multi search only looks at tuples already in the bitmap.
  - Pass one computes each tuple's lower bound. When `insertIntoQueueCheck` accepts it, it inserts the tuple's upper bound into a queue of capacity k.
  - Pass two emits every tuple whose lower bound still passes the check against the final queue.
  - The executor then refines the emitted TIDs with the exact distance.

### Hard behaviours

- **Bound soundness at the edges.**
  - Cells are half-open on the left in the code: `(m_p, m_p+1]`. The spec says `[m_p, m_p+1)`.
  - A component above the last mark gets cell `MAX_MARKS`.
  - `get_bound` clamps that to the last slot of the table, and each dimension's last slot is filled with `results[j*i_max - 2]`. That is the previous dimension's value, or a read before the array for the first dimension.
  - The marks come from a sample and are never recomputed on insert.
- **The queue's ordering invariant.** `insertIntoQueue` sorts one slot too few while the queue fills.
- **Concurrency in the page store.**
  - Inserters share the meta page's ring: a share lock for the first try, an exclusive lock for the retry loop.
  - Bulk delete compacts pages under a share lock while scans read them.
  - Vacuum truncates the file while inserters may extend it or reuse pages.
  - Buffer locks are not re-entrant, and `vaInsert` re-locks the meta buffer it already holds.
- **Stale meta state.** The ring is rewritten only when the bulk delete found a page with room.
- **Numeric edges.**
  - `MAX_PARTITIONS` is `MAX_MARKS - 1` without parentheses.
  - The stale-index threshold uses `nChanges`.
  - Norms outside 1..100 take different branches.

### What makes each component correct

- **Priority queue:** after any sequence of inserts it holds the `min(cap, n)` smallest keys in ascending order (spec section 8, invariant 5).
- **Codec and bounds:** for every indexed vector, `L <= d <= U` (invariant 2). Each component lies in its cell (invariant 1).
- **VA scan:** the emitted TIDs contain a correct k-NN answer: every tuple that is not emitted has at least k emitted tuples that are no farther from the query. Every norm the parser accepts is answered.
- **Page store:**
  - every live tuple is on exactly one non-deleted page inside the file, so every scan sees it;
  - the ring lists only non-deleted pages with room (invariant 4);
  - `nChanges` counts the changes;
  - every insert terminates;
  - vacuum never truncates a page holding a live tuple.
- **Fuzzy aggregation:** each aggregate over n rows returns the n-ary union or intersection whose two-set form its comment states (for example `u(m_a, m_b) = m_a + m_b - m_a*m_b`); the operators are associative, so the n-ary form is well defined.
- **Mark builder:** the marks are non-decreasing, run from the minimum to the maximum, and the equifrequent marks split the sample into near-equal populations.

## 2. Modules

| Module | Models | Composes |
|---|---|---|
| `PriorityQueue` | the queue's operations as pure operators over `[maxSize, queue]` | |
| `VABounds` | `set_bitstring`, `precompute_differences_*`, `get_bound`, the reference Minkowski distance, and `getMinkowskiNormFromInput` | |
| `KnnScan` | the scan's contract, abstract: open, rescan, one atomic bitmap call that returns a superset of a k-NN answer from its candidates or fails, close | |
| `VAScan` | `vaBeginScan`, `vaReScan`, `vaEndScan`, `vaGetBitmap` with `bitmapSingleSearch` and `bitmapMultiSearch`, over a fixed index content | `VABounds` (EXTENDS), `PriorityQueue` (INSTANCE), `KnnScan` (INSTANCE ... WITH, the refinement) |
| `VAPageStore` | `vaBuild`/`buildCallback`, `vaInsert` (`addItemToBlock`, `addItem`, `newBuffer`), `vaBulkDelete`, `vaVacuumCleanup`, and a reader walking the pages as `bitmapSingleSearch` does | |
| `VAMarks` | `calculateMarks` for one dimension: `getSampledRows`' size check, `getMinMax` (through `FeatureMinMax`), `getFrequencies`, `getEquifrequentMarks`, `getEquidistantMarks` | |
| `FuzzyAggregation` | the eight union and intersection aggregates: each `*_sfunc` and `*_final`, `distance_to_similarity`, `similarity_to_distance`, driven by the executor's per-row loop | |
| `Normalization` | `adjustAdamNormalizationPrecomputeStmt`: the distance check, and `calculateNormalizationParameters`' two pair loops up to the crash at the first pair, one step per loop iteration; `normalizeMinMax` and `normalizeGaussian` as operators | |
| `FeatureMinMax` | `feature_min`, `feature_max`, `feature_minmax_end` (`adam_data_feature.c`) and `getMinMax`'s loop folding them over the sample | |
| `MC_Sampling` | the two consumers of a heap sample, run one after the other, and the min/max fold checked against spec section 5 | `VAMarks`, `Normalization`, `FeatureMinMax` (INSTANCE) |
| `MC_VAScan`, `MC_VAPageStore`, `MC_FuzzyAggregation` | model values and sets for TLC | |

### Correspondence

`VAMarks`:
- The state is the sample `getSampledRows` returned (`NoFeature` for a row whose feature is NULL or fails the predicate), the strategy, the marks and a status. Init enumerates every sample of up to `NSamples` rows.
- `SampleTooSmall` and `NoSampleData` are the two `ereport(ERROR)` exits; `BuildEquidistant` and `BuildEquifrequent` are `equiDistantMarks` and `equiFrequentMarks` with the calls they make.
- A mark is kept as its value times `Scale = MAX_PARTITIONS * SAMPLING_FREQUENCY`, so that both `min + p*(max-min)/MAX_PARTITIONS` and `min + k*(max-min)/SAMPLING_FREQUENCY` are exact integers.
- `Cell` is `getFrequencies`' cell: `dtoi4` rounds to nearest with ties to even (`Rint`), then the cell is clamped to `0..SF-1`; a degenerate dimension puts every row in cell 0.
- `Threshold` is line 442 with the macro expanded as the preprocessor does: `(mark_ctr*numRowsUsed)/MAX_MARKS - 1`. `Advance` is the `while (sum < n)` loop, and `MarkCells` carries `sum` and `k` from mark to mark as the `for` loop does.
- One dimension: every loop of the builder treats dimensions independently with the same arithmetic. The sample's range (`MinOf`, `MaxOf`) is `FeatureMinMax`'s fold over one-component features.

**`FeatureMinMax`.**
- A feature is a sequence of integer components; `NullComp` is a NULL array element (`feature_in` hands the text to `float8[]`'s `array_in`, which accepts `NULL`), and `Garbage` a `transResult` slot nothing wrote.
- `Dims` is `dims = MIN(...)` of the two lengths. `Paired` is the lock-step walk: `transResult[i]` is written and `i` advanced only where both elements are non-NULL, so after a NULL the later results move left. `Fill` is `construct_array` over `dims` slots, the unwritten ones included.
- `FirstCopy` is the `PG_ARGISNULL(0)` branch, which copies the first row. `FeatureMin` and `FeatureMax` pick by `btfloat8cmp`: on a tie `feature_min` keeps the running value and `feature_max` the new row's, which for integers is the same value.
- `MinMaxLoop` is `getMinMax`'s loop: NULL rows are skipped, the first other row goes in with `argnull[0]` set (`getMinMaxResult`), the rest with the running results. `GetMinMax` raises when no row had a feature, and otherwise ends both results with `feature_minmax_end` (a cast that keeps the elements).
- `SpecMinMax` is spec section 5's pass as a reference: the elementwise minimum and maximum of the rows with a feature, over the shortest row's length.


**`Normalization`.**
- The state is the sample (as in `VAMarks`), the statement's distance clause, and the loop position `npc` with the counters `i1`, `i2`.
- `Resolve` is `getDistanceProcId` and the check that raises unless the distance is `MINKOWSKI_PROCOID`. `getSampledRows`' size check only LOGs, so every sample size is an Init state.
- `OuterSkipNull`/`OuterRow` and `InnerSkipNull`/`InnerPair` are one iteration of the outer and inner `for` loops. The inner loop starts at row 0, so the first pair visited is the first row with a feature paired with itself.
- `InnerPair` ends in `"crash"`. `calculateMinkowski` returns a float8 `Datum`, and line 264 passes it to `numeric_gt`, then `numeric_add` and `numeric_mul`, as a `Numeric` pointer. The model follows a build that passes float8 by value, the 64-bit default. There, distance 0.0 is the NULL pointer and every other distance is a non-canonical address, so detoasting it crashes the backend. On a by-reference build the float8's bytes are read as a `Numeric` header, which has no defined outcome; that build is not modelled.
- `Finish` is the exit of a sample with no feature: `rows_cntr` is 0 and `numeric_div` by `int4_numeric(0)` raises division by zero. The accumulation and the sigma/mu arithmetic after a completed loop are not modelled, because no defined execution reaches them.
- `NormalizeMinMax` and `NormalizeGaussian` are the two SQL functions as operators. The Gaussian's result `(d - mu)/(6 sigma) + 0.5` is kept without the square root: as `z = (d - mu)` times mu's denominator while it is inside [0, 1], and the clamps apply where `z^2` exceeds `9 sigma^2` (`GaussOver`). `OrderKept` is their property over one parameter triple.
- `MC_Sampling` runs the precompute to its end (an error or a crash) and then the mark builder on the same sample. The two are separate statements and share no state, so nothing is lost by not interleaving them, and the mark invariants are evaluated only once per sample.

**`PriorityQueue`.**
- A queue is `[maxSize, queue]`, and `Len(queue)` is `currentSize`.
- `SortFirst(s, n)` is `qsort_arg` over the first `n` slots.
- `InsertIntoQueue` writes the new key and sorts `Len(@)`, the size *before* the increment, exactly as line 76 does.
- The comparator of the scan is `btfloat8cmp`, so keys are integers compared with `<=`.

**`VABounds`.**
- Marks are 1-based sequences: the code's mark `p` is `marks[d][p+1]`. Cell numbers stay 0-based.
- `Precompute` builds one table per dimension with the `NumMarks` slots the code allocates. The last slot is `garbage` for the first dimension and the previous dimension's cell `NumMarks-2` otherwise.
- `garbage` is an Init-time choice: reading before a palloc'd chunk is undefined, and any value is possible.
- Integer vectors and marks keep every comparison exact. The code's floating-point divisions by two are rewritten as `2f <= m + mp1`.
- `SumTo` and `MaxTo` are `get_bound`'s two loops over the dimensions, from `trans_result = 0`.
- `GetMinkowskiNormFromInput` takes the parser's norm argument as a record: its node kind, its text and length, and the number `atof` or the node carries. `"max"`/`"MAX"` give `MINKOWSKI_MAX_NORM`, a String longer than five characters gives 0, and `MinkowskiNormAccepted` is the final check (`MINKOWSKI_MAX_NORM` or a value in (0, 100)).

**`VAScan`.**
- `Init` chooses:
  - the vectors;
  - a nonempty sample of them, which is all of them when `SampleAll`;
  - marks that satisfy the mark builder's contract for that sample;
  - the norm, as `getDistanceProcId` derives it from one of the query's norm arguments `Norms` through `GetMinkowskiNormFromInput` (an argument it rejects raises before any scan exists), and k, `check_tid` and garbage;
  - a placeholder query, which no step reads: `vaBeginScan` has no keys, and `ReScan` brings the first.
- The actions are:
  - `BeginScan`, `ReScan` (a new query from `Values`), `EndScan`;
  - `SingleStart(in)` or `MultiStart(in)`: `vaGetBitmap` called with bitmap `in` from `Inputs`, the dispatch, the queue (`nn_limit` slots, or `MAX(nn_limit, |in|)` for the multi search) and the norm check;
  - `FilterQueued`, `MultiFilter` or `FilterNoLimit`: one tuple of pass one, with or without a queue; the multi search skips tuples not in the bitmap;
  - `FilterEnd`;
  - `Emit` or `MultiEmit`: one tuple of pass two;
  - `EmitEnd`;
  - `Finished`: stuttering after `vaEndScan` or the error.
- `tbm` is the bitmap, starting as the executor's; `added` holds the TIDs passed to `tbm_add_tuples` (the returned count). `NoFalseNegative` is stated over `added`, with the bitmap's TIDs as the candidates of a multi search.
- Each tuple is one step, because nothing else runs in this model. The scan's buffer locking belongs to the page-store model.
- A heap row may have a NULL feature (`NullFeatures`, the model value `NoFeature`). `Apx` is `formTuple`: such a row keeps the zeroed approximation. The marks are built from non-null rows only, and the properties speak of non-null rows, which are the only ones with a distance.
- The `sk_flags & SK_ISNULL` early return (a NULL query) is left out. It returns before any state is touched.

**`VAPageStore`.**
- The processes are the inserters `Procs` (each indexes TIDs from `NewTids`), one VACUUM and one reader. Heap deletes are an environment action.
- The state:
  - `page[b]` is `[slots, maxoff, del]`. A tuple is its heap TID, since the approximation bytes do not matter to the page protocol. Page space is a tuple count: `PageCap` tuples fit.
  - `ExactFit` chooses whether a page with one free slot has exactly `sizeOfTuple` bytes free. `addItem` accepts when free >= sizeOfTuple, while the bulk delete lists a page only when free > sizeOfTuple.
  - `meta` holds the ring `notFullPage`, `nStart`, `nEnd` and `nChanges`.
  - `fsm` is the set of recorded free pages, and `npages` the relation's length.
  - `metaS` and `metaX` are the meta buffer's share holders and exclusive holder.
- Locks:
  - A lock held across steps is a variable.
  - Lock, change and release with no wait in between is one step. An example is `addItemToBlock`, which takes the page EXCLUSIVE; its guard `~VacHolds(b)` is the wait for the bulk delete's SHARE lock.
  - Buffer locks are not re-entrant. The retry loop's `LockBuffer(metaBuffer, EXCLUSIVE)` at line 978, taken while the backend holds that lock, leads to the state `selfWait`, which no action leaves.
- The actions:
  - `vaInsert` is split at every lock operation: `InsStartRing`/`InsStartEmpty`, `InsFirstAdded`/`InsFirstFull`, and `InsCountLoad`/`InsCountStore`. `nChanges++` is a load and a store under a share lock.
  - The rest of `vaInsert`: `InsRelock`, `InsLoopAdded`/`InsLoopFull`, and `InsFsmReuse`/`InsFsmBusy`/`InsExtend` (`newBuffer`), with `UseNewPage` for the new-page exit. `InsFsmBusy` is the "can't use it, try again" branch. `ConditionalLockBuffer` fails while the reader (line 457) or the bulk delete's `isDeleted` test (line 1236) holds the recycled page SHARE. Those holds are inside one step in the model, so the branch is enabled while their walk stands at that page. The page has already left the FSM and is lost to it until the next VACUUM records it again.
  - `InsReadError`: a `ReadBuffer` past the end of the file raises an ERROR, which releases the locks.
  - Bulk delete: `BdPageBegin`, `BdRemove` (maxoff--), `BdKeep` (the leftward copy), `BdPageEnd` (VA_DELETED and the local ring), and `BdMeta`/`BdNoMeta` (`countPage > 0` or not).
  - Cleanup: `VcStart`, `VcRecordFree`/`VcFilled`, and `VcTruncate`/`VcNoTruncate`.
  - The reader: `ScStart`, `ScPage`, `ScReadError` and `ScEnd`.
- History variables: `committed` (inserts that returned, plus the built TIDs), `dead` and `reaped`. The non-atomic `nChanges++` of the first insert path is two steps, `InsCountLoad` and `InsCountStore`; a lost increment is reachable, but no run checks it (see the hazards in `PROJECT.json`). The properties are stated over them.
- Slots past `maxoff` are cleared at `BdPageEnd`. The code leaves stale bytes there, but nothing reads them before `addItem` or `initPage` overwrites them, so clearing them only makes states canonical.
- Fairness: `FairSpec` (used by `insert_hang` and `store_mixed`) assumes weak fairness of every step of an operation already under way. Backends are scheduled preemptively, and a released buffer lock is granted to a waiter. Starting an insert, a VACUUM or a scan, and heap deletes, are clients' choices and not fair.
- Deadlock checking is off in the page-store runs. The bounds stop every process, and an inserter can genuinely stop in `selfWait`.

### Refinement: `VAScan` implements `KnnScan`

`KnnScan` states what an index scan promises the executor (spec sections 2 and 4), with the call as one step:
- `phase` runs `init`, `open`, then `ready` (keys given), `busy` (a call under way), `done`, and finally `closed` or `error`;
- `dist` are the distances to the current query, `limit` is k, `live` the TIDs whose feature is not NULL;
- `Call` picks the call's candidates, and `Return` returns any `result` inside them for which `Answer(result, cand)` holds: every live candidate left out has at least k returned live TIDs no farther away;
- `Fail` may end a call at any point, since the spec does not list the errors a scan may raise.

The mapping, at the end of `VAScan.tla`:
- `AbsPhase`: `start` is `ready`, `filter` and `emit` are `busy`, the other values are themselves;
- `AbsCand` is `Candidates` (the input bitmap of a multi search, every TID otherwise) while a call runs or has returned, `AbsResult` is `added` once it has returned;
- `AbsDist` is `Dist` for non-null rows. Under `MINKOWSKI_MAX_NORM` it is 0: the norm check raises before any call returns, and the executor's `calculateMinkowski` takes its Ln branch with n = -1, which is no power sum;
- every filter and emit step is a stuttering step of `KnnScan`; `SingleStart`/`MultiStart` is `Call`, or `Fail` when the norm check raises; `FilterEnd`/`EmitEnd` into `done` is `Return`.

`ScanRefines == Knn!Spec` is checked as a PROPERTY in `scan_nn`. `NoFalseNegative` says the same of one state, but the refinement also fixes the order of the calls and ties the returned set to the candidates of the call that produced it: a multi search that emitted a TID outside its input bitmap (the mutant `MultiEmitAnyTid`) satisfies `NoFalseNegative` and breaks `ScanRefines`.

### FuzzyAggregation

- Numbers are integers times `Den`: `x` stands for `x / Den`. Inputs are halves and at most `MaxRows` rows are aggregated, so `Den = 2^MaxRows` makes every sum and product exact. `x < EPSILON` is `x <= 0` on that grid.
- Each C function is an operator of the same name. `t` is the transition value and `m` the row's similarity. The algebraic union's `float8[2]` is the pair `<<sum, product>>`.
- `drastic_intersect_final` passes the `Datum` itself to `similarity_to_distance`, so a float8's bit pattern is converted as an integer. `DatumAsFloat8` models what that gives after the clamp: 0 for +0.0, and 1 for anything else.
- `SFunc` and `Final` pair each aggregate with its functions. That pairing, the `initcond`s, and the per-row loop (`Transition`, then `Finalize`) belong to PostgreSQL's `CREATE AGGREGATE` and executor. They are not in the sources.
- `MC_FuzzyAggregation` gives each aggregate the `initcond` under which its sfunc and final function compute the two-row operator of its comment.
- The reference `NaryOp` folds the comment's binary operator (`BinaryOp`) across the rows' similarities.

## 3. Runs

| Run | Expect | Checks | Bounds |
|---|---|---|---|
| `scan_nn` | pass | `TypeOK`, `BoundsSound`, `NoFalseNegative`, `ScanRefines` | 3 tuples, 2 dims, values 0..2, 3 marks, k in {0,1}, norm arguments `'2'`, `'max'` and a rejected 100, all rows sampled, input bitmap {} or {1,3}, `check_tid` set |
| `scan_knn` | violation | `NoFalseNegative` | 3 tuples, 1 dim, values 0..6, 4 marks, k = 2, L1 |
| `scan_null` | violation | `NoFalseNegative` | 3 tuples, 2 dims, values 0..2, 4 marks, k = 1, L1, all non-null rows sampled, no input bitmap, rows may have a NULL feature |
| `store_vacuum` | pass | `TypeOK`, `NoLostTuple`, `FsmPagesReusable`, `NoDuplicateEntry` | 3 built tuples, 2 per page, ring of 1, 3 blocks, 2 VACUUM rounds, a reader, no inserter |
| `store_insert` | pass | `NoLostTuple`, `ScanComplete` | 2 built tuples, 2 inserters, 3 new TIDs, 2 per page, 4 blocks, a reader, no VACUUM |
| `store_mixed` | pass | `FsmPagesReusable`, `VacuumTerminates` under `FairSpec` | 1 built tuple, 1 inserter, 2 new TIDs, 2 per page, 3 blocks, 1 VACUUM round, a reader |
| `scan_compaction` | violation | `ScanComplete` | as `store_vacuum` |
| `lost_tuple` | violation | `NoLostTuple` | as `store_mixed`, with 1 tuple per page |
| `sample_stats` | pass | `TypeOK`, `MarksContract`, `EquifrequentIsQuantile`, `NormalizedOrderKept`, `MinMaxFoldPerSpec` | 5 marks, 5 cells, every sample of 0..5 rows over values 0..4 and NULL, a Minkowski and a named distance; normalization parameters max in 0..4, mu in 0..4 over 1 or 2, sigma² in 0..9 over 1 or 2; for the fold, every sample of 0..3 rows, each NULL or a feature of 0..2 components over 0..2 |
| `marks_population` | violation | `PopulationPerSpec` | 4 marks, 4 cells, samples of up to 4 rows over 0..3 |
| `insert_hang` | violation | `InsertTerminates` under `FairSpec` | as `store_insert` |
| `aggregate_nary` | violation | `AggregateIsNaryNorm` | all eight aggregates, 1 to 3 rows, distances 0, 1/2, 1, 3/2 |

What the runs show:
- **`scan_nn`** is the positive result. With marks taken from every row, through rescans and both searches, the bounds enclose the distance for every vector, query and mark placement in range, and the filter is complete for k <= 1. The queue bug needs two filled slots, so it cannot show at k = 1.
  - Every begin/rescan/getbitmap/end sequence implements `KnnScan` (`ScanRefines`).
  - L2 is the norm whose exponent makes the bound arithmetic differ from L1's; `'max'` reaches the norm check's raise (`adam_index_va.c:386`), which `KnnScan` allows as a failed call.
  - The 3-mark bound covers every cell kind: below, inside and above, and the clamped last slot.
  - Values 0..2 cover both midpoint branches, ties at a mark, and degenerate dimensions where min = max.
- **`scan_knn`** shows the queue bug of `insertIntoQueue` line 76. It needs at least three cells and k = 2, so that the unsorted queue slot evicts the wrong bound. TLC's trace:
  - the vectors are `<<0>>, <<2>>, <<0>>`, the marks `<<0,0,1,2>>`, the query `<<2>>` after a rescan, and k = 2;
  - tuple 1 enters the queue with upper bound 2, and tuple 2 with upper bound 1. The sort before the increment leaves the queue `<<2,1>>`, so the slot compared against holds 1, not the maximum;
  - tuple 3 (lower bound 2) is rejected against that 1, and in the emit pass tuples 1 and 3 (lower bound 2) are skipped too. Only tuple 2 is emitted, although tuples 1 and 3, both at distance 2, tie for the second neighbour.
- **`scan_null`**: `formTuple` gives a row with a NULL feature the all-zero approximation, and it is indexed. With rows NULL, `<<0,2>>`, `<<2,0>>`, marks `<<0,0,1,2>>` in both dimensions and query `<<0,0>>`, the NULL row's upper bound is 0, both real rows have lower bound 1, and only the NULL row is emitted. Three cells per dimension are needed: with two, a neighbouring cell's lower bound never exceeds the corner cell's upper bound.
- **Marks from a proper sample.** `VAScan` also covers marks built from a proper sample, and rows inserted after the build (`SampleAll = FALSE`). With k = 1 and L1, TLC finds `NoFalseNegative` violated. A row outside the marks' range gets bounds from the wrong slot (`adam_index_va.c:1847`), and the filter drops it. This is listed as a hazard; `scan_null` uses the same filter path.
- **`store_vacuum`**: compaction, VA_DELETED marking, the ring rewrite, FSM recording and truncation, over two rounds, keep every live tuple on exactly one live page.
  - Two rounds are needed for a page deleted in one round to be recorded, skipped or truncated in the next.
  - Three tuples at two per page give one full and one half-full page, so both ring branches occur.
- **`store_insert`**: two inserters racing through the ring, the relock, the retry loop and extension lose no tuple. A concurrent reader sees every tuple live at its start.
- **`store_mixed`**: the FSM hands `newBuffer` only deleted pages (`FsmPagesReusable`); `newBuffer` passes one over only while the reader holds it (`InsFsmBusy`, which this run reaches).
  - Under `FairSpec`, every VACUUM that starts returns (`VacuumTerminates`). Two tuples fit a page, so the half-full built page is listed, and `BdMeta` must wait at line 1288 for the meta buffer. The inserter holds that buffer SHARE from its ring read to `nChanges++`, or EXCLUSIVE through a new page.
  - The mutant that returns from the first insert path without releasing the SHARE lock leaves the VACUUM waiting forever, and TLC finds it.
  - The inserter's self-wait of `insert_hang` would also block the VACUUM. With one inserter it needs a ring rewritten between its first try and its relock, which only the one VACUUM round does, after its own wait.
- **`scan_compaction`**: the reader reads page 1 after `BdRemove` decremented `maxoff` and before `BdKeep` copied the survivor left. It sees the dead `t1` and misses the live `t2`.
- **`lost_tuple`**: an insert takes the ring's head page while the bulk delete empties it and marks it VA_DELETED. With no page left to list (`countPage = 0`) the ring is not rewritten, `addItem` appends to the deleted page, and no scan finds the tuple.
- **`sample_stats`**: for every sample both builders return marks from the minimum to the maximum that never decrease, and the incremental walk puts each equifrequent mark where a fresh search of the histogram for its threshold would (`EquifrequentIsQuantile`). `MinSampleRows` is 1 instead of 256 so that the size check and the no-data exit both occur on small samples; 5 cells and 5 marks make rounding ties, empty cells and several marks in one cell occur.
  - For the same samples, `PRECOMPUTE NORMALIZATION` runs first and ends in the distance error, the division by zero of a sample without features, or the crash at the first pair. The mark builder is then checked after each outcome.
  - `normalizeMinMax` and `normalizeGaussian` map every distance from 0 to max + 1 into [0, 1] without reordering two distances (`NormalizedOrderKept`), so a ranking by normalized distance is the ranking by distance. The parameters are the ones a user gives, since the precompute yields none: max 0..4, mu 0..4 in halves, and sigma² 0..9 in halves. The Gaussian's upper and lower clamps are both reached, and sigma = 0 is the division by zero of `GaussRaises` (a hazard). The check is a constant, evaluated once.
  - `getMinMax`'s fold of `feature_min` and `feature_max` gives spec section 5's per-dimension minimum and maximum, cut to the shortest feature (`MinMaxFoldPerSpec`), on every sample of up to three rows that are NULL or dense features of up to two components. Three rows are the fewest that give a running result, a second and a third fold step, and features of lengths 0, 1 and 2 in any order. The fold is a constant of the sample set, so TLC evaluates it once. An empty feature `'<>'` in a sample truncates every range to nothing: the code and the spec's "shortest row" agree on it, and it is listed as a hazard.
- **`marks_population`**: spec section 5 places mark p once p·n/P rows lie below it. The property asks only for the share rounded down, ⌊p·n/P⌋, which the spec's rule implies and which the code's `(mark_ctr * numRowsUsed) / MAX_PARTITIONS` means to compute. The trace therefore isolates the macro.
  - The unparenthesised `MAX_PARTITIONS` makes the threshold `p*n/MAX_MARKS - 1`.
  - TLC's trace is the equifrequent sample `<<0, 1>>` with four marks (P = 3). The thresholds are 2/4 − 1 = −1 and 4/4 − 1 = 0, the walk never advances, and the marks are the minimum, the minimum, the minimum and the maximum. Mark 2 has no row below it, where ⌊4/3⌋ = 1 is required.
  - With the macro parenthesised, the property holds on every sample of the run.
- **`aggregate_nary`**: `algebraic_union_final` returns sum − product. That is the algebraic union only for exactly two rows. A single row of similarity m gives sum = product = m, so the result is similarity 0, that is distance 1, whatever the row's distance. TLC's trace is such a row: depending on how its workers explore the initial states, it shows the row at distance 1/2 or at distance 0.
  - With `Aggregates` narrowed, TLC also breaks `bounded_intersect` (the final function subtracts 1, where it should subtract n − 1) and `drastic_intersect`. `drastic_intersect_sfunc`'s test `newnum - 1 < EPSILON` always holds, and its final function converts the `Datum`'s bits.
  - The other five aggregates satisfy the property over every input sequence.
- **`insert_hang`**: two inserters find the ring empty. One extends the file, and the other relocks and finds the new page in the ring. Its add succeeds, and it then waits on its own exclusive lock forever.

Every property of a passing run has a mutant in `PROJECT.json`: a plausible bug in one mapped definition, which TLC must catch under the run's bounds. The findings are recorded in `PROJECT.json`.

## 4. Plan

Done: `PriorityQueue`, `VABounds`, `VAScan`, `VAPageStore`, `VAMarks`, `FeatureMinMax`, `Normalization` and `FuzzyAggregation`. The refinement of `KnnScan` by `VAScan` is checked in `scan_nn`. Still to add: a liveness property of the scan's calls under a fair executor, and the normalization accumulation and arithmetic once the crash at `adam_retrieval_normalization.c:264` is fixed.

Not modelled, and why:
- feature text I/O, the casts and the eq/cmp/hash functions of `adam_data_feature.c`, catalog commands and the parser: parsing, formatting, delegation to PostgreSQL's array functions and catalog calls with no state of the index;
- NULL elements inside a feature: `FeatureMinMax` reproduces their shift and the unwritten slots, but spec section 3 defines a feature as dense, so no property says what a NULL element should give (a hazard at `adam_data_feature.c:512`);
- the precompute's norm (`adam_retrieval_normalization.c:379`): it is passed as a `numeric` Datum and read by `calculateMinkowski` with `DatumGetFloat8`, so the L1 branch runs for every norm. `Normalization` computes L1 distances, which is what the code does; this spec divergence is a hazard, without a run because every run slot is in use;
- the cost estimate and reloptions: arithmetic with no state change;
- WAL and crash recovery: the index writes no WAL (`vaRedo` PANICs as unimplemented), and flushing is PostgreSQL's;
- the cell convention of spec section 8 invariant 1 (`set_bitstring` puts a tie into the lower cell): it is a hazard in `PROJECT.json`, and bound soundness, which is what it serves, is checked;
- the precompute's crash (`adam_retrieval_normalization.c:264`): `Normalization` reproduces it, but no run states spec 4.4's promise of parameters, because all twelve run slots hold other findings. It is a hazard in `PROJECT.json`;
- `getNormalizationStatistics`: it always raises, because its option list is `NIL`, and the precompute's results never reach it: `storeResults` is commented out;
- the distance-function lookup (`adam_retrieval.c`): catalog lookups and parse-tree construction with no state of its own. The one value it hands the index, the norm, is `VABounds`' `GetMinkowskiNormFromInput`;
- the except functions (standard, Sugeno and Yager complements): single-value real arithmetic with real parameters and powers;
- findings kept as hazards without a run of their own: the lost `nChanges` increment at `adam_index_va.c:951`; `vaVacuumCleanup` adding every page's `maxoff` to the `num_index_tuples` `vaBulkDelete` already counted (line 1377), which doubles the reported count; `getSampledRows` in the mark builder counting NULL rows towards its 256-row minimum (`adam_index_marks.c:578`); and three spec divergences: `bitmapMultiSearch` sizes its queue `MAX(nn_limit, tbm_nentries)` and adds survivors to the bitmap they came from, so it prunes nothing (the model does the same; `NoFalseNegative` holds for it trivially); the norm check at `adam_index_va.c:386` rejects `MINKOWSKI_MAX_NORM` (-1), so maximum-norm queries error; and the new-page exit of `vaInsert` (line 993) does not increment `nChanges`. Both are single statements the models reproduce (`Start`, `UseNewPage`);
- floating-point rounding and fractional norms: TLC's integers cannot represent them. The branches they select are listed as hazards in `PROJECT.json`.

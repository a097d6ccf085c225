--------------------------- MODULE PriorityQueue ---------------------------
(***************************************************************************)
(* The fixed-capacity priority queue of                                    *)
(* src/backend/utils/misc/adam_utils_priorityqueue.c.                      *)
(*                                                                         *)
(* A queue is the record [maxSize, queue]: queue holds the currentSize     *)
(* filled slots in order (Len(queue) = currentSize).  The comparator the   *)
(* VA scan installs is btfloat8cmp, so keys are numbers compared with <=.  *)
(* The operators below are what the VA scan (VAScan.tla) calls; the scan's *)
(* variable pq holds the queue.                                            *)
(***************************************************************************)
EXTENDS Integers, Sequences, SequencesExt

\* createQueue(numOfElements, fcinfo)
CreateQueue(n) == [maxSize |-> n, queue |-> <<>>]

\* qsort_arg((void *) q->queue, n, ...): sorts the first n slots only.
SortFirst(s, n) ==
    SortSeq(SubSeq(s, 1, n), LAMBDA a, b : a < b) \o SubSeq(s, n + 1, Len(s))

\* Mutant: the check compares with < instead of <= (ties rejected).
InsertIntoQueueCheckStrict(q, key) ==
    \/ Len(q.queue) < q.maxSize
    \/ key < q.queue[q.maxSize]

\* insertIntoQueueCheck: room left, or the key is <= the last slot.
InsertIntoQueueCheck(q, key) ==
    \/ Len(q.queue) < q.maxSize
    \/ key <= q.queue[q.maxSize]

\* Mutant: the capacity test is dropped, every key is appended.
InsertIntoQueueUnbounded(q, x) ==
    [q EXCEPT !.queue = SortFirst(Append(@, x), Len(@))]

\* insertIntoQueue: while filling, the new key is written to slot
\* currentSize and qsort_arg is called with the size BEFORE the increment;
\* when full, a key <= the last slot replaces it and all slots are sorted.
InsertIntoQueue(q, x) ==
    IF Len(q.queue) < q.maxSize
    THEN [q EXCEPT !.queue = SortFirst(Append(@, x), Len(@))]
    ELSE IF x <= q.queue[q.maxSize]
         THEN [q EXCEPT !.queue = SortFirst([@ EXCEPT ![q.maxSize] = x], Len(@))]
         ELSE q

\* getMaximumElement: the last filled slot.
GetMaximumElement(q) == q.queue[Len(q.queue)]

=============================================================================

------------------------------- MODULE KnnScan -------------------------------
(***************************************************************************)
(* What an index scan of the VA file promises the executor (spec sections *)
(* 2 and 4): the scan is opened, given keys, asked for a bitmap any number *)
(* of times (once per rescan) and closed.  A bitmap call either fails or   *)
(* returns a set of TIDs, drawn from its candidates (every TID, or the     *)
(* executor's bitmap), from which refining by exact distance yields a      *)
(* k-nearest-neighbour answer: every candidate left out, whose feature is  *)
(* not NULL, has at least k returned non-null TIDs no farther away.        *)
(*                                                                         *)
(* The call is one atomic step here; VAScan takes many steps for it.       *)
(***************************************************************************)
EXTENDS Integers, FiniteSets

CONSTANT Tids

VARIABLES
    phase,    \* "init", "open", "ready", "busy", "done", "closed", "error"
    dist,     \* dist[t]: the distance of t to the current query
    limit,    \* k, the nn_limit of the scan (0: no limit)
    live,     \* the TIDs whose feature is not NULL
    cand,     \* the candidates of the call in progress or last returned
    result    \* the TIDs the last call returned

vars == <<phase, dist, limit, live, cand, result>>

\* S, returned from candidates C, contains a k-nearest-neighbour answer
Answer(S, C) ==
    /\ S \subseteq C
    /\ \A t \in (C \ S) \cap live :
          Cardinality({u \in S \cap live : dist[u] <= dist[t]}) >= limit

Init ==
    /\ phase = "init"
    /\ dist \in [Tids -> Nat]
    /\ limit \in Nat
    /\ live \subseteq Tids
    /\ cand = {}
    /\ result = {}

Open ==
    /\ phase = "init"
    /\ phase' = "open"
    /\ UNCHANGED <<dist, limit, live, cand, result>>

\* new keys: the distances are those to the new query
Rescan ==
    /\ phase \in {"open", "done"}
    /\ phase' = "ready"
    /\ dist' \in [Tids -> Nat]
    /\ cand' = {} /\ result' = {}
    /\ UNCHANGED <<limit, live>>

\* a bitmap call starts on its candidates
Call ==
    /\ phase = "ready"
    /\ phase' = "busy"
    /\ cand' \in SUBSET Tids
    /\ UNCHANGED <<dist, limit, live, result>>

Return ==
    /\ phase = "busy"
    /\ phase' = "done"
    /\ Answer(result', cand)
    /\ UNCHANGED <<dist, limit, live, cand>>

\* the call raises an error
Fail ==
    /\ phase \in {"ready", "busy"}
    /\ phase' = "error"
    /\ UNCHANGED <<dist, limit, live, cand, result>>

\* closing releases the result
Close ==
    /\ phase \in {"open", "done"}
    /\ phase' = "closed"
    /\ cand' = {} /\ result' = {}
    /\ UNCHANGED <<dist, limit, live>>

Next == Open \/ Rescan \/ Call \/ Return \/ Fail \/ Close

Spec == Init /\ [][Next]_vars
=============================================================================

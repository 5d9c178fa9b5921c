------------------------------- MODULE Fusion -------------------------------
(***************************************************************************)
(* Reciprocal rank fusion (query/fusion.py) and the relevance gate         *)
(* (query/relevance.py).  A result list is the sequence of the chunk ids   *)
(* of its rows, best first; an id occurs once for each of its rows.        *)
(***************************************************************************)
EXTENDS Naturals, FiniteSets, FiniteSetsExt

CONSTANTS
    RrfK,   \* rrf_k
    Scale,  \* what weights are multiples of 1/Scale of, to stay whole
    TopK    \* top_k_fused

Found(rows) == {rows[i] : i \in DOMAIN rows}
RanksOf(rows, c) == {i \in DOMAIN rows : rows[i] = c}

(* 1 / (k + rank), exact when Scale is a multiple of k + rank. *)
Weight(rank) == Scale \div (RrfK + rank)

(* A list contributes for each row of the chunk; a leg that finds it twice   *)
(* adds twice.                                                               *)
LegScore(rows, c) == MapThenSumSet(Weight, RanksOf(rows, c))

(* Slip: only the rank within the leg that found it first counts. *)
ScoreOfOneLeg(dense, sparse, c) ==
    IF c \in Found(dense) THEN LegScore(dense, c) ELSE LegScore(sparse, c)

Score(dense, sparse, c) == LegScore(dense, c) + LegScore(sparse, c)

(* Where the chunk first comes up: the order dict and sort leave equals in. *)
FirstSeen(dense, sparse, c) ==
    IF c \in Found(dense) THEN Min(RanksOf(dense, c))
    ELSE Cardinality(DOMAIN dense) + Min(RanksOf(sparse, c))

Beats(dense, sparse, c, d) ==
    LET s == Score(dense, sparse, c)
        t == Score(dense, sparse, d)
    IN  \/ s > t
        \/ s = t /\ FirstSeen(dense, sparse, c) < FirstSeen(dense, sparse, d)

(* The fused list as a set: all but top_k chunks or more that beat it. *)
rrf_fuse(dense, sparse) ==
    LET all == Found(dense) \cup Found(sparse)
    IN  {c \in all : Cardinality({d \in all : Beats(dense, sparse, d, c)}) < TopK}

(* Slip: min_hits is what there may be without relevance. *)
MoreThanMinHits(dense, dist, threshold, minHits) ==
    Cardinality({i \in DOMAIN dense : dist[dense[i]] < threshold}) > minHits

(* The gate counts rows closer than the threshold. *)
has_relevant_results(dense, dist, threshold, minHits) ==
    Cardinality({i \in DOMAIN dense : dist[dense[i]] < threshold}) >= minHits
=============================================================================

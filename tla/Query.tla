-------------------------------- MODULE Query --------------------------------
(***************************************************************************)
(* Questions (query/engine.py, dense.py, sparse.py) answered from the two  *)
(* stores while chunk and index runs change them.  A request embeds its    *)
(* question, searches LanceDB, passes the relevance gate, searches FTS5,   *)
(* fuses and lets the model answer; nothing holds the stores still between *)
(* the two searches, and nothing is kept from one request to the next.     *)
(* The stores and the runs are those of Indexing.                          *)
(***************************************************************************)
EXTENDS Indexing, Fusion

CONSTANTS
    Request,    \* requests under way at the same time
    Question,   \* what a request asks, and whether the config it is asked under
                \* says allow_general_knowledge_fallback
    Threshold,  \* relevance_distance_threshold
    MinHits,    \* relevance_min_hits
    TopDense, TopSparse   \* top_n_dense, top_n_sparse

(* Smaller is better in both orders; keyword[c] = 0: no term of it in c. *)
ASSUME QuestionAssumption ==
    Question \subseteq [dist : [Chunk -> Nat], keyword : [Chunk -> Nat],
                        fallback : BOOLEAN]
ASSUME LimitAssumption ==
    {Threshold, MinHits, TopDense, TopSparse, RrfK, TopK} \subseteq Nat
ASSUME ScaleAssumption ==
    Scale \in Nat \ {0} /\ \A i \in 1..TopDense \cup 1..TopSparse : Scale % (RrfK + i) = 0

VARIABLES
    at,       \* where a request is
    asked,    \* its question
    dense, sparse,  \* chunk ids of the rows each leg returned
    sources,  \* chunks the answer cites
    outcome,
    (* History, for the properties: over the time a request takes, *)
    live,     \* chunks that were pending or embedded at some moment
    waiting,  \* chunks that were marked deleted already when it was asked
    steady    \* chunks that were embedded all the time

request == <<at, asked, dense, sparse, sources, outcome>>
history == <<live, waiting, steady>>
queryVars == <<vars, request, history>>

Active(r) == at[r] \notin {"new", "answer"}
Committed(s) == {c \in Chunk : savedStatus[c] = s}

QueryInit ==
    /\ Init
    /\ at = [r \in Request |-> "new"]
    /\ asked \in [Request -> Question]
    /\ dense = [r \in Request |-> <<>>]
    /\ sparse = dense
    /\ sources = [r \in Request |-> {}]
    /\ outcome = [r \in Request |-> "none"]
    /\ live = [r \in Request |-> {}]
    /\ waiting = live
    /\ steady = live

-----------------------------------------------------------------------------
(* The answers of the stores: the first n rows in the order of key, those  *)
(* of equal key in any order.  copies[c] is the number of rows of c.       *)

Lists(n) == UNION {[1..m -> Chunk] : m \in 0..n}
IsFull(rows, n) == DOMAIN rows = 1..n
Rows(rows, c) == Cardinality(RanksOf(rows, c))

Tops(copies, n, key) ==
    {rows \in Lists(n) :
        /\ \A i, j \in DOMAIN rows : i < j => key[rows[i]] <= key[rows[j]]
        /\ \A c \in Found(rows) : Rows(rows, c) <= copies[c]
        /\ \A c \in Chunk : Rows(rows, c) < copies[c] =>
              IsFull(rows, n) /\ \A i \in DOMAIN rows : key[rows[i]] <= key[c]}

Goes(r, where) == at' = [at EXCEPT ![r] = where]

Ends(r, what, cited) ==
    /\ Goes(r, "answer")
    /\ outcome' = [outcome EXCEPT ![r] = what]
    /\ sources' = [sources EXCEPT ![r] = cited]

Ask(r) ==
    /\ at[r] = "new"
    /\ Goes(r, "embed")
    /\ UNCHANGED <<asked, dense, sparse, sources, outcome>>

Embed(r) ==
    /\ at[r] = "embed"
    /\ ollamaUp
    /\ Goes(r, "dense")
    /\ UNCHANGED <<asked, dense, sparse, sources, outcome>>

EmbedFails(r) ==
    /\ at[r] = "embed"
    /\ Ends(r, "error", {})
    /\ UNCHANGED <<asked, dense, sparse>>

Relevant(rows, r) ==
    has_relevant_results(rows, asked[r].dist, Threshold, MinHits)

SearchDense(r) ==
    /\ at[r] = "dense"
    /\ \E rows \in Tops(lance, TopDense, asked[r].dist) :
          /\ dense' = [dense EXCEPT ![r] = rows]
          /\ Goes(r, IF Relevant(rows, r) THEN "sparse" ELSE "irrelevant")
    /\ UNCHANGED <<asked, sparse, sources, outcome>>

(* The connection is a new one and reads committed rows. *)
Matching(r) ==
    [c \in Chunk |-> IF asked[r].keyword[c] > 0 THEN savedFts[c] ELSE 0]

SearchSparse(r) ==
    /\ at[r] = "sparse"
    /\ \E rows \in Tops(Matching(r), TopSparse, asked[r].keyword) :
          sparse' = [sparse EXCEPT ![r] = rows]
    /\ Goes(r, "generate")
    /\ UNCHANGED <<asked, dense, sources, outcome>>

(* A store that cannot be read, or an answer of the embedder that is no     *)
(* vector: an exception answer_query does not catch reaches its caller.     *)
Raises(r) ==
    /\ at[r] \in {"embed", "dense", "sparse"}
    /\ Ends(r, "raised", {})
    /\ UNCHANGED <<asked, dense, sparse>>

Generate(r) ==
    /\ at[r] = "generate"
    /\ ollamaUp
    /\ Ends(r, "answered", rrf_fuse(dense[r], sparse[r]))
    /\ UNCHANGED <<asked, dense, sparse>>

(* The gate is closed: no excerpts, and without the fallback no model. *)
Refuse(r) ==
    /\ at[r] = "irrelevant"
    /\ ~asked[r].fallback
    /\ Ends(r, "no_relevant", {})
    /\ UNCHANGED <<asked, dense, sparse>>

GeneralKnowledge(r) ==
    /\ at[r] = "irrelevant"
    /\ asked[r].fallback /\ ollamaUp
    /\ Ends(r, "general_knowledge", {})
    /\ UNCHANGED <<asked, dense, sparse>>

(* No connection, no answer in time, or one of the wrong shape. *)
GenerateFails(r) ==
    /\ at[r] = "generate" \/ (at[r] = "irrelevant" /\ asked[r].fallback)
    /\ Ends(r, "error", {})
    /\ UNCHANGED <<asked, dense, sparse>>

(* The result goes to the caller, and the next question may come. *)
Return(r) ==
    /\ at[r] = "answer"
    /\ Goes(r, "new")
    /\ \E q \in Question : asked' = [asked EXCEPT ![r] = q]
    /\ dense' = [dense EXCEPT ![r] = <<>>]
    /\ sparse' = [sparse EXCEPT ![r] = <<>>]
    /\ sources' = [sources EXCEPT ![r] = {}]
    /\ outcome' = [outcome EXCEPT ![r] = "none"]

(* answer_query, once it is called. *)
Serve(r) ==
    \/ Embed(r) \/ EmbedFails(r) \/ SearchDense(r) \/ SearchSparse(r) \/ Raises(r)
    \/ Generate(r) \/ GenerateFails(r) \/ Refuse(r) \/ GeneralKnowledge(r)

-----------------------------------------------------------------------------
Live == {c \in Chunk : savedStatus[c] \in {"pending", "embedded"}}

(* What a request has seen pass by. *)
Watch ==
    /\ live' = [r \in Request |->
                   IF at'[r] = "new" THEN {}
                   ELSE IF Active(r)' THEN live[r] \cup Live' ELSE live[r]]
    /\ waiting' = [r \in Request |->
                      IF at'[r] = "new" THEN {}
                      ELSE IF at[r] = "new" THEN Committed("deleted") ELSE waiting[r]]
    /\ steady' = [r \in Request |->
                     IF at'[r] = "new" THEN {}
                     ELSE IF at[r] = "new" THEN Committed("embedded")
                     ELSE IF Active(r)' THEN steady[r] \cap Committed("embedded")'
                     ELSE steady[r]]

QueryNext ==
    /\ \/ Next /\ UNCHANGED request
       \/ (\E r \in Request : Ask(r) \/ Serve(r) \/ Return(r)) /\ UNCHANGED vars
    /\ Watch

QuerySpec == QueryInit /\ [][QueryNext]_queryVars

-----------------------------------------------------------------------------
(* Properties. *)

QueryTypeOK ==
    /\ TypeOK
    /\ at \in [Request -> {"new", "embed", "dense", "sparse", "irrelevant",
                           "generate", "answer"}]
    /\ asked \in [Request -> Question]
    /\ dense \in [Request -> Lists(TopDense)]
    /\ sparse \in [Request -> Lists(TopSparse)]
    /\ sources \in [Request -> SUBSET Chunk]
    /\ outcome \in [Request -> {"none", "answered", "no_relevant",
                                "general_knowledge", "error", "raised"}]

(* An answer cites only chunks that were live at some moment while it was    *)
(* made, or whose withdrawal was already waiting for the index stage when it *)
(* was asked: neither search looks at embedding_status, so this rests on the *)
(* stages' order of writes (engine.py:63-83, indexing/pipeline.py:53-79).    *)
SourcesCurrent ==
    \A r \in Request : sources[r] \subseteq live[r] \cup waiting[r]

(* A chunk that stays embedded all the time is found by both legs, whatever  *)
(* runs do between the two searches, unless the leg's limit is used up.      *)
SteadyFound ==
    \A r \in Request : at[r] = "generate" \/ outcome[r] = "answered" =>
        \A c \in steady[r] :
            /\ c \in Found(dense[r]) \/ IsFull(dense[r], TopDense)
            /\ \/ c \in Found(sparse[r]) \/ IsFull(sparse[r], TopSparse)
               \/ asked[r].keyword[c] = 0

(* Nothing is called irrelevant that was there: a request the gate turned    *)
(* away found fewer than min_hits chunks near enough among those that stayed *)
(* embedded while it was made (relevance.py:50-52), whatever runs did.       *)
RefusalJustified ==
    \A r \in Request :
        at[r] = "irrelevant" \/ outcome[r] \in {"no_relevant", "general_knowledge"}
        => \/ TopDense < MinHits
           \/ Cardinality({c \in steady[r] : asked[r].dist[c] < Threshold}) < MinHits

OnceEach(rows) == \A i, j \in DOMAIN rows : rows[i] = rows[j] => i = j

(* What fusion is for: as long as no store holds a chunk twice, one found by *)
(* both legs comes before every one found by a single leg (fusion.py:8-11;   *)
(* the limits are below k + 2).                                              *)
BothLegsFirst ==
    \A r \in Request :
        LET d == dense[r]
            s == sparse[r]
            both == Found(d) \cap Found(s)
        IN  outcome[r] = "answered" /\ OnceEach(d) /\ OnceEach(s)
            => \A c \in both : c \in sources[r] \/ sources[r] \subseteq both
=============================================================================

------------------------------ MODULE Explorer ------------------------------
(***************************************************************************)
(* The console's query explorer (console/explorer.py and the handler in    *)
(* console/api.py): what retrieval does with a question, and what the      *)
(* production engine would answer, without the production logs.  One       *)
(* exploration at a time: a second one is turned away, not queued.  What   *)
(* the stores return is any of the given results.                          *)
(***************************************************************************)
EXTENDS Fusion

CONSTANTS
    Caller,             \* browser windows
    Result,             \* what both searches may return: [dense, sparse]
    Dist,               \* the distance of each chunk
    Threshold, MinHits,
    Config              \* settings it may run under: [demo, fallback]

ASSUME SettingsAssumption == Config \subseteq [demo : BOOLEAN, fallback : BOOLEAN]

VARIABLES
    config,
    busy,       \* who holds the lock, or Nobody
    at,         \* where a caller's request is
    generate,   \* whether the caller wants an answer too
    result,     \* what retrieval returned
    reply       \* what the caller got
vars == <<config, busy, at, generate, result, reply>>

Nobody == "nobody"
ASSUME CallerAssumption == Nobody \notin Caller

NoResult == [dense |-> <<>>, sparse |-> <<>>]
Refusal(what) == [kind |-> what, outcome |-> "none", answer |-> "none"]

Init ==
    /\ config \in Config
    /\ busy = Nobody
    /\ at = [c \in Caller |-> "page"]
    /\ generate = [c \in Caller |-> FALSE]
    /\ result = [c \in Caller |-> NoResult]
    /\ reply = [c \in Caller |-> Refusal("none")]

Goes(c, where) == at' = [at EXCEPT ![c] = where]
Replies(c, r) == Goes(c, "page") /\ reply' = [reply EXCEPT ![c] = r]
Leaves(c, r) == Replies(c, r) /\ busy' = Nobody

(* Blank questions, and files that are not there, are turned away first.    *)
Receive(c) ==
    /\ at[c] = "page"
    /\ generate' \in {[generate EXCEPT ![c] = g] : g \in BOOLEAN}
    /\ \/ Goes(c, "enter") /\ UNCHANGED reply
       \/ Replies(c, Refusal("bad_request"))
       \/ ~config.demo /\ Replies(c, Refusal("unavailable"))
    /\ UNCHANGED <<config, busy, result>>

Enter(c) ==
    /\ at[c] = "enter"
    /\ IF busy = Nobody
       THEN busy' = c /\ Goes(c, "embed") /\ UNCHANGED reply
       ELSE Replies(c, Refusal("busy")) /\ UNCHANGED busy
    /\ UNCHANGED <<config, generate, result>>

Embed(c) ==
    /\ at[c] = "embed"
    /\ Goes(c, "search")
    /\ UNCHANGED <<config, busy, generate, result, reply>>

(* Slip: the lock is given back by the normal way out only. *)
EmbedFailsLocked(c) ==
    /\ at[c] = "embed" /\ ~config.demo
    /\ Replies(c, Refusal("embedding_failed"))
    /\ UNCHANGED <<config, busy, generate, result>>

(* The demo's embedder is a function of its own and does not fail. *)
EmbedFails(c) ==
    /\ at[c] = "embed" /\ ~config.demo
    /\ Leaves(c, Refusal("embedding_failed"))
    /\ UNCHANGED <<config, generate, result>>

(* retrieve(full=True): both searches, whatever the gate says. *)
Search(c) ==
    /\ at[c] = "search"
    /\ \E r \in Result : result' = [result EXCEPT ![c] = r]
    /\ Goes(c, "explain")
    /\ UNCHANGED <<config, busy, generate, reply>>

Inside(c) == at[c] \in {"embed", "search", "explain"}

(* A table that is not there, an answer of the wrong shape: whatever else   *)
(* is raised inside becomes a 500, past the same finally.                   *)
Raises(c) ==
    /\ Inside(c)
    /\ config.demo => at[c] # "embed"
    /\ Leaves(c, Refusal("internal_error"))
    /\ UNCHANGED <<config, generate, result>>

relevant(r) == has_relevant_results(r.dense, Dist, Threshold, MinHits)

(* Slip: the fallback is looked at before the gate. *)
explain_gateFallbackFirst(r) ==
    IF config.fallback THEN "general_knowledge"
    ELSE IF relevant(r) THEN "answered" ELSE "no_relevant"

(* The outcome production would have. *)
explain_gate(r) ==
    IF relevant(r) THEN "answered"
    ELSE IF config.fallback THEN "general_knowledge" ELSE "no_relevant"

(* What _generate answers from; nothing in a demo.                          *)
_generate(r, modelWorks) ==
    IF config.demo THEN "none"
    ELSE IF ~relevant(r) /\ ~config.fallback THEN "refusal"
    ELSE IF ~modelWorks THEN "error"
    ELSE IF relevant(r) THEN "documents" ELSE "own_knowledge"

(* The log of explorations is best effort and never fails one. *)
Explain(c) ==
    /\ at[c] = "explain"
    /\ \E modelWorks \in BOOLEAN :
          Leaves(c, [kind |-> "explained", outcome |-> explain_gate(result[c]),
                     answer |-> IF generate[c] THEN _generate(result[c], modelWorks)
                                ELSE "none"])
    /\ UNCHANGED <<config, generate, result>>

Next ==
    \E c \in Caller : \/ Receive(c) \/ Enter(c) \/ Embed(c) \/ EmbedFails(c)
                      \/ Search(c) \/ Raises(c) \/ Explain(c)
Spec == Init /\ [][Next]_vars

-----------------------------------------------------------------------------
Reply ==
    [kind : {"none", "bad_request", "unavailable", "busy", "embedding_failed",
             "internal_error", "explained"},
     outcome : {"none", "answered", "general_knowledge", "no_relevant"},
     answer : {"none", "refusal", "error", "documents", "own_knowledge"}]

TypeOK ==
    /\ config \in Config
    /\ busy \in Caller \cup {Nobody}
    /\ at \in [Caller -> {"page", "enter", "embed", "search", "explain"}]
    /\ generate \in [Caller -> BOOLEAN]
    /\ result \in [Caller -> Result \cup {NoResult}]
    /\ reply \in [Caller -> Reply]

(* The lock says the truth: it is held exactly while an exploration is      *)
(* under way, by the one that is.  So no two share the GPU, a request that  *)
(* is told "busy" met another one inside, and no way out, by an answer, a   *)
(* failed embedding or any other exception, leaves the explorer locked      *)
(* (explorer.py:72-78).                                                     *)
LockIsTrue ==
    /\ \A c \in Caller : Inside(c) => busy = c
    /\ busy # Nobody => \E c \in Caller : Inside(c)

(* Branch by branch, what production does (query/engine.py:87-131) with the *)
(* rows and the model the exploration had.                                  *)
ProductionOutcome(r, modelWorks) ==
    LET closer == {i \in DOMAIN r.dense : Dist[r.dense[i]] < Threshold}
        open == Cardinality(closer) >= MinHits
    IN  CASE ~open /\ ~config.fallback -> "no_relevant"
          [] ~open /\ config.fallback -> IF modelWorks THEN "general_knowledge" ELSE "error"
          [] open -> IF modelWorks THEN "answered" ELSE "error"

AnswerOf ==
    [answered |-> "documents", general_knowledge |-> "own_knowledge",
     no_relevant |-> "refusal", error |-> "error"]

(* The explorer shows what production would do with the same rows: the      *)
(* outcome it names is that of answer_query with a model that works, and    *)
(* the answer it generates comes from the same source, by code of its own   *)
(* (explain_gate, _generate, "Mirrors answer_query's branches").            *)
MirrorsProduction ==
    \A c \in Caller : reply[c].kind = "explained" /\ at[c] = "page" =>
        /\ reply[c].outcome = ProductionOutcome(result[c], TRUE)
        /\ reply[c].answer # "none" =>
              \E works \in BOOLEAN :
                  reply[c].answer = AnswerOf[ProductionOutcome(result[c], works)]
=============================================================================

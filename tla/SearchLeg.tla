----------------------------- MODULE SearchLeg -----------------------------
(***************************************************************************)
(* What one leg of the search index (the LanceDB table or the FTS5 table)  *)
(* promises to the query side, whatever the index run does inside:         *)
(* a chunk becomes findable only while it is wanted, and a findable chunk  *)
(* stays findable as long as it is wanted.  The chunk stage alone decides  *)
(* what is wanted.                                                         *)
(***************************************************************************)
CONSTANT Chunk

VARIABLES
    wanted,  \* the chunks the manifest holds as live (pending or embedded)
    found    \* the chunks a query on this leg can return

legVars == <<wanted, found>>

Init == wanted = {} /\ found = {}

(* The chunk stage commits: files were added, changed or removed. *)
Rechunk ==
    /\ wanted' \in SUBSET Chunk
    /\ UNCHANGED found

(* The index run makes wanted chunks findable. *)
Publish ==
    /\ \E S \in SUBSET wanted : found' = found \cup S
    /\ UNCHANGED wanted

(* The index run removes chunks that are no longer wanted. *)
Withdraw ==
    /\ \E S \in SUBSET (Chunk \ wanted) : found' = found \ S
    /\ UNCHANGED wanted

Next == Rechunk \/ Publish \/ Withdraw

Spec == Init /\ [][Next]_legVars
=============================================================================

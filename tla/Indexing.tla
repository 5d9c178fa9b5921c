------------------------------ MODULE Indexing ------------------------------
(***************************************************************************)
(* One index run after another (indexing/pipeline.py, run_index.py) over   *)
(* the chunks and FTS5 tables of manifest.db and the LanceDB table.        *)
(*                                                                         *)
(* manifest.db is transactional: the run's connection sees (status, fts),  *)
(* everybody else sees the committed (savedStatus, savedFts), and the two  *)
(* differ only while the run has a write transaction open.  LanceDB is not *)
(* part of that transaction: every add and every delete is durable at      *)
(* once.  The run can be killed at any point (the transaction is rolled    *)
(* back) or leave through an exception (open_manifest's close() commits    *)
(* what the transaction holds).                                            *)
(***************************************************************************)
EXTENDS Naturals, FiniteSets

CONSTANTS
    Chunk,          \* chunk ids, as numbers in the order of their text
    BatchSize,      \* config.embed_batch_size
    DeleteBatch,    \* _DELETE_BATCH
    Poison,         \* chunks whose text the embedding model always refuses
    Exclusive,      \* TRUE: every stage runs under run_maintenance.sh's lock
    MaxCrashes,     \* bound: runs killed outright
    MaxInterrupts   \* bound: runs that leave through an exception

ASSUME ChunkAssumption == Chunk \subseteq Nat /\ IsFiniteSet(Chunk)
ASSUME BatchAssumption == BatchSize \in Nat \ {0} /\ DeleteBatch \in Nat \ {0}
ASSUME ContextAssumption ==
    Poison \subseteq Chunk /\ Exclusive \in BOOLEAN
    /\ MaxCrashes \in Nat /\ MaxInterrupts \in Nat

VARIABLES
    savedStatus,  \* committed embedding_status of each chunk row ("none": no row)
    savedFts,     \* committed number of FTS5 rows of each chunk id
    status, fts,  \* the same as the run's own connection sees them
    lance,        \* number of LanceDB rows of each chunk id
    pc,           \* where the index run is
    batch,        \* chunk ids of the rows it has read
    behind,       \* ids at or before the keyset cursor `after`
    failed,       \* embed_batch_failures > 0
    exit,         \* how the last run ended
    ollamaUp,     \* the embedding service answers
    crashes, interrupts

store == <<savedStatus, savedFts>>
view == <<status, fts>>
run == <<batch, behind, failed>>
faults == <<crashes, interrupts>>
vars == <<savedStatus, savedFts, status, fts, lance, pc, batch, behind,
          failed, exit, ollamaUp, crashes, interrupts>>

Statuses == {"none", "pending", "embedded", "deleted"}

(* The places where the run holds an open write transaction on manifest.db. *)
InTransaction == {"mark", "commit", "purge", "ccommit"}

Places == {"idle", "scan", "embed", "add", "fts", "clean", "ldel", "fdel"}
          \cup InTransaction

RowsWith(s) == {c \in Chunk : status[c] = s}

(* ORDER BY chunk_id LIMIT n *)
FirstOf(S, n) == {c \in S : Cardinality({d \in S : d < c}) < n}

(* Every member of S takes the value v (UPDATE ... WHERE chunk_id = ?). *)
SetAll(f, S, v) == [c \in Chunk |-> IF c \in S THEN v ELSE f[c]]

AddOne(f, S) == [c \in Chunk |-> IF c \in S THEN f[c] + 1 ELSE f[c]]

Init ==
    /\ savedStatus = [c \in Chunk |-> "none"]
    /\ savedFts = [c \in Chunk |-> 0]
    /\ status = savedStatus
    /\ fts = savedFts
    /\ lance = [c \in Chunk |-> 0]
    /\ pc = "idle"
    /\ batch = {}
    /\ behind = {}
    /\ failed = FALSE
    /\ exit = "none"
    /\ ollamaUp \in BOOLEAN
    /\ crashes = 0
    /\ interrupts = 0

-----------------------------------------------------------------------------
(* The run, loop 1: embed and index every pending chunk, in batches. *)

(* Slip: the table is created with mode="overwrite" on every run. *)
StartOverwrites ==
    /\ pc = "idle"
    /\ pc' = "scan"
    /\ lance' = [c \in Chunk |-> 0]
    /\ behind' = {}
    /\ failed' = FALSE
    /\ UNCHANGED <<store, view, batch, exit, ollamaUp, faults>>

(* Slip: the cursor survives from one run to the next. *)
StartKeepsCursor ==
    /\ pc = "idle"
    /\ pc' = "scan"
    /\ failed' = FALSE
    /\ UNCHANGED <<store, view, lance, batch, behind, exit, ollamaUp, faults>>

Start ==
    /\ pc = "idle"
    /\ pc' = "scan"
    /\ behind' = {}
    /\ failed' = FALSE
    /\ UNCHANGED <<store, view, lance, batch, exit, ollamaUp, faults>>

PendingAhead == RowsWith("pending") \ behind

(* The cursor moves past the batch before the batch is embedded. *)
ReadPending ==
    /\ pc = "scan"
    /\ PendingAhead # {}
    /\ batch' = FirstOf(PendingAhead, BatchSize)
    /\ behind' = behind \cup {c \in Chunk : \E d \in batch' : c <= d}
    /\ pc' = "embed"
    /\ UNCHANGED <<store, view, lance, failed, exit, ollamaUp, faults>>

(* Slip: a run with a failed batch gives up before its cleanup. *)
PendingDoneGivesUp ==
    /\ pc = "scan"
    /\ PendingAhead = {}
    /\ pc' = IF failed THEN "idle" ELSE "clean"
    /\ exit' = IF failed THEN "failed" ELSE exit
    /\ UNCHANGED <<store, view, lance, run, ollamaUp, faults>>

PendingDone ==
    /\ pc = "scan"
    /\ PendingAhead = {}
    /\ pc' = "clean"
    /\ UNCHANGED <<store, view, lance, run, exit, ollamaUp, faults>>

(* One Ollama call embeds the whole batch or fails it as a whole. *)
EmbedWorks == ollamaUp /\ batch \cap Poison = {}

(* Slip: the rows are marked and committed before the stores are written. *)
EmbedOkMarksFirst ==
    /\ pc = "embed"
    /\ EmbedWorks
    /\ status' = SetAll(status, batch, "embedded")
    /\ savedStatus' = status'
    /\ pc' = "add"
    /\ UNCHANGED <<savedFts, fts, lance, run, exit, ollamaUp, faults>>

EmbedOk ==
    /\ pc = "embed"
    /\ EmbedWorks
    /\ pc' = "add"
    /\ UNCHANGED <<store, view, lance, run, exit, ollamaUp, faults>>

(* Slip: the failure is logged and not counted. *)
EmbedFailedUncounted ==
    /\ pc = "embed"
    /\ ~EmbedWorks
    /\ pc' = "scan"
    /\ UNCHANGED <<store, view, lance, run, exit, ollamaUp, faults>>

EmbedFailed ==
    /\ pc = "embed"
    /\ ~EmbedWorks
    /\ failed' = TRUE
    /\ pc' = "scan"
    /\ UNCHANGED <<store, view, lance, batch, behind, exit, ollamaUp, faults>>

AddRows ==
    /\ pc = "add"
    /\ lance' = AddOne(lance, batch)
    /\ pc' = "fts"
    /\ UNCHANGED <<store, view, run, exit, ollamaUp, faults>>

FtsInsert ==
    /\ pc = "fts"
    /\ fts' = AddOne(fts, batch)
    /\ pc' = "mark"
    /\ UNCHANGED <<store, status, lance, run, exit, ollamaUp, faults>>

(* Slip: the batch is indexed and never marked. *)
MarkNothing ==
    /\ pc = "mark"
    /\ pc' = "commit"
    /\ UNCHANGED <<store, view, lance, run, exit, ollamaUp, faults>>

MarkEmbedded ==
    /\ pc = "mark"
    /\ status' = [c \in Chunk |-> IF c \in batch /\ status[c] # "none"
                                  THEN "embedded" ELSE status[c]]
    /\ pc' = "commit"
    /\ UNCHANGED <<store, fts, lance, run, exit, ollamaUp, faults>>

SaveView == savedStatus' = status /\ savedFts' = fts

CommitBatch ==
    /\ pc = "commit"
    /\ SaveView
    /\ pc' = "scan"
    /\ UNCHANGED <<view, lance, run, exit, ollamaUp, faults>>

-----------------------------------------------------------------------------
(* The run, loop 2: take every deleted chunk out of both stores, then purge. *)

(* Slip: the cleanup forgets LanceDB. *)
ReadDeletedNoLance ==
    /\ pc = "clean"
    /\ RowsWith("deleted") # {}
    /\ batch' = FirstOf(RowsWith("deleted"), DeleteBatch)
    /\ pc' = "fdel"
    /\ UNCHANGED <<store, view, lance, behind, failed, exit, ollamaUp, faults>>

ReadDeleted ==
    /\ pc = "clean"
    /\ RowsWith("deleted") # {}
    /\ batch' = FirstOf(RowsWith("deleted"), DeleteBatch)
    /\ pc' = "ldel"
    /\ UNCHANGED <<store, view, lance, behind, failed, exit, ollamaUp, faults>>

LanceDelete ==
    /\ pc = "ldel"
    /\ lance' = SetAll(lance, batch, 0)
    /\ pc' = "fdel"
    /\ UNCHANGED <<store, view, run, exit, ollamaUp, faults>>

(* Slip: DELETE without its WHERE clause. *)
FtsDeleteAll ==
    /\ pc = "fdel"
    /\ fts' = [c \in Chunk |-> 0]
    /\ pc' = "purge"
    /\ UNCHANGED <<store, status, lance, run, exit, ollamaUp, faults>>

FtsDelete ==
    /\ pc = "fdel"
    /\ fts' = SetAll(fts, batch, 0)
    /\ pc' = "purge"
    /\ UNCHANGED <<store, status, lance, run, exit, ollamaUp, faults>>

Purge ==
    /\ pc = "purge"
    /\ status' = SetAll(status, batch, "none")
    /\ pc' = "ccommit"
    /\ UNCHANGED <<store, fts, lance, run, exit, ollamaUp, faults>>

CommitCleanup ==
    /\ pc = "ccommit"
    /\ SaveView
    /\ pc' = "clean"
    /\ UNCHANGED <<view, lance, run, exit, ollamaUp, faults>>

(* run_index.py exits 1 when a batch failed; close() has nothing to commit. *)
Finish ==
    /\ pc = "clean"
    /\ RowsWith("deleted") = {}
    /\ pc' = "idle"
    /\ exit' = IF failed THEN "failed" ELSE "ok"
    /\ UNCHANGED <<store, view, lance, run, ollamaUp, faults>>

RunStep ==
    \/ ReadPending \/ PendingDone \/ EmbedOk \/ EmbedFailed
    \/ AddRows \/ FtsInsert \/ MarkEmbedded \/ CommitBatch
    \/ ReadDeleted \/ LanceDelete \/ FtsDelete \/ Purge \/ CommitCleanup
    \/ Finish

-----------------------------------------------------------------------------
(* What can happen to a run, and around it. *)

(* The process is killed: SQLite rolls the open transaction back. *)
Crash ==
    /\ pc # "idle"
    /\ crashes < MaxCrashes
    /\ crashes' = crashes + 1
    /\ status' = savedStatus
    /\ fts' = savedFts
    /\ pc' = "idle"
    /\ exit' = "failed"
    /\ UNCHANGED <<store, lance, run, ollamaUp, interrupts>>

(* An exception or Ctrl-C leaves the run: close() commits the transaction. *)
Interrupt ==
    /\ pc # "idle"
    /\ interrupts < MaxInterrupts
    /\ interrupts' = interrupts + 1
    /\ SaveView
    /\ pc' = "idle"
    /\ exit' = "failed"
    /\ UNCHANGED <<view, lance, run, ollamaUp, crashes>>

(* Slip: the stage is started by hand, without the maintenance lock. *)
ChunkStageUnlocked ==
    /\ pc \notin InTransaction
    /\ \E del \in SUBSET {c \in Chunk : savedStatus[c] \in {"pending", "embedded"}},
          ins \in SUBSET {c \in Chunk : savedStatus[c] = "none"} :
            /\ savedStatus' = SetAll(SetAll(savedStatus, del, "deleted"), ins, "pending")
            /\ status' = savedStatus'
    /\ UNCHANGED <<savedFts, fts, lance, pc, run, exit, ollamaUp, faults>>

(* The chunk stage commits: it soft-deletes rows and inserts pending ones, *)
(* never under the id of a row that still exists.                          *)
ChunkStage ==
    /\ IF Exclusive THEN pc = "idle" ELSE pc \notin InTransaction
    /\ \E del \in SUBSET {c \in Chunk : savedStatus[c] \in {"pending", "embedded"}},
          ins \in SUBSET {c \in Chunk : savedStatus[c] = "none"} :
            /\ savedStatus' = [c \in Chunk |-> CASE c \in del -> "deleted"
                                                 [] c \in ins -> "pending"
                                                 [] OTHER -> savedStatus[c]]
            /\ status' = savedStatus'
    /\ UNCHANGED <<savedFts, fts, lance, pc, run, exit, ollamaUp, faults>>

OllamaToggles ==
    /\ ollamaUp' = ~ollamaUp
    /\ UNCHANGED <<store, view, lance, pc, run, exit, faults>>

Next ==
    \/ Start \/ RunStep \/ Crash \/ Interrupt
    \/ ChunkStage \/ OllamaToggles

Spec == Init /\ [][Next]_vars

(* cron starts a run again and again, and a run that is alive takes its next *)
(* step: the Ollama call has a timeout, the other steps are local.           *)
Fairness == WF_vars(Start) /\ WF_vars(RunStep)

FairSpec == Spec /\ Fairness
-----------------------------------------------------------------------------
(* Properties. *)

TypeOK ==
    /\ savedStatus \in [Chunk -> Statuses]
    /\ savedFts \in [Chunk -> Nat]
    /\ status \in [Chunk -> Statuses]
    /\ fts \in [Chunk -> Nat]
    /\ lance \in [Chunk -> Nat]
    /\ pc \in Places
    /\ batch \in SUBSET Chunk
    /\ behind \in SUBSET Chunk
    /\ failed \in BOOLEAN
    /\ exit \in {"none", "ok", "failed"}
    /\ ollamaUp \in BOOLEAN
    /\ crashes \in 0..MaxCrashes
    /\ interrupts \in 0..MaxInterrupts

(* A row the manifest calls embedded can be found on both legs, whatever   *)
(* killed or interrupted the runs that put it there: stores first, then    *)
(* the mark (pipeline.py:53-62).                                           *)
EmbeddedSearchable ==
    \A c \in Chunk :
        savedStatus[c] = "embedded" => lance[c] > 0 /\ savedFts[c] > 0

(* Nothing stays in a store without a chunk row to clean it up by: the row *)
(* is purged last (pipeline.py:76-79).                                     *)
NoOrphan ==
    \A c \in Chunk : savedStatus[c] = "none" => lance[c] = 0 /\ savedFts[c] = 0

(* Only an aborted run leaves a duplicate, and each at most one: a killed  *)
(* run only in LanceDB, which is outside the transaction; an interrupted   *)
(* one in FTS5 too, because close() commits (manifest.py:155-157).         *)
DuplicatesBounded ==
    \A c \in Chunk :
        /\ lance[c] <= 1 + crashes + interrupts
        /\ savedFts[c] <= 1 + interrupts

(* A chunk the chunk stage has superseded never comes back to life: it     *)
(* stays deleted until it is purged.  mark_chunks_embedded does not look at *)
(* the status it overwrites (manifest.py:292-297), so this rests on the    *)
(* stages never overlapping.                                               *)
NoResurrection ==
    [][\A c \in Chunk : savedStatus[c] = "deleted"
                        => savedStatus'[c] \in {"deleted", "none"}]_vars

(* When a run exits 0 both legs hold exactly the live chunks: the caller   *)
(* can tell it from a run that left work behind (run_index.py:70-79).      *)
CleanExitComplete ==
    [][pc # "idle" /\ pc' = "idle" /\ exit' = "ok"
        => \A c \in Chunk :
              /\ savedStatus'[c] \in {"none", "embedded"}
              /\ savedStatus'[c] = "embedded" <=> lance'[c] > 0
              /\ savedStatus'[c] = "embedded" <=> savedFts'[c] > 0]_vars

Wanted == {c \in Chunk : savedStatus[c] \in {"pending", "embedded"}}
DenseFound == {c \in Chunk : lance[c] > 0}
SparseFound == {c \in Chunk : savedFts[c] > 0}

(* Each leg keeps the promise of SearchLeg to the queries that read it     *)
(* while runs start, fail and die.                                         *)
Dense == INSTANCE SearchLeg WITH wanted <- Wanted, found <- DenseFound
Sparse == INSTANCE SearchLeg WITH wanted <- Wanted, found <- SparseFound
DenseLeg == Dense!Spec
SparseLeg == Sparse!Spec

(* Superseded text leaves both stores even if no chunk can be embedded     *)
(* ever again: a failed batch does not keep the run from its cleanup loop. *)
DeletedRemoved ==
    \A c \in Chunk :
        savedStatus[c] = "deleted" ~> (lance[c] = 0 /\ savedFts[c] = 0)

(* "Batch stays pending - retried on the next run" (pipeline.py:47): once   *)
(* Ollama stays up and no chunk it refuses is left pending, every pending   *)
(* chunk is embedded or superseded.  (A refused chunk starves the others of *)
(* its batch: they fail together, in every run.)                            *)
PendingHandled ==
    <>[](ollamaUp /\ \A c \in Poison : savedStatus[c] # "pending")
        => \A c \in Chunk : savedStatus[c] = "pending" ~> savedStatus[c] # "pending"

=============================================================================

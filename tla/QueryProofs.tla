---------------------------- MODULE QueryProofs ----------------------------
(***************************************************************************)
(* Theorems about Indexing, and about Query, which reads what Indexing     *)
(* writes: first the safety of the index, for every set of chunks, every   *)
(* batch size and every number of crashes and interrupts; then what        *)
(* answers to questions may rely on, for every set of questions, every     *)
(* number of requests at once and every limit, whether or not the runs     *)
(* exclude each other.                                                     *)
(***************************************************************************)
EXTENDS Query, FiniteSetTheorems, TLAPS

-----------------------------------------------------------------------------
(* Indexing. *)

Indexes == {"embed", "add", "fts", "mark", "commit"}  \* batch read by loop 1
Cleans == {"ldel", "fdel", "purge", "ccommit"}        \* batch read by loop 2
Added == {"fts", "mark", "commit"}                    \* batch is in LanceDB

(* The connection's view differs from the committed tables only on the     *)
(* batch of an open transaction, and there in a known way.                 *)
ViewOK ==
    \A c \in Chunk :
        /\ c \in batch /\ pc = "commit" => status[c] = "embedded"
        /\ c \in batch /\ pc = "ccommit" => status[c] = "none"
        /\ ~(c \in batch /\ pc \in {"commit", "ccommit"})
              => status[c] = savedStatus[c]
        /\ ~(c \in batch /\ pc \in InTransaction) => fts[c] = savedFts[c]

(* What is known of the rows of the batch, and of their copies. *)
BatchOK ==
    \A c \in batch :
        /\ pc \in Indexes => savedStatus[c] \in {"pending", "deleted"}
        /\ pc \in Cleans => savedStatus[c] = "deleted"
        /\ pc \in Added => lance[c] > 0
        /\ pc \in {"mark", "commit"} => fts[c] > 0
        /\ pc \in {"fdel", "purge", "ccommit"} => lance[c] = 0
        /\ pc \in {"purge", "ccommit"} => fts[c] = 0

(* A chunk about to be added, or that may be added later, has copies only  *)
(* from runs that were aborted.                                            *)
CopiesOK ==
    \A c \in Chunk :
        /\ savedStatus[c] = "pending" /\ ~(c \in batch /\ pc \in Added)
              => lance[c] <= crashes + interrupts
        /\ c \in batch /\ pc \in {"embed", "add"} => lance[c] <= crashes + interrupts
        /\ savedStatus[c] = "pending" => savedFts[c] <= interrupts
        /\ c \in batch /\ pc \in {"embed", "add", "fts"} => fts[c] <= interrupts
        /\ fts[c] <= 1 + interrupts

(* The inductive invariant, whether or not the stages exclude each other. *)
IInv ==
    /\ TypeOK
    /\ EmbeddedSearchable
    /\ NoOrphan
    /\ DuplicatesBounded
    /\ ViewOK
    /\ BatchOK
    /\ CopiesOK

(* Under the maintenance lock the batch stays what it was when it was read, *)
(* and every pending chunk behind the cursor is in it or was in a batch     *)
(* that failed.                                                             *)
LockedInv ==
    /\ pc \in Indexes => \A c \in batch : savedStatus[c] = "pending"
    /\ pc \in {"scan"} \cup Indexes =>
          \A c \in behind : savedStatus[c] = "pending"
                               => failed \/ (pc # "scan" /\ c \in batch)
    /\ pc \in {"clean"} \cup Cleans =>
          \A c \in Chunk : savedStatus[c] = "pending" => failed

LockedIInv == IInv /\ (Exclusive => LockedInv)

-----------------------------------------------------------------------------
(* ORDER BY ... LIMIT n returns rows of the set it selects from ... *)
LEMMA FirstOfSubset == \A S, n : FirstOf(S, n) \subseteq S
BY DEF FirstOf

(* ... and every row of the set that comes before one it returns. *)
LEMMA FirstOfPrefix ==
    ASSUME NEW S \in SUBSET Chunk, NEW n \in Nat,
           NEW d \in FirstOf(S, n), NEW c \in S, c <= d
    PROVE  c \in FirstOf(S, n)
<1> DEFINE Before(x) == {e \in S : e < x}
<1>1. IsFiniteSet(S)
    BY ChunkAssumption, FS_Subset
<1>2. Before(d) \in SUBSET S /\ IsFiniteSet(Before(d))
    <2>1. Before(d) \in SUBSET S
        OBVIOUS
    <2> QED
        BY ONLY <1>1, <2>1, FS_Subset
<1>3. Before(c) \subseteq Before(d)
    <2>1. c \in Nat /\ d \in Nat /\ S \subseteq Nat
        <3>1. d \in S
            BY FirstOfSubset
        <3> QED
            BY <3>1, ChunkAssumption
    <2>2. \A e \in S : e < c => e < d
        BY <2>1
    <2> QED
        BY <2>2
<1>4. /\ Cardinality(Before(c)) <= Cardinality(Before(d))
      /\ Cardinality(Before(c)) \in Nat
      /\ Cardinality(Before(d)) \in Nat
    <2>1. Before(c) \in SUBSET Before(d)
        BY <1>3
    <2>2. /\ IsFiniteSet(Before(c))
          /\ Cardinality(Before(c)) <= Cardinality(Before(d))
        BY ONLY <1>2, <2>1, FS_Subset
    <2> QED
        BY ONLY <1>2, <2>2, FS_CardinalityType
<1>5. Cardinality(Before(d)) < n
    BY DEF FirstOf
<1> QED
    BY <1>4, <1>5 DEF FirstOf

-----------------------------------------------------------------------------
(* The invariant that does not depend on the lock. *)

LEMMA IInvInit == Init => IInv
<1> SUFFICES ASSUME Init PROVE IInv
    OBVIOUS
<1> USE ContextAssumption DEF Init
<1>1. TypeOK
    <2>1. /\ savedStatus \in [Chunk -> Statuses]
          /\ savedFts \in [Chunk -> Nat]
          /\ lance \in [Chunk -> Nat]
        BY DEF Statuses
    <2>2. pc \in Places /\ batch \in SUBSET Chunk /\ behind \in SUBSET Chunk
        BY DEF Places
    <2>3. crashes \in 0..MaxCrashes /\ interrupts \in 0..MaxInterrupts
        OBVIOUS
    <2> QED
        BY <2>1, <2>2, <2>3 DEF TypeOK
<1>2. EmbeddedSearchable /\ NoOrphan /\ DuplicatesBounded
    BY DEF EmbeddedSearchable, NoOrphan, DuplicatesBounded
<1>3. ViewOK /\ BatchOK /\ CopiesOK
    BY DEF ViewOK, BatchOK, CopiesOK
<1> QED
    BY <1>1, <1>2, <1>3 DEF IInv

LEMMA IInvStep == IInv /\ [Next]_vars => IInv'
<1> SUFFICES ASSUME IInv, [Next]_vars PROVE IInv'
    OBVIOUS
<1> USE ContextAssumption
    DEF IInv, TypeOK, EmbeddedSearchable, NoOrphan, DuplicatesBounded, ViewOK,
        BatchOK, CopiesOK, Statuses, Places, InTransaction, Indexes, Cleans,
        Added, store, view, run, faults
<1>1. CASE Start
    BY <1>1 DEF Start
<1>2. CASE ReadPending
    BY <1>2, FirstOfSubset DEF ReadPending, PendingAhead, RowsWith
<1>3. CASE PendingDone
    BY <1>3 DEF PendingDone
<1>4. CASE EmbedOk
    BY <1>4 DEF EmbedOk
<1>5. CASE EmbedFailed
    BY <1>5 DEF EmbedFailed
<1>6. CASE AddRows
    BY <1>6 DEF AddRows, AddOne
<1>7. CASE FtsInsert
    BY <1>7 DEF FtsInsert, AddOne
<1>8. CASE MarkEmbedded
    BY <1>8 DEF MarkEmbedded
<1>9. CASE CommitBatch
    BY <1>9 DEF CommitBatch, SaveView
<1>10. CASE ReadDeleted
    BY <1>10, FirstOfSubset DEF ReadDeleted, RowsWith
<1>11. CASE LanceDelete
    BY <1>11 DEF LanceDelete, SetAll
<1>12. CASE FtsDelete
    BY <1>12 DEF FtsDelete, SetAll
<1>13. CASE Purge
    BY <1>13 DEF Purge, SetAll
<1>14. CASE CommitCleanup
    BY <1>14 DEF CommitCleanup, SaveView
<1>15. CASE Finish
    BY <1>15 DEF Finish
<1>16. CASE Crash
    BY <1>16 DEF Crash
<1>17. CASE Interrupt
    BY <1>17 DEF Interrupt, SaveView
<1>18. CASE ChunkStage
    BY <1>18 DEF ChunkStage
<1>19. CASE OllamaToggles
    BY <1>19 DEF OllamaToggles
<1>20. CASE UNCHANGED vars
    BY <1>20 DEF vars
<1> QED
    BY ONLY [Next]_vars, <1>1, <1>2, <1>3, <1>4, <1>5, <1>6, <1>7, <1>8, <1>9, <1>10, <1>11, <1>12, <1>13, <1>14, <1>15, <1>16, <1>17, <1>18, <1>19, <1>20 DEF Next, RunStep

LEMMA IInvInvariant == Spec => []IInv
BY IInvInit, IInvStep, PTL DEF Spec

(* Every variable keeps its type. *)
THEOREM TypeCorrect == Spec => []TypeOK
<1>1. IInv => TypeOK
    BY DEF IInv
<1> QED
    BY <1>1, IInvInvariant, PTL

(* A chunk the manifest calls embedded is in LanceDB and in FTS5, after any *)
(* number of killed and interrupted runs, locked or not.                    *)
THEOREM EmbeddedIsSearchable == Spec => []EmbeddedSearchable
<1>1. IInv => EmbeddedSearchable
    BY DEF IInv
<1> QED
    BY <1>1, IInvInvariant, PTL

(* No store ever holds a row whose chunk row is gone. *)
THEOREM NothingOrphaned == Spec => []NoOrphan
<1>1. IInv => NoOrphan
    BY DEF IInv
<1> QED
    BY <1>1, IInvInvariant, PTL

(* Each aborted run leaves at most one extra copy of a chunk, and a killed *)
(* one none in FTS5.                                                       *)
THEOREM CopiesBounded == Spec => []DuplicatesBounded
<1>1. IInv => DuplicatesBounded
    BY DEF IInv
<1> QED
    BY <1>1, IInvInvariant, PTL

-----------------------------------------------------------------------------
(* What the maintenance lock adds. *)

LEMMA LockedInit == Init => LockedInv
BY DEF Init, LockedInv, Indexes, Cleans

LEMMA LockedStep ==
    ASSUME Exclusive, IInv, LockedInv, [Next]_vars
    PROVE  LockedInv'
<1> USE DEF LockedInv, IInv, TypeOK, ViewOK, BatchOK, Indexes, Cleans, Statuses,
            InTransaction, store, view, run, faults
<1>1. CASE Start
    BY <1>1 DEF Start
<1>2. CASE ReadPending
    <2>1. batch' \subseteq PendingAhead
        BY <1>2, FirstOfSubset DEF ReadPending
    <2>2. \A c \in PendingAhead : c \in behind' => c \in batch'
        BY <1>2, FirstOfPrefix, BatchAssumption
           DEF ReadPending, PendingAhead, RowsWith
    <2> QED
        BY <1>2, <2>1, <2>2 DEF ReadPending, PendingAhead, RowsWith
<1>3. CASE PendingDone
    BY <1>3 DEF PendingDone, PendingAhead, RowsWith
<1>4. CASE EmbedOk
    BY <1>4 DEF EmbedOk
<1>5. CASE EmbedFailed
    BY <1>5 DEF EmbedFailed
<1>6. CASE AddRows
    BY <1>6 DEF AddRows, AddOne
<1>7. CASE FtsInsert
    BY <1>7 DEF FtsInsert, AddOne
<1>8. CASE MarkEmbedded
    BY <1>8 DEF MarkEmbedded
<1>9. CASE CommitBatch
    BY <1>9 DEF CommitBatch, SaveView
<1>10. CASE ReadDeleted
    BY <1>10, FirstOfSubset DEF ReadDeleted, RowsWith
<1>11. CASE LanceDelete
    BY <1>11 DEF LanceDelete, SetAll
<1>12. CASE FtsDelete
    BY <1>12 DEF FtsDelete, SetAll
<1>13. CASE Purge
    BY <1>13 DEF Purge, SetAll
<1>14. CASE CommitCleanup
    BY <1>14 DEF CommitCleanup, SaveView
<1>15. CASE Finish
    BY <1>15 DEF Finish
<1>16. CASE Crash
    BY <1>16 DEF Crash
<1>17. CASE Interrupt
    BY <1>17 DEF Interrupt, SaveView
<1>18. CASE ChunkStage
    BY <1>18 DEF ChunkStage
<1>19. CASE OllamaToggles
    BY <1>19 DEF OllamaToggles
<1>20. CASE UNCHANGED vars
    BY <1>20 DEF vars
<1> QED
    BY ONLY [Next]_vars, <1>1, <1>2, <1>3, <1>4, <1>5, <1>6, <1>7, <1>8, <1>9, <1>10, <1>11, <1>12, <1>13, <1>14, <1>15, <1>16, <1>17, <1>18, <1>19, <1>20 DEF Next, RunStep

LEMMA LockedInvariant == ASSUME Exclusive PROVE Spec => []LockedIInv
<1>1. Init => LockedIInv
    BY IInvInit, LockedInit DEF LockedIInv
<1>2. LockedIInv /\ [Next]_vars => LockedIInv'
    BY IInvStep, LockedStep, Exclusive DEF LockedIInv
<1> QED
    BY <1>1, <1>2, PTL DEF Spec

(* Under the lock a superseded chunk never becomes live again. *)
THEOREM DeletedStaysDeleted == ASSUME Exclusive PROVE Spec => NoResurrection
<1>1. LockedIInv /\ [Next]_vars =>
        [\A c \in Chunk : savedStatus[c] = "deleted"
                => savedStatus'[c] \in {"deleted", "none"}]_vars
    <2> SUFFICES ASSUME LockedIInv, [Next]_vars, NEW c \in Chunk,
                        savedStatus[c] = "deleted"
                 PROVE  savedStatus'[c] \in {"deleted", "none"}
        OBVIOUS
    <2> USE Exclusive DEF LockedIInv, LockedInv, IInv, TypeOK, ViewOK, Indexes
    <2>1. CASE CommitBatch \/ CommitCleanup \/ Interrupt
        BY <2>1 DEF CommitBatch, CommitCleanup, Interrupt, SaveView
    <2>2. CASE ChunkStage
        BY <2>2 DEF ChunkStage
    <2>3. CASE savedStatus' = savedStatus
        BY <2>3
    <2> QED
        BY <2>1, <2>2, <2>3
           DEF Next, RunStep, vars, store, Start, ReadPending, PendingDone,
               EmbedOk, EmbedFailed, AddRows, FtsInsert, MarkEmbedded,
               ReadDeleted, LanceDelete, FtsDelete, Purge, Finish, Crash,
               OllamaToggles
<1> QED
    BY <1>1, LockedInvariant, PTL DEF Spec, NoResurrection

(* Under the lock, exit status 0 means both legs hold exactly the live     *)
(* chunks and nothing waits.                                               *)
THEOREM CleanExitIsComplete == ASSUME Exclusive PROVE Spec => CleanExitComplete
<1> DEFINE Complete ==
        \A c \in Chunk :
            /\ savedStatus'[c] \in {"none", "embedded"}
            /\ savedStatus'[c] = "embedded" <=> lance'[c] > 0
            /\ savedStatus'[c] = "embedded" <=> savedFts'[c] > 0
<1>1. LockedIInv /\ [Next]_vars =>
        [pc # "idle" /\ pc' = "idle" /\ exit' = "ok" => Complete]_vars
    <2> SUFFICES ASSUME LockedIInv, [Next]_vars,
                        pc # "idle", pc' = "idle", exit' = "ok"
                 PROVE  Complete
        OBVIOUS
    <2>1. Finish /\ ~failed
        BY DEF Next, RunStep, vars, Start, ReadPending, PendingDone, EmbedOk,
               EmbedFailed, AddRows, FtsInsert, MarkEmbedded, CommitBatch,
               ReadDeleted, LanceDelete, FtsDelete, Purge, CommitCleanup,
               Finish, Crash, Interrupt, ChunkStage, OllamaToggles
    <2> QED
        BY <2>1, Exclusive
           DEF Finish, RowsWith, LockedIInv, LockedInv, IInv, TypeOK, Statuses,
               ViewOK, InTransaction, EmbeddedSearchable, NoOrphan, store
<1> QED
    BY <1>1, LockedInvariant, PTL DEF Spec, CleanExitComplete
-----------------------------------------------------------------------------
(* Each leg implements SearchLeg under the lock. *)

LEMMA WantedKept ==
    ASSUME Exclusive, LockedIInv, [Next]_vars
    PROVE  ChunkStage \/ Wanted' = Wanted
<1> USE Exclusive DEF LockedIInv, LockedInv, IInv, TypeOK, ViewOK, BatchOK,
        Indexes, Cleans, Wanted
<1>1. CASE CommitBatch \/ CommitCleanup \/ Interrupt
    BY <1>1 DEF CommitBatch, CommitCleanup, Interrupt, SaveView
<1>2. CASE savedStatus' = savedStatus
    BY <1>2
<1> QED
    BY <1>1, <1>2
       DEF Next, RunStep, vars, store, Start, ReadPending, PendingDone, EmbedOk,
           EmbedFailed, AddRows, FtsInsert, MarkEmbedded, ReadDeleted,
           LanceDelete, FtsDelete, Purge, Finish, Crash, OllamaToggles

(* LanceDB rows appear for wanted chunks only and go for unwanted ones only. *)
THEOREM DenseLegImplemented == ASSUME Exclusive PROVE Spec => DenseLeg
<1>1. Init => Dense!Init
    BY DEF Init, Dense!Init, Wanted, DenseFound
<1>2. LockedIInv /\ [Next]_vars => [Dense!Next]_(Dense!legVars)
    <2> SUFFICES ASSUME LockedIInv, [Next]_vars
                 PROVE  [Dense!Next]_(Dense!legVars)
        OBVIOUS
    <2>1. CASE AddRows
        <3>1. DenseFound' = DenseFound \cup batch /\ batch \in SUBSET Wanted
            BY <2>1, Exclusive
               DEF AddRows, AddOne, DenseFound, Wanted, LockedIInv, LockedInv,
                   IInv, TypeOK, Indexes
        <3> QED
            BY <3>1, <2>1, WantedKept, Exclusive
               DEF AddRows, ChunkStage, Dense!Next, Dense!Publish
    <2>2. CASE LanceDelete
        <3>1. /\ DenseFound' = DenseFound \ batch
              /\ batch \in SUBSET (Chunk \ Wanted)
            BY <2>2
               DEF LanceDelete, SetAll, DenseFound, Wanted, LockedIInv, IInv,
                   TypeOK, BatchOK, Cleans
        <3> QED
            BY <3>1, <2>2, WantedKept, Exclusive
               DEF LanceDelete, ChunkStage, Dense!Next, Dense!Withdraw
    <2>3. CASE ChunkStage
        BY <2>3 DEF ChunkStage, Wanted, DenseFound, Dense!Next, Dense!Rechunk
    <2>4. CASE lance' = lance /\ ~ChunkStage
        BY <2>4, WantedKept, Exclusive DEF DenseFound, Dense!legVars
    <2> QED
        BY <2>1, <2>2, <2>3, <2>4
           DEF Next, RunStep, vars, Start, ReadPending, PendingDone, EmbedOk,
               EmbedFailed, FtsInsert, MarkEmbedded, CommitBatch, ReadDeleted,
               FtsDelete, Purge, CommitCleanup, Finish, Crash, Interrupt,
               OllamaToggles
<1> QED
    BY <1>1, <1>2, LockedInvariant, PTL DEF Spec, DenseLeg, Dense!Spec

(* FTS5 rows become visible for wanted chunks only and go for unwanted ones *)
(* only, also when an exception commits a transaction half way.             *)
THEOREM SparseLegImplemented == ASSUME Exclusive PROVE Spec => SparseLeg
<1>1. Init => Sparse!Init
    BY DEF Init, Sparse!Init, Wanted, SparseFound
<1>2. LockedIInv /\ [Next]_vars => [Sparse!Next]_(Sparse!legVars)
    <2> SUFFICES ASSUME LockedIInv, [Next]_vars
                 PROVE  [Sparse!Next]_(Sparse!legVars)
        OBVIOUS
    <2>1. CASE SaveView /\ ~ChunkStage /\ pc \in {"mark", "commit"}
        <3>1. /\ SparseFound' = SparseFound \cup batch
              /\ batch \in SUBSET Wanted
            BY <2>1, Exclusive
               DEF SaveView, SparseFound, Wanted, LockedIInv, LockedInv, IInv,
                   TypeOK, ViewOK, BatchOK, Indexes
        <3> QED
            BY <3>1, <2>1, WantedKept, Exclusive DEF Sparse!Next, Sparse!Publish
    <2>2. CASE SaveView /\ ~ChunkStage /\ pc \in {"purge", "ccommit"}
        <3>1. /\ SparseFound' = SparseFound \ batch
              /\ batch \in SUBSET (Chunk \ Wanted)
            BY <2>2
               DEF SaveView, SparseFound, Wanted, LockedIInv, IInv, TypeOK,
                   ViewOK, BatchOK, Cleans
        <3> QED
            BY <3>1, <2>2, WantedKept, Exclusive DEF Sparse!Next, Sparse!Withdraw
    <2>3. CASE SaveView /\ pc \notin InTransaction
        BY <2>3, WantedKept, Exclusive
           DEF SaveView, LockedIInv, IInv, ViewOK, InTransaction, SparseFound,
               Sparse!legVars, ChunkStage, Sparse!Next, Sparse!Rechunk, Wanted
    <2>4. CASE ChunkStage
        BY <2>4 DEF ChunkStage, Wanted, SparseFound, Sparse!Next, Sparse!Rechunk
    <2>5. CASE savedFts' = savedFts /\ ~ChunkStage
        BY <2>5, WantedKept, Exclusive DEF SparseFound, Sparse!legVars
    <2> QED
        BY <2>1, <2>2, <2>3, <2>4, <2>5
           DEF Next, RunStep, vars, store, Start, ReadPending, PendingDone,
               EmbedOk, EmbedFailed, AddRows, FtsInsert, MarkEmbedded,
               CommitBatch, ReadDeleted, LanceDelete, FtsDelete, Purge,
               CommitCleanup, Finish, Crash, Interrupt, OllamaToggles,
               InTransaction
<1> QED
    BY <1>1, <1>2, LockedInvariant, PTL DEF Spec, SparseLeg, Sparse!Spec

-----------------------------------------------------------------------------
(* Query. *)

(* While a request is served every chunk with a row is one it may cite. *)
Citable(r) == live[r] \cup waiting[r]

RowsCitable ==
    \A r \in Request : Active(r) =>
        \A c \in Chunk : savedStatus[c] # "none" => c \in Citable(r)

Idle(r) ==
    Found(dense[r]) = {} /\ Found(sparse[r]) = {} /\ sources[r] = {}

LegsCitable ==
    \A r \in Request :
        /\ at[r] = "new" => Idle(r)
        /\ Found(dense[r]) \cup Found(sparse[r]) \subseteq Citable(r)
        /\ sources[r] \subseteq Citable(r)

(* What a leg has promised by the time its rows are there. *)
SteadyInDense(r) ==
    \A c \in steady[r] : c \in Found(dense[r]) \/ IsFull(dense[r], TopDense)
SteadyInSparse(r) ==
    \A c \in steady[r] : \/ c \in Found(sparse[r])
                         \/ IsFull(sparse[r], TopSparse)
                         \/ asked[r].keyword[c] = 0

SteadyOK ==
    \A r \in Request :
        /\ Active(r) => \A c \in steady[r] : c \in Chunk /\ savedStatus[c] = "embedded"
        /\ at[r] \in {"sparse", "generate"} \/ outcome[r] = "answered" => SteadyInDense(r)
        /\ at[r] = "generate" \/ outcome[r] = "answered" => SteadyInSparse(r)
        /\ outcome[r] # "none" <=> at[r] = "answer"

QInv == IInv /\ QueryTypeOK /\ RowsCitable /\ LegsCitable /\ SteadyOK

-----------------------------------------------------------------------------
(* Result lists. *)

LEMMA RanksFinite ==
    ASSUME NEW n \in Nat, NEW rows \in Lists(n), NEW c
    PROVE  /\ Rows(rows, c) \in Nat
           /\ Rows(rows, c) = 0 <=> c \notin Found(rows)
<1>1. PICK m \in 0..n : rows \in [1..m -> Chunk]
    BY DEF Lists
<1>2. RanksOf(rows, c) \in SUBSET (1..m)
    BY <1>1 DEF RanksOf
<1>3. IsFiniteSet(RanksOf(rows, c))
    <2>1. IsFiniteSet(1..m)
        BY FS_Interval
    <2> QED
        BY ONLY <1>2, <2>1, FS_Subset
<1>4. RanksOf(rows, c) = {} <=> c \notin Found(rows)
    BY DEF RanksOf, Found
<1> QED
    BY <1>3, <1>4, FS_CardinalityType, FS_EmptySet DEF Rows

(* A search returns rows of the store only, and has every chunk of the store *)
(* unless its limit is used up.                                              *)
LEMMA SearchResult ==
    ASSUME NEW n \in Nat, NEW copies \in [Chunk -> Nat], NEW key,
           NEW rows \in Tops(copies, n, key)
    PROVE  /\ rows \in Lists(n)
           /\ \A c \in Found(rows) : c \in Chunk /\ copies[c] > 0
           /\ \A c \in Chunk : copies[c] > 0 => c \in Found(rows) \/ IsFull(rows, n)
<1>1. rows \in Lists(n)
    BY DEF Tops
<1>2. Found(rows) \subseteq Chunk
    BY <1>1 DEF Lists, Found
<1>3. \A c \in Found(rows) : copies[c] > 0
    <2> TAKE c \in Found(rows)
    <2>1. Rows(rows, c) <= copies[c]
        BY DEF Tops
    <2>2. Rows(rows, c) \in Nat /\ Rows(rows, c) # 0
        BY <1>1, RanksFinite
    <2> QED
        BY <1>2, <2>1, <2>2
<1>4. \A c \in Chunk : copies[c] > 0 => c \in Found(rows) \/ IsFull(rows, n)
    <2> SUFFICES ASSUME NEW c \in Chunk, copies[c] > 0, c \notin Found(rows)
                 PROVE  IsFull(rows, n)
        OBVIOUS
    <2>1. Rows(rows, c) = 0
        BY <1>1, RanksFinite
    <2> QED
        BY <2>1 DEF Tops
<1> QED
    BY <1>1, <1>2, <1>3, <1>4

LEMMA ListFound ==
    ASSUME NEW n, NEW rows \in Lists(n)
    PROVE  Found(rows) \subseteq Chunk
BY DEF Lists, Found

(* Fusion returns chunks that a leg returned. *)
LEMMA FusedFound == \A d, s : rrf_fuse(d, s) \subseteq Found(d) \cup Found(s)
BY DEF rrf_fuse

LEMMA EmptyList == \A n \in Nat : <<>> \in Lists(n) /\ Found(<<>>) = {}
<1> SUFFICES ASSUME NEW n \in Nat PROVE <<>> \in Lists(n) /\ Found(<<>>) = {}
    OBVIOUS
<1>1. <<>> \in [1..0 -> Chunk]
    OBVIOUS
<1>2. 0 \in 0..n
    OBVIOUS
<1> QED
    BY <1>1, <1>2 DEF Lists, Found

-----------------------------------------------------------------------------
(* Steps of the runs, as a request sees them. *)

LEMMA NoRowAppearsDeleted ==
    ASSUME IInv, [Next]_vars, NEW c \in Chunk, savedStatus'[c] = "deleted"
    PROVE  savedStatus[c] # "none"
<1> USE DEF IInv, TypeOK, ViewOK, InTransaction
<1>1. CASE CommitBatch \/ CommitCleanup \/ Interrupt
    BY <1>1 DEF CommitBatch, CommitCleanup, Interrupt, SaveView
<1>2. CASE ChunkStage
    BY <1>2 DEF ChunkStage
<1>3. CASE savedStatus' = savedStatus
    BY <1>3
<1> QED
    BY <1>1, <1>2, <1>3
       DEF Next, RunStep, vars, store, Start, ReadPending, PendingDone,
           EmbedOk, EmbedFailed, AddRows, FtsInsert, MarkEmbedded,
           ReadDeleted, LanceDelete, FtsDelete, Purge, Finish, Crash,
           OllamaToggles

(* An embedded row that stays embedded is in both stores. *)
LEMMA SteadyStored ==
    ASSUME IInv, NEW c \in Chunk, savedStatus[c] = "embedded"
    PROVE  lance[c] > 0 /\ savedFts[c] > 0
BY DEF IInv, EmbeddedSearchable

-----------------------------------------------------------------------------
LEMMA QInvInit == QueryInit => QInv
<1> SUFFICES ASSUME QueryInit PROVE QInv
    OBVIOUS
<1> USE DEF QueryInit
<1>1. IInv
    BY IInvInit
<1>2. \A r \in Request : /\ dense[r] = <<>> /\ dense[r] \in Lists(TopDense)
                         /\ sparse[r] = <<>> /\ sparse[r] \in Lists(TopSparse)
    BY EmptyList, LimitAssumption
<1>3. QueryTypeOK
    BY <1>1, <1>2 DEF QueryTypeOK, IInv
<1>4. RowsCitable
    BY DEF RowsCitable, Active
<1>5. LegsCitable
    BY <1>2, EmptyList, LimitAssumption DEF LegsCitable, Idle
<1>6. SteadyOK
    BY DEF SteadyOK, Active
<1> QED
    BY <1>1, <1>3, <1>4, <1>5, <1>6 DEF QInv

(* A step of a run or of Ollama leaves every request where it is. *)
LEMMA RunsStep ==
    ASSUME QInv, [Next]_vars, UNCHANGED request, Watch
    PROVE  QInv'
<1>1. IInv'
    BY IInvStep DEF QInv
<1>2. QueryTypeOK'
    BY <1>1 DEF QInv, QueryTypeOK, IInv, request
<1>3. RowsCitable'
    <2> SUFFICES ASSUME NEW r \in Request, Active(r)', NEW c \in Chunk,
                        savedStatus'[c] # "none"
                 PROVE  c \in live'[r] \cup waiting'[r]
        BY DEF RowsCitable, Citable
    <2>1. /\ at' = at /\ Active(r) /\ at'[r] # "new"
          /\ live'[r] = live[r] \cup Live'
          /\ waiting'[r] = waiting[r]
        BY DEF Watch, request, Active
    <2>2. CASE savedStatus'[c] = "deleted"
        BY <2>1, <2>2, NoRowAppearsDeleted DEF QInv, RowsCitable, Citable
    <2>3. CASE savedStatus'[c] \in {"pending", "embedded"}
        BY <2>1, <2>3 DEF Live
    <2> QED
        BY <1>1, <2>2, <2>3 DEF IInv, TypeOK, Statuses
<1>4. \A r \in Request : Citable(r) \subseteq Citable(r)' \/ at[r] = "new"
    BY DEF Watch, request, Citable
<1>5. LegsCitable'
    <2> SUFFICES ASSUME NEW r \in Request
                 PROVE  /\ at'[r] = "new" => Idle(r)'
                        /\ Found(dense'[r]) \cup Found(sparse'[r]) \subseteq Citable(r)'
                        /\ sources'[r] \subseteq Citable(r)'
        BY DEF LegsCitable
    <2>1. /\ dense'[r] = dense[r] /\ sparse'[r] = sparse[r] /\ sources'[r] = sources[r]
          /\ at'[r] = at[r]
        BY DEF request
    <2>2. CASE at[r] = "new"
        BY <2>1, <2>2 DEF QInv, LegsCitable, Idle
    <2>3. CASE at[r] # "new"
        BY <2>1, <2>3, <1>4 DEF QInv, LegsCitable, Idle
    <2> QED
        BY <2>2, <2>3
<1>6. SteadyOK'
    <2>1. \A r \in Request :
            /\ steady'[r] \subseteq steady[r] \/ at[r] = "new"
            /\ Active(r)' => \A c \in steady'[r] : savedStatus'[c] = "embedded"
            /\ Active(r)' => Active(r) /\ steady'[r] \subseteq steady[r]
        BY DEF Watch, request, Active, Committed
    <2> QED
        BY <2>1 DEF QInv, SteadyOK, SteadyInDense, SteadyInSparse, request, Active
<1> QED
    BY <1>1, <1>2, <1>3, <1>5, <1>6 DEF QInv

(* A step of one request: the stores stand still and other requests wait. *)
RequestStep(r) == Ask(r) \/ Serve(r) \/ Return(r)

LEMMA RequestTyped ==
    ASSUME QInv, NEW q \in Request, RequestStep(q)
    PROVE  /\ at' \in [Request -> {"new", "embed", "dense", "sparse", "irrelevant",
                                   "generate", "answer"}]
           /\ asked' \in [Request -> Question]
           /\ dense' \in [Request -> Lists(TopDense)]
           /\ sparse' \in [Request -> Lists(TopSparse)]
           /\ sources' \in [Request -> SUBSET Chunk]
           /\ outcome' \in [Request -> {"none", "answered", "no_relevant",
                                        "general_knowledge", "error", "raised"}]
<1> USE DEF QInv, QueryTypeOK, Goes, Ends
<1>1. CASE Ask(q)
    BY <1>1 DEF Ask
<1>2. CASE Embed(q)
    BY <1>2 DEF Embed
<1>3. CASE EmbedFails(q)
    BY <1>3 DEF EmbedFails
<1>4. CASE SearchDense(q)
    BY <1>4 DEF SearchDense, Tops
<1>5. CASE SearchSparse(q)
    BY <1>5 DEF SearchSparse, Tops
<1>6. CASE Generate(q)
    <2>1. rrf_fuse(dense[q], sparse[q]) \in SUBSET Chunk
        <3>1. Found(dense[q]) \subseteq Chunk /\ Found(sparse[q]) \subseteq Chunk
            BY ListFound
        <3> QED
            BY <3>1, FusedFound
    <2> QED
        BY <1>6, <2>1 DEF Generate
<1>7. CASE GenerateFails(q)
    BY <1>7 DEF GenerateFails
<1>8. CASE Refuse(q)
    BY <1>8 DEF Refuse
<1>9. CASE GeneralKnowledge(q)
    BY <1>9 DEF GeneralKnowledge
<1>10. CASE Return(q)
    BY <1>10, EmptyList, LimitAssumption DEF Return
<1>11. CASE Raises(q)
    BY <1>11 DEF Raises
<1> QED
    BY <1>1, <1>2, <1>3, <1>4, <1>5, <1>6, <1>7, <1>8, <1>9, <1>10, <1>11
       DEF RequestStep, Serve

LEMMA RequestOthers ==
    ASSUME QInv, NEW q \in Request, RequestStep(q), NEW r \in Request, r # q
    PROVE  /\ at'[r] = at[r] /\ asked'[r] = asked[r]
           /\ dense'[r] = dense[r] /\ sparse'[r] = sparse[r]
           /\ sources'[r] = sources[r] /\ outcome'[r] = outcome[r]
<1> USE DEF QInv, QueryTypeOK, Goes, Ends
<1>1. CASE SearchDense(q)
    BY <1>1 DEF SearchDense
<1>2. CASE SearchSparse(q)
    BY <1>2 DEF SearchSparse
<1>3. CASE Ask(q) \/ Embed(q) \/ Return(q)
    BY <1>3 DEF Ask, Embed, Return
<1>4. CASE EmbedFails(q) \/ GenerateFails(q) \/ Refuse(q) \/ Raises(q)
    BY <1>4 DEF EmbedFails, GenerateFails, Refuse, Raises
<1>5. CASE Generate(q) \/ GeneralKnowledge(q)
    BY <1>5 DEF Generate, GeneralKnowledge
<1> QED
    BY <1>1, <1>2, <1>3, <1>4, <1>5 DEF RequestStep, Serve

(* What a search brings may be cited, and has what was embedded throughout. *)
LEMMA DenseResult ==
    ASSUME QInv, NEW q \in Request, SearchDense(q)
    PROVE  /\ at[q] = "dense"
           /\ at'[q] \in {"sparse", "irrelevant"}
           /\ Found(dense'[q]) \subseteq Citable(q)
           /\ \A c \in steady[q] : c \in Found(dense'[q]) \/ IsFull(dense'[q], TopDense)
           /\ sparse' = sparse /\ sources' = sources /\ outcome' = outcome
           /\ asked' = asked
<1>1. PICK rows \in Tops(lance, TopDense, asked[q].dist) :
            /\ dense' = [dense EXCEPT ![q] = rows]
            /\ Goes(q, IF Relevant(rows, q) THEN "sparse" ELSE "irrelevant")
    BY DEF SearchDense
<1>2. /\ dense'[q] = rows
      /\ at[q] = "dense" /\ Active(q)
      /\ at'[q] \in {"sparse", "irrelevant"}
    <2>1. q \in DOMAIN dense /\ q \in DOMAIN at
        BY DEF QInv, QueryTypeOK
    <2> QED
        BY <1>1, <2>1 DEF SearchDense, Goes, Active
<1>3. /\ \A c \in Found(rows) : c \in Chunk /\ lance[c] > 0
      /\ \A c \in Chunk : lance[c] > 0 => c \in Found(rows) \/ IsFull(rows, TopDense)
    <2>1. TopDense \in Nat /\ lance \in [Chunk -> Nat]
        BY LimitAssumption DEF QInv, IInv, TypeOK
    <2> QED
        BY ONLY <1>1, <2>1, SearchResult
<1>4. \A c \in Found(rows) : savedStatus[c] # "none"
    BY <1>3 DEF QInv, IInv, NoOrphan
<1>5. \A c \in steady[q] : c \in Chunk /\ lance[c] > 0
    BY <1>2, SteadyStored DEF QInv, SteadyOK
<1> QED
    BY <1>2, <1>3, <1>4, <1>5 DEF QInv, RowsCitable, SearchDense

LEMMA SparseResult ==
    ASSUME QInv, NEW q \in Request, SearchSparse(q)
    PROVE  /\ at[q] = "sparse"
           /\ at'[q] = "generate"
           /\ Found(sparse'[q]) \subseteq Citable(q)
           /\ \A c \in steady[q] : \/ c \in Found(sparse'[q])
                                   \/ IsFull(sparse'[q], TopSparse)
                                   \/ asked[q].keyword[c] = 0
           /\ dense' = dense /\ sources' = sources /\ outcome' = outcome
           /\ asked' = asked
<1>1. PICK rows \in Tops(Matching(q), TopSparse, asked[q].keyword) :
            sparse' = [sparse EXCEPT ![q] = rows]
    BY DEF SearchSparse
<1>2. /\ sparse'[q] = rows
      /\ at[q] = "sparse" /\ Active(q)
      /\ at'[q] = "generate"
    <2>1. q \in DOMAIN sparse /\ q \in DOMAIN at
        BY DEF QInv, QueryTypeOK
    <2> QED
        BY <1>1, <2>1 DEF SearchSparse, Goes, Active
<1>3. asked[q].keyword \in [Chunk -> Nat]
    BY QuestionAssumption DEF QInv, QueryTypeOK
<1>4. /\ \A c \in Found(rows) : c \in Chunk /\ Matching(q)[c] > 0
      /\ \A c \in Chunk : Matching(q)[c] > 0
                         => c \in Found(rows) \/ IsFull(rows, TopSparse)
    <2>1. TopSparse \in Nat /\ Matching(q) \in [Chunk -> Nat]
        BY LimitAssumption DEF QInv, IInv, TypeOK, Matching
    <2> QED
        BY ONLY <1>1, <2>1, SearchResult
<1>5. \A c \in Chunk : /\ Matching(q)[c] > 0 => savedFts[c] > 0
                       /\ savedFts[c] > 0 /\ asked[q].keyword[c] # 0
                             => Matching(q)[c] > 0
    BY <1>3 DEF Matching
<1>6. \A c \in Found(rows) : savedStatus[c] # "none"
    BY <1>4, <1>5 DEF QInv, IInv, NoOrphan
<1>7. \A c \in steady[q] : c \in Chunk /\ savedFts[c] > 0
    BY <1>2, SteadyStored DEF QInv, SteadyOK
<1> QED
    BY <1>2, <1>4, <1>5, <1>6, <1>7 DEF QInv, RowsCitable, SearchSparse

(* Of the one request, everything but its searches is bookkeeping. *)
LEMMA OtherSteps ==
    ASSUME QInv, NEW q \in Request, RequestStep(q),
           ~SearchDense(q), ~SearchSparse(q)
    PROVE  \/ /\ at[q] = "new" /\ at'[q] = "embed"
              /\ dense' = dense /\ sparse' = sparse
              /\ sources' = sources /\ outcome' = outcome
           \/ /\ at[q] = "embed" /\ at'[q] = "dense"
              /\ dense' = dense /\ sparse' = sparse
              /\ sources' = sources /\ outcome' = outcome
           \/ /\ at[q] = "generate" /\ at'[q] = "answer"
              /\ dense' = dense /\ sparse' = sparse /\ asked' = asked
              /\ sources'[q] \subseteq Found(dense[q]) \cup Found(sparse[q])
              /\ outcome'[q] = "answered"
           \/ /\ Active(q) /\ at'[q] = "answer"
              /\ dense' = dense /\ sparse' = sparse
              /\ sources'[q] = {}
              /\ outcome'[q] \in {"error", "raised", "no_relevant", "general_knowledge"}
           \/ /\ at[q] = "answer" /\ at'[q] = "new"
              /\ dense'[q] = <<>> /\ sparse'[q] = <<>>
              /\ sources'[q] = {} /\ outcome'[q] = "none"
<1> USE DEF QInv, QueryTypeOK, Goes, Ends
<1>1. CASE Ask(q) \/ Embed(q)
    BY <1>1 DEF Ask, Embed
<1>2. CASE Generate(q)
    BY <1>2, FusedFound DEF Generate
<1>3. CASE EmbedFails(q) \/ GenerateFails(q) \/ Raises(q)
    BY <1>3 DEF EmbedFails, GenerateFails, Raises, Active
<1>4. CASE Refuse(q) \/ GeneralKnowledge(q)
    BY <1>4 DEF Refuse, GeneralKnowledge, Active
<1>5. CASE Return(q)
    BY <1>5 DEF Return
<1> QED
    BY <1>1, <1>2, <1>3, <1>4, <1>5 DEF RequestStep, Serve

LEMMA RequestsStep ==
    ASSUME QInv, NEW q \in Request, RequestStep(q), UNCHANGED vars, Watch
    PROVE  QInv'
<1>1. IInv'
    BY IInvStep DEF QInv
<1>2. QueryTypeOK'
    BY <1>1, RequestTyped DEF QueryTypeOK, IInv
<1>3. Live' = Live /\ savedStatus' = savedStatus
    BY DEF vars, Live
(* What every request, this one or another, may cite and has seen. *)
<1>4. \A r \in Request :
        /\ at[r] # "new" /\ at'[r] # "new" => Citable(r) \subseteq Citable(r)'
        /\ Active(r)' => Live \subseteq live'[r]
        /\ Active(r)' /\ at[r] = "new" => waiting'[r] = Committed("deleted")
        /\ at'[r] # "new" /\ at[r] # "new" => steady'[r] \subseteq steady[r]
        /\ Active(r)' => \A c \in steady'[r] : c \in Chunk /\ savedStatus'[c] = "embedded"
    BY <1>3 DEF Watch, Citable, Active, Committed, Live, QInv, SteadyOK
<1>5. RowsCitable'
    <2> SUFFICES ASSUME NEW r \in Request, Active(r)', NEW c \in Chunk,
                        savedStatus[c] # "none"
                 PROVE  c \in Citable(r)'
        BY <1>3 DEF RowsCitable
    <2>1. CASE savedStatus[c] \in {"pending", "embedded"}
        BY <1>4, <2>1 DEF Live, Citable
    <2>2. CASE savedStatus[c] = "deleted" /\ at[r] = "new"
        BY <1>4, <2>2 DEF Committed, Citable
    <2>3. CASE savedStatus[c] = "deleted" /\ at[r] # "new"
        <3>1. Active(r) /\ at'[r] # "new"
            <4>1. CASE r = q
                BY <4>1, <2>3, OtherSteps, DenseResult, SparseResult DEF Active
            <4>2. CASE r # q
                BY <4>2, <2>3, RequestOthers DEF Active
            <4> QED
                BY <4>1, <4>2
        <3> QED
            BY <3>1, <1>4, <2>3 DEF QInv, RowsCitable
    <2> QED
        BY <2>1, <2>2, <2>3 DEF QInv, IInv, TypeOK, Statuses
<1>6. LegsCitable' /\ SteadyOK'
    <2> SUFFICES ASSUME NEW r \in Request
                 PROVE  /\ at'[r] = "new" => Idle(r)'
                        /\ Found(dense'[r]) \cup Found(sparse'[r]) \subseteq Citable(r)'
                        /\ sources'[r] \subseteq Citable(r)'
                        /\ at'[r] \in {"sparse", "generate"} \/ outcome'[r] = "answered"
                              => SteadyInDense(r)'
                        /\ at'[r] = "generate" \/ outcome'[r] = "answered"
                              => SteadyInSparse(r)'
                        /\ outcome'[r] # "none" <=> at'[r] = "answer"
        BY <1>4 DEF LegsCitable, SteadyOK
    <2>1. CASE r # q
        <3>1. /\ at'[r] = at[r] /\ asked'[r] = asked[r]
              /\ dense'[r] = dense[r] /\ sparse'[r] = sparse[r]
              /\ sources'[r] = sources[r] /\ outcome'[r] = outcome[r]
            BY <2>1, RequestOthers
        <3>2. CASE at[r] = "new"
            BY <3>1, <3>2 DEF QInv, LegsCitable, Idle, SteadyOK
        <3>3. CASE at[r] # "new"
            <4>1. /\ Citable(r) \subseteq Citable(r)'
                  /\ steady'[r] \subseteq steady[r]
                BY <3>1, <3>3, <1>4
            <4>2. /\ Found(dense'[r]) \cup Found(sparse'[r]) \subseteq Citable(r)'
                  /\ sources'[r] \subseteq Citable(r)'
                BY <3>1, <4>1 DEF QInv, LegsCitable
            <4> QED
                BY <3>1, <3>3, <4>1, <4>2
                   DEF QInv, SteadyOK, SteadyInDense, SteadyInSparse
        <3> QED
            BY <3>2, <3>3
    <2>2. CASE r = q /\ SearchDense(q)
        BY <2>2, <1>4, DenseResult
           DEF QInv, LegsCitable, SteadyOK, SteadyInDense, SteadyInSparse
    <2>3. CASE r = q /\ SearchSparse(q)
        BY <2>3, <1>4, SparseResult
           DEF QInv, LegsCitable, SteadyOK, SteadyInDense, SteadyInSparse
    <2>4. CASE r = q /\ ~SearchDense(q) /\ ~SearchSparse(q)
        <3>1. CASE at[r] = "new"
            <4>1. /\ at'[r] = "embed" /\ outcome'[r] = outcome[r]
                  /\ dense'[r] = dense[r] /\ sparse'[r] = sparse[r]
                  /\ sources'[r] = sources[r]
                BY <2>4, <3>1, OtherSteps DEF Active
            <4> QED
                BY <3>1, <4>1 DEF QInv, LegsCitable, Idle, SteadyOK
        <3>2. CASE at'[r] = "new"
            <4>1. /\ dense'[r] = <<>> /\ sparse'[r] = <<>>
                  /\ sources'[r] = {} /\ outcome'[r] = "none"
                BY <2>4, <3>2, OtherSteps
            <4> QED
                BY <3>2, <4>1, EmptyList DEF Idle
        <3>3. CASE at[r] # "new" /\ at'[r] # "new"
            <4>1. /\ Citable(r) \subseteq Citable(r)'
                  /\ steady'[r] \subseteq steady[r]
                BY <3>3, <1>4
            <4>2. /\ dense'[r] = dense[r] /\ sparse'[r] = sparse[r]
                  /\ \/ sources'[r] = sources[r]
                     \/ sources'[r] \subseteq Found(dense[r]) \cup Found(sparse[r])
                BY <2>4, <3>3, OtherSteps
            <4>3. /\ Found(dense'[r]) \cup Found(sparse'[r]) \subseteq Citable(r)'
                  /\ sources'[r] \subseteq Citable(r)'
                BY <4>1, <4>2 DEF QInv, LegsCitable
            <4>4. \/ at'[r] = "dense" /\ outcome'[r] = outcome[r] /\ at[r] = "embed"
                  \/ at'[r] = "answer" /\ outcome'[r] = "answered"
                     /\ at[r] = "generate" /\ asked' = asked
                  \/ at'[r] = "answer" /\ outcome'[r] \notin {"none", "answered"}
                BY <2>4, <3>3, OtherSteps
            <4> QED
                BY <3>3, <4>1, <4>2, <4>3, <4>4
                   DEF QInv, SteadyOK, SteadyInDense, SteadyInSparse
        <3> QED
            BY <3>1, <3>2, <3>3
    <2> QED
        BY <2>1, <2>2, <2>3, <2>4
<1> QED
    BY <1>1, <1>2, <1>5, <1>6 DEF QInv

LEMMA QInvInvariant == QuerySpec => []QInv
<1>1. QInv /\ [QueryNext]_queryVars => QInv'
    <2> SUFFICES ASSUME QInv, [QueryNext]_queryVars PROVE QInv'
        OBVIOUS
    <2>1. CASE Next /\ UNCHANGED request /\ Watch
        BY <2>1, RunsStep
    <2>2. CASE (\E q \in Request : RequestStep(q)) /\ UNCHANGED vars /\ Watch
        BY <2>2, RequestsStep
    <2>3. CASE UNCHANGED queryVars
        <3>1. UNCHANGED vars /\ UNCHANGED request /\ UNCHANGED history
            BY <2>3 DEF queryVars
        <3>2. IInv'
            BY <3>1, IInvStep DEF QInv
        <3> QED
            BY <3>1, <3>2
               DEF QInv, QueryTypeOK, IInv, RowsCitable, LegsCitable, Idle, SteadyOK,
                   SteadyInDense, SteadyInSparse, Citable, Active, vars, request, history
    <2> QED
        BY <2>1, <2>2, <2>3 DEF QueryNext, RequestStep
<1> QED
    BY <1>1, QInvInit, PTL DEF QuerySpec

-----------------------------------------------------------------------------
(* The gate. *)

(* A search in a store that holds every chunk of S finds the near ones, or  *)
(* nothing but near ones: one that stays below min_hits had no more.        *)
LEMMA GateClosed ==
    ASSUME NEW dist \in [Chunk -> Nat], NEW copies \in [Chunk -> Nat],
           NEW rows \in Tops(copies, TopDense, dist),
           ~has_relevant_results(rows, dist, Threshold, MinHits),
           NEW S \in SUBSET Chunk, \A c \in S : copies[c] > 0
    PROVE  \/ TopDense < MinHits
           \/ Cardinality({c \in S : dist[c] < Threshold}) < MinHits
<1> USE LimitAssumption
<1> DEFINE near == {c \in S : dist[c] < Threshold}
           hits == {i \in DOMAIN rows : dist[rows[i]] < Threshold}
<1>1. /\ rows \in Lists(TopDense)
      /\ \A c \in Chunk : copies[c] > 0 => c \in Found(rows) \/ IsFull(rows, TopDense)
    BY SearchResult
<1>2. PICK m \in 0..TopDense : rows \in [1..m -> Chunk]
    BY <1>1 DEF Lists
<1>3. IsFiniteSet(hits) /\ Cardinality(hits) \in Nat
    <2>1. IsFiniteSet(1..m)
        <3>1. 1 \in Int /\ m \in Int
            BY <1>2
        <3> QED
            BY ONLY <3>1, FS_Interval
    <2>2. hits \in SUBSET (1..m)
        BY <1>2
    <2>3. IsFiniteSet(hits)
        BY ONLY <2>1, <2>2, FS_Subset
    <2> QED
        BY ONLY <2>3, FS_CardinalityType
<1>4. Cardinality(hits) < MinHits
    BY <1>3 DEF has_relevant_results
<1>5. CASE near \subseteq Found(rows)
    <2> DEFINE f == [c \in near |-> CHOOSE i \in DOMAIN rows : rows[i] = c]
    <2>1. \A c \in near : f[c] \in hits /\ rows[f[c]] = c
        BY <1>5 DEF Found
    <2>2. f \in [near -> hits]
        BY <2>1
    <2>3. \A a, b \in near : f[a] = f[b] => a = b
        BY <2>1
    <2> HIDE DEF f, near, hits
    <2>4. f \in Injection(near, hits)
        BY <2>2, <2>3 DEF Injection, IsInjective
    <2>5. Cardinality(near) <= Cardinality(hits) /\ IsFiniteSet(near)
        BY ONLY <2>4, <1>3, FS_Injection
    <2>6. Cardinality(near) \in Nat
        BY ONLY <2>5, FS_CardinalityType
    <2> QED
        BY <1>3, <1>4, <2>5, <2>6 DEF near
<1>6. CASE ~(near \subseteq Found(rows))
    <2>1. PICK c \in near : c \notin Found(rows)
        BY <1>6
    <2>2. Rows(rows, c) = 0 /\ c \in Chunk
        BY <1>1, <2>1, RanksFinite
    <2>3. /\ IsFull(rows, TopDense)
          /\ \A i \in DOMAIN rows : dist[rows[i]] <= dist[c]
        BY <2>1, <2>2 DEF Tops
    <2>4. hits = 1..TopDense
        <3>1. DOMAIN rows = 1..TopDense
            BY <2>3 DEF IsFull
        <3>2. \A i \in DOMAIN rows : rows[i] \in Chunk
            BY <1>2
        <3>3. \A i \in DOMAIN rows : dist[rows[i]] < Threshold
            BY <2>1, <2>2, <2>3, <3>2
        <3> QED
            BY <3>1, <3>3
    <2>5. Cardinality(1..TopDense) = TopDense
        <3>1. 1 \in Int /\ TopDense \in Int
            OBVIOUS
        <3>2. Cardinality(1..TopDense) = IF 1 > TopDense THEN 0 ELSE TopDense - 1 + 1
            BY ONLY <3>1, FS_Interval
        <3> QED
            BY <3>2
    <2> QED
        BY <1>4, <2>4, <2>5
<1> QED
    BY <1>5, <1>6

(* The steady chunks that are near enough. *)
Near(r) == {c \in steady[r] : asked[r].dist[c] < Threshold}

TurnedAway(r) == at[r] = "irrelevant" \/ outcome[r] \in {"no_relevant", "general_knowledge"}

TooFew(r) == TopDense < MinHits \/ Cardinality(Near(r)) < MinHits

GateInv ==
    /\ QInv
    /\ steady \in [Request -> SUBSET Chunk]
    /\ \A r \in Request : TurnedAway(r) => TooFew(r)

LEMMA FewerStill ==
    ASSUME NEW r \in Request, TooFew(r), steady[r] \subseteq Chunk,
           steady'[r] \subseteq steady[r], asked'[r] = asked[r]
    PROVE  TooFew(r)'
<1>1. IsFiniteSet(Near(r))
    <2>1. Near(r) \in SUBSET Chunk
        BY DEF Near
    <2> QED
        BY ONLY <2>1, ChunkAssumption, FS_Subset
<1>2. Near(r)' \in SUBSET Near(r)
    BY DEF Near
<1>3. /\ Cardinality(Near(r)') <= Cardinality(Near(r))
      /\ Cardinality(Near(r)) \in Nat /\ Cardinality(Near(r)') \in Nat
    BY ONLY <1>1, <1>2, FS_Subset, FS_CardinalityType
<1> QED
    BY <1>3, LimitAssumption DEF TooFew

LEMMA SteadyShrinks ==
    ASSUME GateInv, Watch
    PROVE  /\ \A r \in Request : at[r] # "new" => steady'[r] \subseteq steady[r]
           /\ steady' \in [Request -> SUBSET Chunk]
BY DEF GateInv, Watch, Committed

(* The turned away came to the gate just now, or had been there before. *)
LEMMA TurnedAwaySteps ==
    ASSUME QInv, NEW q \in Request, RequestStep(q), ~SearchDense(q), TurnedAway(q)'
    PROVE  TurnedAway(q) /\ asked'[q] = asked[q] /\ at[q] # "new"
<1> USE DEF QInv, QueryTypeOK, SteadyOK, TurnedAway, Goes, Ends
<1>1. CASE Ask(q) \/ Embed(q) \/ SearchSparse(q)
    BY <1>1 DEF Ask, Embed, SearchSparse
<1>2. CASE Generate(q) \/ Return(q)
    BY <1>2 DEF Generate, Return
<1>3. CASE EmbedFails(q) \/ GenerateFails(q) \/ Raises(q)
    BY <1>3 DEF EmbedFails, GenerateFails, Raises
<1>4. CASE Refuse(q) \/ GeneralKnowledge(q)
    BY <1>4 DEF Refuse, GeneralKnowledge
<1> QED
    BY <1>1, <1>2, <1>3, <1>4 DEF RequestStep, Serve

LEMMA GateInvStep == GateInv /\ QueryNext => GateInv'
<1> SUFFICES ASSUME GateInv, QueryNext PROVE GateInv'
    OBVIOUS
<1>1. QInv /\ Watch
    BY DEF GateInv, QueryNext
<1>2. /\ \A r \in Request : at[r] # "new" => steady'[r] \subseteq steady[r]
      /\ steady' \in [Request -> SUBSET Chunk]
    BY <1>1, SteadyShrinks
<1>3. \A r \in Request : TurnedAway(r) => at[r] # "new" /\ steady[r] \subseteq Chunk
    BY <1>1 DEF TurnedAway, QInv, SteadyOK, GateInv
<1>4. CASE Next /\ UNCHANGED request
    <2>1. QInv'
        BY <1>1, <1>4, RunsStep
    <2>2. ASSUME NEW r \in Request, TurnedAway(r)' PROVE TooFew(r)'
        <3>1. TurnedAway(r) /\ asked'[r] = asked[r]
            BY <1>4, <2>2 DEF TurnedAway, request
        <3> QED
            BY <1>2, <1>3, <3>1, FewerStill DEF GateInv
    <2> QED
        BY <1>2, <2>1, <2>2 DEF GateInv
<1>5. CASE (\E q \in Request : RequestStep(q)) /\ UNCHANGED vars
    <2>1. PICK q \in Request : RequestStep(q)
        BY <1>5
    <2>2. QInv'
        BY <1>1, <1>5, <2>1, RequestsStep
    <2>3. ASSUME NEW r \in Request, TurnedAway(r)' PROVE TooFew(r)'
        <3>1. CASE r # q
            <4>1. at'[r] = at[r] /\ asked'[r] = asked[r] /\ outcome'[r] = outcome[r]
                BY <1>1, <2>1, <3>1, RequestOthers
            <4>2. TurnedAway(r)
                BY <4>1, <2>3 DEF TurnedAway
            <4> QED
                BY <1>2, <1>3, <4>1, <4>2, FewerStill DEF GateInv
        <3>2. CASE r = q /\ ~SearchDense(q)
            <4>1. TurnedAway(r) /\ asked'[r] = asked[r]
                BY <1>1, <2>1, <2>3, <3>2, TurnedAwaySteps
            <4> QED
                BY <1>2, <1>3, <4>1, FewerStill DEF GateInv
        <3>3. CASE r = q /\ SearchDense(q)
            <4>1. at[q] = "dense" /\ outcome' = outcome /\ asked' = asked
                BY <1>1, <3>3, DenseResult
            <4>2. at'[q] = "irrelevant"
                BY <1>1, <2>3, <3>3, <4>1 DEF QInv, SteadyOK, TurnedAway
            <4>3. PICK rows \in Tops(lance, TopDense, asked[q].dist) : ~Relevant(rows, q)
                BY <1>1, <3>3, <4>2 DEF SearchDense, Goes, QInv, QueryTypeOK
            <4>4. steady'[q] \in SUBSET Chunk /\ steady'[q] \subseteq steady[q]
                BY <1>2, <4>1
            <4>5. \A c \in steady'[q] : lance[c] > 0
                BY <1>1, <4>1, <4>4, SteadyStored DEF QInv, SteadyOK, Active
            <4>6. asked[q].dist \in [Chunk -> Nat] /\ lance \in [Chunk -> Nat]
                BY <1>1, QuestionAssumption DEF QInv, QueryTypeOK, IInv, TypeOK
            <4>7. \/ TopDense < MinHits
                  \/ Cardinality({c \in steady'[q] : asked[q].dist[c] < Threshold}) < MinHits
                BY <4>3, <4>4, <4>5, <4>6, GateClosed DEF Relevant
            <4> QED
                BY <3>3, <4>1, <4>7 DEF TooFew, Near
        <3> QED
            BY <3>1, <3>2, <3>3
    <2> QED
        BY <1>2, <2>2, <2>3 DEF GateInv
<1> QED
    BY <1>4, <1>5 DEF QueryNext, RequestStep

LEMMA GateInvInvariant == QuerySpec => []GateInv
<1>1. QueryInit => GateInv
    BY QInvInit DEF QueryInit, GateInv, TurnedAway
<1>2. GateInv /\ UNCHANGED queryVars => GateInv'
    <2> SUFFICES ASSUME GateInv, UNCHANGED queryVars PROVE GateInv'
        OBVIOUS
    <2>1. UNCHANGED vars /\ UNCHANGED request /\ UNCHANGED history
        BY DEF queryVars
    <2>2. QInv'
        <3>1. IInv'
            BY <2>1, IInvStep DEF GateInv, QInv
        <3> QED
            BY <2>1, <3>1
               DEF GateInv, QInv, QueryTypeOK, IInv, RowsCitable, LegsCitable, Idle, SteadyOK,
                   SteadyInDense, SteadyInSparse, Citable, Active, vars, request, history
    <2> QED
        BY <2>1, <2>2 DEF GateInv, TurnedAway, TooFew, Near, request, history
<1> QED
    BY <1>1, <1>2, GateInvStep, PTL DEF QuerySpec

-----------------------------------------------------------------------------
(* Fusion. *)

(* A leg that has a chunk once, or not at all, sums over one rank or none. *)
LEMMA SumOfNone == MapThenSumSet(Weight, {}) = 0
<1> DEFINE Step(f, s) == IF s = {} THEN 0
                         ELSE Weight(CHOOSE x \in s : TRUE) + f[s \ {CHOOSE x \in s : TRUE}]
           IsSum(f) == f = [s \in SUBSET {} |-> Step(f, s)]
           g == [s \in SUBSET {} |-> 0]
<1>1. IsSum(g)
    OBVIOUS
<1>2. IsSum(CHOOSE f : IsSum(f))
    BY ONLY <1>1
<1>3. (CHOOSE f : IsSum(f))[{}] = 0
    BY ONLY <1>2
<1> QED
    BY ONLY <1>3 DEF MapThenSumSet, MapThenFoldSet

LEMMA SumOfOne ==
    ASSUME NEW i, Weight(i) \in Nat
    PROVE  MapThenSumSet(Weight, {i}) = Weight(i)
<1> DEFINE Step(f, s) == IF s = {} THEN 0
                         ELSE Weight(CHOOSE x \in s : TRUE) + f[s \ {CHOOSE x \in s : TRUE}]
           IsSum(f) == f = [s \in SUBSET {i} |-> Step(f, s)]
           g == [s \in SUBSET {i} |-> IF s = {} THEN 0 ELSE Weight(i)]
<1>1. IsSum(g)
    OBVIOUS
<1>2. IsSum(CHOOSE f : IsSum(f))
    BY ONLY <1>1
<1>3. ASSUME NEW f, IsSum(f) PROVE f[{i}] = Weight(i)
    <2>1. f[{i}] = Step(f, {i}) /\ f[{}] = Step(f, {})
        BY ONLY <1>3
    <2>2. (CHOOSE x \in {i} : TRUE) = i /\ {i} \ {i} = {}
        OBVIOUS
    <2> QED
        BY <2>1, <2>2
<1>4. (CHOOSE f : IsSum(f))[{i}] = Weight(i)
    BY ONLY <1>2, <1>3
<1> QED
    BY ONLY <1>4 DEF MapThenSumSet, MapThenFoldSet

(* A rank's share, and a leg's for a chunk it has once or not at all.  *)
LEMMA ShareOfRank ==
    ASSUME NEW i \in 1..TopDense \cup 1..TopSparse
    PROVE  Weight(i) \in Nat /\ (RrfK + i) * Weight(i) = Scale
<1>1. RrfK + i \in Nat \ {0} /\ Scale \in Nat /\ Scale % (RrfK + i) = 0
    BY LimitAssumption, ScaleAssumption
<1> QED
    BY <1>1 DEF Weight

LEMMA ShareOfLeg ==
    ASSUME NEW n \in {TopDense, TopSparse}, NEW rows \in Lists(n), OnceEach(rows), NEW c
    PROVE  /\ c \notin Found(rows) => LegScore(rows, c) = 0
           /\ c \in Found(rows) => \E i \in 1..n : LegScore(rows, c) = Weight(i)
<1>1. c \notin Found(rows) => RanksOf(rows, c) = {}
    BY DEF Found, RanksOf
<1>2. c \in Found(rows) => \E i \in 1..n : RanksOf(rows, c) = {i}
    <2> SUFFICES ASSUME c \in Found(rows) PROVE \E i \in 1..n : RanksOf(rows, c) = {i}
        OBVIOUS
    <2>1. PICK i \in DOMAIN rows : rows[i] = c
        BY DEF Found
    <2>2. i \in 1..n
        <3>1. PICK m \in 0..n : rows \in [1..m -> Chunk]
            BY DEF Lists
        <3> QED
            BY <2>1, <3>1, LimitAssumption
    <2>3. RanksOf(rows, c) = {i}
        BY <2>1 DEF RanksOf, OnceEach
    <2> QED
        BY <2>2, <2>3
<1>3. \A i \in 1..n : MapThenSumSet(Weight, {i}) = Weight(i)
    BY ShareOfRank, SumOfOne
<1> QED
    BY <1>1, <1>2, <1>3, SumOfNone DEF LegScore

(* With limits below k + 2 the first rank is not worth two of the others.  *)
LEMMA TwoOutweighOne ==
    ASSUME TopDense < RrfK + 2, TopSparse < RrfK + 2,
           NEW i \in 1..TopDense, NEW j \in 1..TopSparse,
           NEW k \in 1..TopDense \cup 1..TopSparse
    PROVE  Weight(i) + Weight(j) > Weight(k)
<1> DEFINE wi == Weight(i)
           wj == Weight(j)
           wk == Weight(k)
<1>1. /\ wi \in Nat /\ wj \in Nat /\ wk \in Nat
      /\ (RrfK + i) * wi = Scale /\ (RrfK + j) * wj = Scale /\ (RrfK + k) * wk = Scale
    BY ShareOfRank
<1>2. /\ RrfK \in Nat /\ Scale \in Nat \ {0}
      /\ i \in Nat /\ j \in Nat /\ k \in Nat
      /\ k > 0 /\ i < RrfK + 2 /\ j < RrfK + 2
    BY LimitAssumption, ScaleAssumption
<1> HIDE DEF wi, wj, wk
<1>3. wk > 0
    BY ONLY <1>1, <1>2
<1>4. (RrfK + 1) * wk <= Scale
    BY ONLY <1>1, <1>2
<1>5. (2 * RrfK + 1) * wi >= Scale /\ (2 * RrfK + 1) * wj >= Scale
    BY ONLY <1>1, <1>2
<1>6. (2 * RrfK + 1) * (wi + wj) > (2 * RrfK + 1) * wk
    BY ONLY <1>1, <1>2, <1>3, <1>4, <1>5
<1>7. wi + wj > wk
    BY ONLY <1>1, <1>2, <1>6
<1> QED
    BY <1>7 DEF wi, wj, wk

(* So the chunks of both legs beat all others, and no other beats them.  *)
LEMMA BothBeatOne ==
    ASSUME TopDense < RrfK + 2, TopSparse < RrfK + 2,
           NEW d \in Lists(TopDense), NEW s \in Lists(TopSparse),
           OnceEach(d), OnceEach(s),
           NEW c \in Found(d) \cap Found(s),
           NEW x \in Found(d) \cup Found(s), x \notin Found(d) \cap Found(s)
    PROVE  Beats(d, s, c, x) /\ ~Beats(d, s, x, c)
<1>1. PICK i \in 1..TopDense : LegScore(d, c) = Weight(i)
    BY ShareOfLeg
<1>2. PICK j \in 1..TopSparse : LegScore(s, c) = Weight(j)
    BY ShareOfLeg
<1>3. PICK k \in 1..TopDense \cup 1..TopSparse : Score(d, s, x) = Weight(k)
    <2>1. CASE x \in Found(d)
        <3>1. LegScore(s, x) = 0
            BY <2>1, ShareOfLeg
        <3>2. PICK k \in 1..TopDense : LegScore(d, x) = Weight(k)
            BY <2>1, ShareOfLeg
        <3> QED
            BY <3>1, <3>2, ShareOfRank DEF Score
    <2>2. CASE x \in Found(s)
        <3>1. LegScore(d, x) = 0
            BY <2>2, ShareOfLeg
        <3>2. PICK k \in 1..TopSparse : LegScore(s, x) = Weight(k)
            BY <2>2, ShareOfLeg
        <3> QED
            BY <3>1, <3>2, ShareOfRank DEF Score
    <2> QED
        BY <2>1, <2>2
<1>4. Score(d, s, c) > Score(d, s, x)
    BY <1>1, <1>2, <1>3, TwoOutweighOne DEF Score
<1>5. Score(d, s, c) \in Nat /\ Score(d, s, x) \in Nat
    BY <1>1, <1>2, <1>3, ShareOfRank DEF Score
<1> QED
    BY <1>4, <1>5 DEF Beats

LEMMA FewBeat ==
    ASSUME TopDense < RrfK + 2, TopSparse < RrfK + 2,
           NEW d \in Lists(TopDense), NEW s \in Lists(TopSparse),
           OnceEach(d), OnceEach(s), NEW c \in Found(d) \cap Found(s)
    PROVE  \/ c \in rrf_fuse(d, s)
           \/ rrf_fuse(d, s) \subseteq Found(d) \cap Found(s)
<1> SUFFICES ASSUME NEW x \in rrf_fuse(d, s), x \notin Found(d) \cap Found(s)
             PROVE  c \in rrf_fuse(d, s)
    OBVIOUS
<1> DEFINE all == Found(d) \cup Found(s)
           Beaters(y) == {z \in all : Beats(d, s, z, y)}
<1>1. x \in all /\ Cardinality(Beaters(x)) < TopK
    BY DEF rrf_fuse
<1>2. Beaters(c) \in SUBSET Beaters(x)
    BY <1>1, BothBeatOne
<1>3. IsFiniteSet(Beaters(x))
    <2>1. Beaters(x) \in SUBSET Chunk
        BY ListFound
    <2> QED
        BY ONLY <2>1, ChunkAssumption, FS_Subset
<1>4. /\ Cardinality(Beaters(c)) <= Cardinality(Beaters(x))
      /\ Cardinality(Beaters(c)) \in Nat /\ Cardinality(Beaters(x)) \in Nat
    BY ONLY <1>2, <1>3, FS_Subset, FS_CardinalityType
<1>5. Cardinality(Beaters(c)) < TopK
    BY <1>1, <1>4, LimitAssumption
<1> QED
    BY <1>5 DEF rrf_fuse

-----------------------------------------------------------------------------
(* What an answer cites is what fusion made of the two legs. *)
Fused(r) == outcome[r] = "answered" => sources[r] = rrf_fuse(dense[r], sparse[r])

FusedInv == QInv /\ \A r \in Request : Fused(r)

LEMMA FusedInvStep == FusedInv /\ QueryNext => FusedInv'
<1> SUFFICES ASSUME FusedInv, QueryNext PROVE FusedInv'
    OBVIOUS
<1>1. QInv /\ Watch
    BY DEF FusedInv, QueryNext
<1>2. CASE Next /\ UNCHANGED request
    <2>1. QInv'
        BY <1>1, <1>2, RunsStep
    <2> QED
        BY <1>2, <2>1 DEF FusedInv, Fused, request
<1>3. CASE (\E q \in Request : RequestStep(q)) /\ UNCHANGED vars
    <2>1. PICK q \in Request : RequestStep(q)
        BY <1>3
    <2>2. QInv'
        BY <1>1, <1>3, <2>1, RequestsStep
    <2>3. ASSUME NEW r \in Request PROVE Fused(r)'
        <3>1. CASE r # q
            BY <1>1, <2>1, <3>1, RequestOthers DEF FusedInv, Fused
        <3>2. CASE r = q /\ Generate(q)
            BY <1>1, <3>2 DEF Generate, Ends, Fused, QInv, QueryTypeOK
        <3>3. CASE r = q /\ SearchDense(q)
            BY <1>1, <3>3, DenseResult DEF Fused, QInv, SteadyOK
        <3>4. CASE r = q /\ SearchSparse(q)
            BY <1>1, <3>4, SparseResult DEF Fused, QInv, SteadyOK
        <3>5. CASE r = q /\ (Ask(q) \/ Embed(q))
            BY <1>1, <3>5 DEF Ask, Embed, Fused, QInv, SteadyOK
        <3>6. CASE r = q /\ (EmbedFails(q) \/ GenerateFails(q) \/ Raises(q))
            BY <1>1, <3>6 DEF EmbedFails, GenerateFails, Raises, Ends, Fused, QInv, QueryTypeOK
        <3>7. CASE r = q /\ (Refuse(q) \/ GeneralKnowledge(q))
            BY <1>1, <3>7 DEF Refuse, GeneralKnowledge, Ends, Fused, QInv, QueryTypeOK
        <3>8. CASE r = q /\ Return(q)
            BY <1>1, <3>8 DEF Return, Fused, QInv, QueryTypeOK
        <3> QED
            BY <2>1, <3>1, <3>2, <3>3, <3>4, <3>5, <3>6, <3>7, <3>8 DEF RequestStep, Serve
    <2> QED
        BY <2>2, <2>3 DEF FusedInv
<1> QED
    BY <1>2, <1>3 DEF QueryNext, RequestStep

LEMMA FusedInvInvariant == QuerySpec => []FusedInv
<1>1. QueryInit => FusedInv
    BY QInvInit DEF QueryInit, FusedInv, Fused
<1>2. FusedInv /\ QInv' /\ UNCHANGED queryVars => FusedInv'
    BY DEF FusedInv, Fused, queryVars, request
<1> QED
    BY <1>1, <1>2, FusedInvStep, QInvInvariant, PTL DEF QuerySpec

-----------------------------------------------------------------------------
(* Theorems. *)

(* Every variable keeps its type. *)
THEOREM QueryTypeCorrect == QuerySpec => []QueryTypeOK
<1>1. QInv => QueryTypeOK
    BY DEF QInv
<1> QED
    BY <1>1, QInvInvariant, PTL

(* An answer cites only chunks that were live while it was made, or whose  *)
(* withdrawal the index stage had not yet carried out when it was asked.   *)
THEOREM SourcesAreCurrent == QuerySpec => []SourcesCurrent
<1>1. QInv => SourcesCurrent
    BY DEF QInv, LegsCitable, SourcesCurrent, Citable
<1> QED
    BY <1>1, QInvInvariant, PTL

(* A chunk embedded all the while is found by both legs, or a limit is used *)
(* up: no moment of a run hides it from a request.                          *)
THEOREM SteadyIsFound == QuerySpec => []SteadyFound
<1>1. QInv => SteadyFound
    BY DEF QInv, SteadyOK, SteadyFound, SteadyInDense, SteadyInSparse
<1> QED
    BY <1>1, QInvInvariant, PTL

(* Whoever was told that nothing is relevant had too few near chunks that   *)
(* stayed embedded, whatever runs did in the meantime (relevance.py:50-52). *)
THEOREM RefusalIsJustified == QuerySpec => []RefusalJustified
<1>1. GateInv => RefusalJustified
    BY DEF GateInv, RefusalJustified, TurnedAway, TooFew, Near
<1> QED
    BY <1>1, GateInvInvariant, PTL

(* As long as no store holds a chunk twice, a chunk of both legs comes before *)
(* every one of a single leg, whatever the limits below k + 2.                *)
THEOREM BothLegsComeFirst ==
    ASSUME TopDense < RrfK + 2, TopSparse < RrfK + 2
    PROVE  QuerySpec => []BothLegsFirst
<1>1. FusedInv => BothLegsFirst
    <2> SUFFICES ASSUME FusedInv, NEW r \in Request, outcome[r] = "answered",
                        OnceEach(dense[r]), OnceEach(sparse[r]),
                        NEW c \in Found(dense[r]) \cap Found(sparse[r])
                 PROVE  \/ c \in sources[r]
                        \/ sources[r] \subseteq Found(dense[r]) \cap Found(sparse[r])
        BY DEF BothLegsFirst
    <2>1. /\ dense[r] \in Lists(TopDense) /\ sparse[r] \in Lists(TopSparse)
          /\ sources[r] = rrf_fuse(dense[r], sparse[r])
        BY DEF FusedInv, Fused, QInv, QueryTypeOK
    <2> QED
        BY <2>1, FewBeat
<1> QED
    BY <1>1, FusedInvInvariant, PTL
=============================================================================

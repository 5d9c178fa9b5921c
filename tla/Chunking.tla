------------------------------ MODULE Chunking ------------------------------
(***************************************************************************)
(* The chunk stage (chunking/pipeline.py, run_chunk.py) over the chunks    *)
(* table of manifest.db: worker processes compare each eligible file with  *)
(* its committed chunk rows and split it; the main process, sole writer,   *)
(* applies their results in any order and commits every CommitBatch files. *)
(*                                                                         *)
(* doc[f] is what the files table says of f, and the text file behind it:  *)
(* a content hash if f is eligible, else why it is not.  The stage runs    *)
(* under the maintenance lock: ingest and index act between its runs.      *)
(***************************************************************************)
EXTENDS Naturals, FiniteSets

CONSTANTS
    File,           \* file ids
    Hash,           \* contents, by hash
    Parts,          \* Parts[h]: the chunk indexes content h splits into
    Blank,          \* contents whose extracted text is blank
    Bad,            \* contents the splitter raises on
    CommitBatch,    \* _COMMIT_BATCH
    Window,         \* max_workers * 4 tasks in flight
    MaxEdits,       \* bound: changes made by ingest
    MaxReadErrors,  \* bound: text files that could not be read
    MaxCrashes, MaxInterrupts  \* bounds: runs killed, runs left by an exception

Ineligible == {"absent", "other", "deleted"}

ASSUME ContentAssumption ==
    /\ Hash \cap Ineligible = {}
    /\ Blank \subseteq Hash /\ Bad \subseteq Hash
    /\ Parts \in [Hash -> SUBSET Nat]
ASSUME BoundAssumption ==
    /\ CommitBatch \in Nat \ {0} /\ Window \in Nat \ {0}
    /\ {MaxEdits, MaxReadErrors, MaxCrashes, MaxInterrupts} \subseteq Nat

VARIABLES
    doc,         \* files table: content hash of an eligible file, or why not
    saved,       \* committed chunk rows
    rows,        \* the same as the run's own connection sees them
    pc,          \* where the main process is
    queue,       \* files not submitted yet; later, files whose rows are stale
    results,     \* what workers returned and the main process has not applied
    current,     \* the file whose new rows are being inserted
    todo,        \* its chunk indexes still to insert
    sinceCommit, \* files applied since the last commit
    readErrors,  \* files of this run whose text could not be read
    edits, faults

vars == <<doc, saved, rows, pc, queue, results, current, todo, sinceCommit,
          readErrors, edits, faults>>

(* A row's id is made of file, hash and index, and a salt when that is taken. *)
Row == [file : File, hash : Hash, part : Nat, salt : Nat,
        st : {"pending", "embedded", "deleted"}]

WithStatus(r, s) == [r EXCEPT !.st = s]

IsLive(r) == r.st # "deleted"
LiveOf(R, f) == {r \in R : r.file = f /\ IsLive(r)}
LiveHashes(R, f) == {r.hash : r \in LiveOf(R, f)}
LiveParts(R, f) == {r.part : r \in LiveOf(R, f)}

(* mark_chunks_deleted_for_file *)
MarkDeleted(R, f) ==
    {IF r.file = f THEN WithStatus(r, "deleted") ELSE r : r \in R}

Eligible == {f \in File : doc[f] \in Hash}

Outcomes == {"unchanged", "chunked", "empty_text", "read_error", "failed"}

Init ==
    /\ doc = [f \in File |-> "absent"]
    /\ saved = {}
    /\ rows = {}
    /\ pc = "idle"
    /\ queue = {}
    /\ results = [f \in {} |-> "unchanged"]
    /\ current \in File
    /\ todo = {}
    /\ sinceCommit = 0
    /\ readErrors = {}
    /\ edits = 0
    /\ faults = [crashes |-> 0, interrupts |-> 0, reads |-> 0]

-----------------------------------------------------------------------------
(* The run. *)

Start ==
    /\ pc = "idle"
    /\ pc' = "loop"
    /\ queue' = Eligible
    /\ results' = [f \in {} |-> "unchanged"]
    /\ sinceCommit' = 0
    /\ readErrors' = {}
    /\ UNCHANGED <<doc, saved, rows, current, todo, edits, faults>>

(* Slips: the worker always splits; or is content with any live row. *)
NeverUnchanged(f) == FALSE
UnchangedIfAny(f) == LiveHashes(saved, f) # {}

(* A worker looks at committed rows only. *)
IsUnchanged(f) == LiveHashes(saved, f) = {doc[f]}

Split(f) == CASE doc[f] \in Blank -> "empty_text"
              [] doc[f] \in Bad \ Blank -> "failed"
              [] OTHER -> "chunked"

Returns(f, outcome) ==
    /\ queue' = queue \ {f}
    /\ results' = [g \in DOMAIN results \cup {f} |->
                      IF g = f THEN outcome ELSE results[g]]
    /\ UNCHANGED <<doc, saved, rows, pc, current, todo, sinceCommit, edits>>

CanSubmit(f) ==
    pc = "loop" /\ f \in queue /\ Cardinality(DOMAIN results) < Window

Worker(f) ==
    /\ CanSubmit(f)
    /\ Returns(f, IF IsUnchanged(f) THEN "unchanged" ELSE Split(f))
    /\ UNCHANGED <<readErrors, faults>>

WorkerCannotRead(f) ==
    /\ CanSubmit(f)
    /\ ~IsUnchanged(f)
    /\ faults.reads < MaxReadErrors
    /\ Returns(f, "read_error")
    /\ readErrors' = readErrors \cup {f}
    /\ faults' = [faults EXCEPT !.reads = @ + 1]

Take(f) == results' = [g \in DOMAIN results \ {f} |-> results[g]]

(* One more file applied: commit when the batch is full. *)
CountFile ==
    IF sinceCommit + 1 >= CommitBatch
    THEN saved' = rows /\ sinceCommit' = 0
    ELSE saved' = saved /\ sinceCommit' = sinceCommit + 1

(* Nothing to write for this file: its rows stay as they are. *)
ApplyOther(f) ==
    /\ pc = "loop"
    /\ f \in DOMAIN results
    /\ results[f] # "chunked"
    /\ Take(f)
    /\ CountFile
    /\ UNCHANGED <<doc, rows, pc, queue, current, todo, readErrors, edits, faults>>

(* Slip: the prior rows are forgotten. *)
ApplyChunkedKeepsOld(f) ==
    /\ pc = "loop"
    /\ f \in DOMAIN results
    /\ results[f] = "chunked"
    /\ Take(f)
    /\ current' = f
    /\ todo' = Parts[doc[f]]
    /\ pc' = "insert"
    /\ UNCHANGED <<doc, saved, rows, queue, sinceCommit, readErrors, edits, faults>>

(* Soft-delete the file's prior rows, then insert the new ones one by one. *)
ApplyChunked(f) ==
    /\ pc = "loop"
    /\ f \in DOMAIN results
    /\ results[f] = "chunked"
    /\ Take(f)
    /\ rows' = MarkDeleted(rows, f)
    /\ current' = f
    /\ todo' = Parts[doc[f]]
    /\ pc' = "insert"
    /\ UNCHANGED <<doc, saved, queue, sinceCommit, readErrors, edits, faults>>

(* insert_chunk: the first free id, salted if the plain one is taken. *)
SaltsTaken(p) ==
    {r.salt : r \in {q \in rows : /\ q.file = current
                                  /\ q.hash = doc[current]
                                  /\ q.part = p}}

(* Slip: INSERT OR IGNORE where an id is taken. *)
InsertOrIgnore ==
    /\ pc = "insert"
    /\ \E p \in todo :
          /\ rows' = IF SaltsTaken(p) # {} THEN rows
                     ELSE rows \cup {[file |-> current, hash |-> doc[current],
                                      part |-> p, salt |-> 0, st |-> "pending"]}
          /\ todo' = todo \ {p}
    /\ UNCHANGED <<doc, saved, pc, queue, results, current, sinceCommit,
                   readErrors, edits, faults>>

(* Slip: a commit for every row. *)
InsertAndCommit ==
    /\ pc = "insert"
    /\ \E p \in todo, s \in 0..Cardinality(rows) :
          /\ s \notin SaltsTaken(p)
          /\ \A t \in 0..s : t < s => t \in SaltsTaken(p)
          /\ rows' = rows \cup {[file |-> current, hash |-> doc[current],
                                 part |-> p, salt |-> s, st |-> "pending"]}
          /\ saved' = rows'
          /\ todo' = todo \ {p}
    /\ UNCHANGED <<doc, pc, queue, results, current, sinceCommit, readErrors,
                   edits, faults>>

InsertChunk ==
    /\ pc = "insert"
    /\ \E p \in todo, s \in 0..Cardinality(rows) :
          /\ \A q \in todo : p <= q
          /\ s \notin SaltsTaken(p)
          /\ \A t \in 0..s : t < s => t \in SaltsTaken(p)
          /\ rows' = rows \cup {[file |-> current, hash |-> doc[current],
                                 part |-> p, salt |-> s, st |-> "pending"]}
          /\ todo' = todo \ {p}
    /\ UNCHANGED <<doc, saved, pc, queue, results, current, sinceCommit,
                   readErrors, edits, faults>>

FileInserted ==
    /\ pc = "insert"
    /\ todo = {}
    /\ CountFile
    /\ pc' = "loop"
    /\ UNCHANGED <<doc, rows, queue, results, current, todo, readErrors, edits,
                   faults>>

(* Slip: removed files are not looked for. *)
LoopEndsNoStale ==
    /\ pc = "loop"
    /\ queue = {} /\ DOMAIN results = {}
    /\ saved' = rows
    /\ pc' = "stale"
    /\ queue' = {}
    /\ UNCHANGED <<doc, rows, results, current, todo, sinceCommit, readErrors,
                   edits, faults>>

(* All results applied: commit, then look for rows of removed files. *)
LoopEnds ==
    /\ pc = "loop"
    /\ queue = {} /\ DOMAIN results = {}
    /\ saved' = rows
    /\ pc' = "stale"
    /\ queue' = {f \in File : doc[f] = "deleted"}
    /\ UNCHANGED <<doc, rows, results, current, todo, sinceCommit, readErrors,
                   edits, faults>>

MarkStale(f) ==
    /\ pc = "stale"
    /\ f \in queue
    /\ rows' = MarkDeleted(rows, f)
    /\ queue' = queue \ {f}
    /\ UNCHANGED <<doc, saved, pc, results, current, todo, sinceCommit,
                   readErrors, edits, faults>>

(* The process is gone, and what it knew. *)
Leaves ==
    /\ pc' = "idle"
    /\ queue' = {}
    /\ results' = [f \in {} |-> "unchanged"]
    /\ todo' = {}
    /\ sinceCommit' = 0
    /\ readErrors' = {}
    /\ UNCHANGED <<doc, current, edits>>

Finish ==
    /\ pc = "stale"
    /\ queue = {}
    /\ saved' = rows
    /\ Leaves
    /\ UNCHANGED <<rows, faults>>

RunStep ==
    \/ \E f \in File : \/ Worker(f) \/ WorkerCannotRead(f)
                       \/ ApplyOther(f) \/ ApplyChunked(f) \/ MarkStale(f)
    \/ InsertChunk \/ FileInserted \/ LoopEnds \/ Finish

-----------------------------------------------------------------------------
(* What can happen to a run, and between runs. *)

(* The process is killed: the open transaction is rolled back. *)
Crash ==
    /\ pc # "idle"
    /\ faults.crashes < MaxCrashes
    /\ faults' = [faults EXCEPT !.crashes = @ + 1]
    /\ rows' = saved
    /\ Leaves
    /\ UNCHANGED saved

(* An exception or Ctrl-C: close() commits what the transaction holds. *)
Interrupt ==
    /\ pc # "idle"
    /\ faults.interrupts < MaxInterrupts
    /\ faults' = [faults EXCEPT !.interrupts = @ + 1]
    /\ saved' = rows
    /\ Leaves
    /\ UNCHANGED rows

(* Ingest commits a file: new or changed content, no text any more, removed. *)
IngestStage ==
    /\ pc = "idle"
    /\ edits < MaxEdits
    /\ edits' = edits + 1
    /\ \E f \in File, d \in Hash \cup {"other", "deleted"} :
          /\ d # doc[f]
          /\ d = "deleted" => doc[f] # "absent"
          /\ doc' = [doc EXCEPT ![f] = d]
    /\ UNCHANGED <<saved, rows, pc, queue, results, current, todo, sinceCommit,
                   readErrors, faults>>

(* The index stage embeds pending rows and purges deleted ones, as far as it *)
(* gets.                                                                     *)
IndexStage ==
    /\ pc = "idle"
    /\ \E emb \in SUBSET {r \in saved : r.st = "pending"},
          gone \in SUBSET {r \in saved : r.st = "deleted"} :
            saved' = (saved \ (emb \cup gone))
                     \cup {WithStatus(r, "embedded") : r \in emb}
    /\ rows' = saved'
    /\ UNCHANGED <<doc, pc, queue, results, current, todo, sinceCommit,
                   readErrors, edits, faults>>

Next == Start \/ RunStep \/ Crash \/ Interrupt \/ IngestStage \/ IndexStage

Spec == Init /\ [][Next]_vars

(* cron starts the stage again and again; workers and the main process of a *)
(* live run take their next step.                                           *)
FairSpec == Spec /\ WF_vars(Start) /\ WF_vars(RunStep)

-----------------------------------------------------------------------------
(* Properties. *)

TypeOK ==
    /\ doc \in [File -> Hash \cup Ineligible]
    /\ saved \subseteq Row
    /\ rows \subseteq Row
    /\ pc \in {"idle", "loop", "insert", "stale"}
    /\ queue \subseteq File
    /\ DOMAIN results \subseteq File
    /\ \A f \in DOMAIN results : results[f] \in Outcomes
    /\ current \in File
    /\ todo \subseteq Nat
    /\ sinceCommit \in Nat
    /\ readErrors \subseteq File
    /\ edits \in Nat
    /\ faults \in [{"crashes", "interrupts", "reads"} -> Nat]

(* A file's live rows agree: text of two of its versions is never live at   *)
(* once, and no passage twice, whatever aborted run, change or reversal came *)
(* before and although a reverted file's rows may exist under several salts  *)
(* at once (pipeline.py:183-185, manifest.py:249-260).                       *)
LiveRowsAgree ==
    \A f \in File : \A r, s \in LiveOf(saved, f) :
        r.hash = s.hash /\ (r.part = s.part => r = s)

Partial == faults.interrupts > 0  \* close() may have committed half a file

(* A reader of the committed table never sees part of a file: a killed run  *)
(* leaves each file's old rows or all of its new ones.  An exception that   *)
(* leaves the run is the exception.                                         *)
WholeFiles ==
    Partial \/ \A f \in File : \A r \in LiveOf(saved, f) :
                   LiveParts(saved, f) = Parts[r.hash]

(* A run never takes the chunks of current content away, so that nothing is *)
(* embedded twice for no reason (the worker's "unchanged", pipeline.py:80). *)
CurrentKept ==
    [][pc # "idle" =>
        \A f \in File : \A r \in LiveOf(saved, f) : r.hash = doc[f] => r \in saved']_vars

Splittable(f) == doc[f] \in Hash \ (Blank \cup Bad) /\ f \notin readErrors

RunEnds == pc = "stale" /\ queue = {} /\ pc' = "idle" /\ saved' = rows

(* The committed table holds all of each file's content that could be read  *)
(* and split, and nothing live of a removed one.                            *)
Populated ==
    \A f \in File :
        /\ Splittable(f) =>
              /\ LiveHashes(saved', f) \subseteq {doc[f]}
              /\ LiveParts(saved', f) = Parts[doc[f]]
        /\ doc[f] = "deleted" => LiveOf(saved', f) = {}

(* A run that completes catches up with whatever ingest did and with runs   *)
(* killed before it.                                                        *)
CleanRunComplete == [][RunEnds => Partial \/ Populated]_vars

(* "Output: the chunks table fully populated for every eligible file"       *)
(* (step-3-requirements.md:128).                                            *)
TableFullyPopulated == [][RunEnds => Populated]_vars

(* A completed run leaves no chunk of what an eligible file held before:    *)
(* "Changed, or no chunks exist yet -> delete that file's existing chunk    *)
(* rows, regenerate" (step-3-requirements.md:112).  It does when the text   *)
(* has become blank or the splitter fails on it (_worker_task returns).     *)
OutdatedReplaced ==
    [][RunEnds => \A f \in File : doc[f] \in Hash => LiveHashes(saved', f) \subseteq {doc[f]}]_vars

(* A removed file's chunks are soft-deleted in the end, or the file is back. *)
RemovedWithdrawn ==
    \A f \in File :
        doc[f] = "deleted" ~> (doc[f] # "deleted" \/ LiveOf(saved, f) = {})

(* New content of a file replaces the old in the end, or changes again. *)
ChangeChunked ==
    \A f \in File, h \in Hash \ (Blank \cup Bad) :
        doc[f] = h ~> \/ doc[f] # h
                      \/ Partial
                      \/ /\ LiveHashes(saved, f) \subseteq {h}
                         /\ LiveParts(saved, f) = Parts[h]
=============================================================================

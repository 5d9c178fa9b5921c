-------------------------------- MODULE Ingest --------------------------------
(***************************************************************************)
(* The ingest stage (ingest/pipeline.py, ingest/walker.py, run_ingest.py): *)
(* worker processes hash and extract the files of the source tree while    *)
(* people edit it; the main process, sole writer, takes their results in   *)
(* the order they arrive, names and writes the text files and upserts the  *)
(* files table of manifest.db, committing every CommitBatch files.         *)
(*                                                                         *)
(* Text files are outside the transaction: a write is durable at once,     *)
(* the row that goes with it only at the next commit.  All files are in    *)
(* one directory and those of Markdown want the same stem.                 *)
(***************************************************************************)
EXTENDS Naturals, FiniteSets

CONSTANTS
    File,          \* source files, as numbers from 1 in walk order
    Markdown,      \* those whose output is <stem>.md
    Readme,        \* those that convert_to_md.sh converts
    Content,       \* what a file can hold
    Bad,           \* contents that cannot be extracted
    Empty,         \* contents of size zero
    Fatal,         \* contents whose extraction kills the worker process
    CommitBatch,   \* _COMMIT_BATCH
    Window,        \* max_workers * 4 tasks in flight
    MayRevert,     \* TRUE: a file may get back contents it has had before
    MayReturn,     \* TRUE: a removed file may come back
    MaxEdits,      \* bound: changes of the source tree
    MaxUnlistable, \* bound: runs that cannot list the directory
    MaxUnreadable, \* bound: reads of a file that fail
    MaxExtractFails, \* bound: extractions that fail for once
    MaxAborts      \* bound: runs killed, or left through an exception

ASSUME FileAssumption == File \subseteq Nat \ {0} /\ Readme \subseteq Markdown
                         /\ Markdown \subseteq File
ASSUME ContentAssumption == Bad \cup Empty \cup Fatal \subseteq Content
                            /\ Bad \cap Empty = {} /\ Fatal \cap (Bad \cup Empty) = {}
                            /\ "absent" \notin Content /\ "none" \notin Content
ASSUME BoundAssumption == CommitBatch \in Nat \ {0} /\ Window \in Nat \ {0}
ASSUME ContextAssumption == {MayRevert, MayReturn} \subseteq BOOLEAN
                            /\ {MaxEdits, MaxUnlistable, MaxUnreadable, MaxExtractFails,
                                MaxAborts} \subseteq Nat

VARIABLES
    disk,        \* the source tree: what each file holds, or "absent"
    past,        \* what each file has held
    disturbed,   \* files changed, or found unreadable, since the run began
    text,        \* extracted_text/: the content each output name holds
    saved,       \* committed files table
    rows,        \* the same as the run's own connection sees it
    pc,          \* where the main process is
    queue,       \* walked files not submitted yet; later, stale file ids
    work,        \* what the workers are doing, or have done and not handed over
    claims,      \* registry: which file has which Markdown name
    seen,        \* seen_file_ids
    current,     \* the file whose text is written and row is not
    out,         \* and its output name
    sinceCommit,
    edits, faults

tree == <<disk, past, edits>>
vars == <<disk, past, disturbed, text, saved, rows, pc, queue, work, claims, seen,
          current, out, sinceCommit, edits, faults>>

(* Output names: <stem>.md, <stem>-2.md, ..., or <filename>.txt. *)
MdName(n) == <<"md", n>>
Name == {MdName(n) : n \in 1..(Cardinality(File) + 1)} \cup {<<"txt", f>> : f \in File}
NoName == <<"none", 0>>

NoRow == [st |-> "none", hash |-> "none", path |-> NoName]

Live(r) == r.st \notin {"none", "deleted"}
HasText(r) == r.st = "extracted"

(* A worker's task: not started, reading, or its WorkResult. *)
Idle == [step |-> "none", kind |-> "none", st |-> "none", hash |-> "none",
         text |-> "none", prior |-> NoName]

Task(step, kind, st, hash, t, prior) ==
    [step |-> step, kind |-> kind, st |-> st, hash |-> hash, text |-> t, prior |-> prior]

InFlight == {f \in File : work[f].step # "none"}

Init ==
    /\ disk \in [File -> Content \cup {"absent"}]
    /\ past = [f \in File |-> {disk[f]} \ {"absent"}]
    /\ disturbed = {}
    /\ text = [n \in Name |-> "none"]
    /\ saved = [f \in File |-> NoRow]
    /\ rows = saved
    /\ pc = "idle"
    /\ queue = {}
    /\ work = [f \in File |-> Idle]
    /\ claims = [n \in Name |-> 0]
    /\ seen = {}
    /\ current \in File
    /\ out = NoName
    /\ sinceCommit = 0
    /\ edits = 0
    /\ faults = [unlistable |-> 0, unreadable |-> 0, extract |-> 0, aborts |-> 0]

Fault(kind, max) == faults[kind] < max /\ faults' = [faults EXCEPT ![kind] = @ + 1]

-----------------------------------------------------------------------------
(* The run starts: the registry is read from the live rows, and the walk   *)
(* lists the directory.                                                    *)

ClaimedBy(n) == {f \in File : Live(rows[f]) /\ rows[f].path = n}

BeginRun(listing, unread) ==
    /\ pc = "idle"
    /\ pc' = "loop"
    /\ queue' = listing
    /\ work' = [f \in File |-> Idle]
    /\ \E owner \in [Name -> File \cup {0}] :
          /\ \A n \in Name : IF ClaimedBy(n) = {} THEN owner[n] = 0
                             ELSE owner[n] \in ClaimedBy(n)
          /\ claims' = owner
    /\ seen' = {}
    /\ disturbed' = unread
    /\ sinceCommit' = 0
    /\ UNCHANGED <<tree, text, saved, rows, current, out>>

Present == {f \in File : disk[f] # "absent"}

Start == BeginRun(Present, {}) /\ UNCHANGED faults

(* os.walk cannot list the directory: logged, and nothing of it is walked. *)
StartUnlistable == BeginRun({}, File) /\ Fault("unlistable", MaxUnlistable)

-----------------------------------------------------------------------------
(* Workers. *)

Returns(f, task) == work' = [work EXCEPT ![f] = task]

(* The walk yields the next file, and a worker picks it up. *)
Submit(f) ==
    /\ pc = "loop"
    /\ f \in queue
    /\ \A g \in queue : f <= g
    /\ Cardinality(InFlight) < Window
    /\ queue' = queue \ {f}
    /\ Returns(f, [Idle EXCEPT !.step = "submitted"])
    /\ UNCHANGED <<tree, disturbed, text, saved, rows, pc, claims, seen, current, out,
                   sinceCommit, faults>>

(* Slip: any row that was processed is reused. *)
CanReuseByStatus(f, h) == saved[f].st \notin {"none", "deleted", "failed"}

(* _can_reuse, on the committed row. *)
CanReuse(f, h) ==
    /\ saved[f].hash = h
    /\ saved[f].st \notin {"none", "deleted"}
    /\ ~(saved[f].st = "failed" /\ f \in Readme)

(* stat, size, content hash, and the look at the file's row. *)
Hash(f) ==
    /\ work[f].step = "submitted"
    /\ LET h == disk[f]
       IN  Returns(f,
             CASE h = "absent" ->
                    Task("done", "other", "failed", "none", "none", NoName)
               [] h \in Empty ->
                    Task("done", "other", "other", "none", "none", NoName)
               [] h \notin Empty \cup {"absent"} /\ CanReuse(f, h) ->
                    Task("done", "unchanged", saved[f].st, h, "none", saved[f].path)
               [] OTHER ->
                    Task("extract", "none", "none", h, "none", saved[f].path))
    /\ UNCHANGED <<tree, disturbed, text, saved, rows, pc, queue, claims, seen, current,
                   out, sinceCommit, faults>>

(* The file cannot be read for its hash. *)
CannotRead(f) ==
    /\ work[f].step = "submitted"
    /\ Fault("unreadable", MaxUnreadable)
    /\ Returns(f, Task("done", "other", "failed", "none", "none", NoName))
    /\ disturbed' = disturbed \cup {f}
    /\ UNCHANGED <<tree, text, saved, rows, pc, queue, claims, seen, current,
                   out, sinceCommit>>

(* Extraction fails once: an I/O error, a converter's timeout. *)
ExtractFails(f) ==
    /\ work[f].step = "extract"
    /\ Fault("extract", MaxExtractFails)
    /\ Returns(f, Task("done", "result", "failed", work[f].hash, "none", work[f].prior))
    /\ disturbed' = disturbed \cup {f}
    /\ UNCHANGED <<tree, text, saved, rows, pc, queue, claims, seen, current, out,
                   sinceCommit>>

(* Extraction reads the file again: what it finds may not be what was hashed. *)
Extract(f) ==
    /\ work[f].step = "extract"
    /\ disk[f] \notin Fatal
    /\ LET c == disk[f]
           ok == c \notin Bad \cup {"absent"}
       IN  Returns(f, Task("done", "result", IF ok THEN "extracted" ELSE "failed",
                           work[f].hash, IF ok THEN c ELSE "none", work[f].prior))
    /\ UNCHANGED <<tree, disturbed, text, saved, rows, pc, queue, claims, seen, current,
                   out, sinceCommit, faults>>

-----------------------------------------------------------------------------
(* The main process: _finalize, in the order in which results arrive. *)

Upserts(f, row) == rows' = [rows EXCEPT ![f] = row]

(* One more file: commit when the batch is full. *)
CountFile ==
    IF sinceCommit + 1 >= CommitBatch
    THEN saved' = rows' /\ sinceCommit' = 0
    ELSE saved' = saved /\ sinceCommit' = sinceCommit + 1

(* Nothing to write for this file: only its row. *)
FinalizeRow(f) ==
    /\ pc = "loop"
    /\ work[f].step = "done"
    /\ work[f].text = "none"
    /\ Upserts(f, [st |-> work[f].st, hash |-> work[f].hash,
                   path |-> IF work[f].kind = "unchanged" THEN work[f].prior ELSE NoName])
    /\ CountFile
    /\ seen' = seen \cup {f}
    /\ Returns(f, Idle)
    /\ UNCHANGED <<tree, disturbed, text, pc, queue, claims, current, out, faults>>

(* Slip: the first name, whoever has claimed it. *)
FirstName(f, n) == n = 1

(* _assign_markdown_name: the first name nobody else has claimed. *)
FirstFree(f, n) ==
    /\ claims[MdName(n)] \in {0, f}
    /\ \A m \in 1..n : m < n => claims[MdName(m)] \notin {0, f}

(* A file that has had a name in this directory keeps it, claimed or not. *)
Output(f, n) ==
    IF f \notin Markdown THEN n = <<"txt", f>>
    ELSE IF work[f].prior # NoName THEN n = work[f].prior
    ELSE \E i \in 1..(Cardinality(File) + 1) : n = MdName(i) /\ FirstFree(f, i)

(* Slip: an error of the write is swallowed. *)
WriteTextFails(f) ==
    /\ pc = "loop"
    /\ work[f].step = "done"
    /\ work[f].text # "none"
    /\ \E n \in Name :
          /\ Output(f, n)
          /\ claims' = IF f \in Markdown THEN [claims EXCEPT ![n] = f] ELSE claims
          /\ out' = n
    /\ current' = f
    /\ pc' = "upsert"
    /\ UNCHANGED <<tree, disturbed, text, saved, rows, queue, work, seen, sinceCommit, faults>>

WriteText(f) ==
    /\ pc = "loop"
    /\ work[f].step = "done"
    /\ work[f].text # "none"
    /\ \E n \in Name :
          /\ Output(f, n)
          /\ text' = [text EXCEPT ![n] = work[f].text]
          /\ claims' = IF f \in Markdown THEN [claims EXCEPT ![n] = f] ELSE claims
          /\ out' = n
    /\ current' = f
    /\ pc' = "upsert"
    /\ UNCHANGED <<tree, disturbed, saved, rows, queue, work, seen, sinceCommit, faults>>

FinalizeText ==
    /\ pc = "upsert"
    /\ Upserts(current, [st |-> "extracted", hash |-> work[current].hash, path |-> out])
    /\ CountFile
    /\ seen' = seen \cup {current}
    /\ Returns(current, Idle)
    /\ pc' = "loop"
    /\ UNCHANGED <<tree, disturbed, text, queue, claims, current, out, faults>>

(* Slip: rows of files not seen are not looked for. *)
LoopEndsNoStale ==
    /\ pc = "loop"
    /\ queue = {} /\ InFlight = {}
    /\ saved' = rows
    /\ queue' = {}
    /\ pc' = "stale"
    /\ UNCHANGED <<tree, disturbed, text, rows, work, claims, seen, current, out,
                   sinceCommit, faults>>

(* Everything walked is in: commit, then look for rows of files not seen. *)
LoopEnds ==
    /\ pc = "loop"
    /\ queue = {} /\ InFlight = {}
    /\ saved' = rows
    /\ queue' = {f \in File : Live(rows[f])} \ seen
    /\ pc' = "stale"
    /\ UNCHANGED <<tree, disturbed, text, rows, work, claims, seen, current, out,
                   sinceCommit, faults>>

MarkDeleted(f) ==
    /\ pc = "stale"
    /\ f \in queue
    /\ Upserts(f, [rows[f] EXCEPT !.st = "deleted"])
    /\ queue' = queue \ {f}
    /\ UNCHANGED <<tree, disturbed, text, saved, pc, work, claims, seen, current, out,
                   sinceCommit, faults>>

Finish ==
    /\ pc = "stale"
    /\ queue = {}
    /\ saved' = rows
    /\ pc' = "idle"
    /\ UNCHANGED <<tree, disturbed, text, rows, queue, work, claims, seen, current, out,
                   sinceCommit, faults>>

-----------------------------------------------------------------------------
(* What can happen to a run, and around it. *)

Leaves == pc' = "idle" /\ work' = [f \in File |-> Idle] /\ queue' = {}

(* The process is killed: the open transaction is rolled back. *)
Crash ==
    /\ pc # "idle"
    /\ Fault("aborts", MaxAborts)
    /\ Leaves
    /\ rows' = saved
    /\ UNCHANGED <<tree, disturbed, text, saved, claims, seen, current, out, sinceCommit>>

(* An exception or Ctrl-C: close() commits what the transaction holds. *)
Interrupt ==
    /\ pc # "idle"
    /\ Fault("aborts", MaxAborts)
    /\ Leaves
    /\ saved' = rows
    /\ UNCHANGED <<tree, disturbed, text, rows, claims, seen, current, out, sinceCommit>>

(* A worker process dies (a crash in a C library, the OOM killer): the pool is *)
(* broken, fut.result() raises, and the run is left through that exception.    *)
WorkerDies(f) ==
    /\ pc = "loop"
    /\ work[f].step = "extract"
    /\ disk[f] \in Fatal
    /\ Leaves
    /\ saved' = rows
    /\ UNCHANGED <<tree, disturbed, text, rows, claims, seen, current, out, sinceCommit,
                   faults>>

(* Somebody writes or removes a file. *)
Edit(f) ==
    /\ edits < MaxEdits
    /\ \E c \in Content \cup {"absent"} :
          /\ c # disk[f]
          /\ c \in past[f] => MayRevert
          /\ disk[f] = "absent" /\ past[f] # {} => MayReturn
          /\ disk' = [disk EXCEPT ![f] = c]
          /\ past' = [past EXCEPT ![f] = @ \cup ({c} \ {"absent"})]
    /\ edits' = edits + 1
    /\ disturbed' = disturbed \cup {f}
    /\ UNCHANGED <<text, saved, rows, pc, queue, work, claims, seen, current, out,
                   sinceCommit, faults>>

WorkerStep == \E f \in File : Submit(f) \/ Hash(f) \/ Extract(f) \/ WorkerDies(f)

MainStep == \/ \E f \in File : FinalizeRow(f) \/ WriteText(f) \/ MarkDeleted(f)
            \/ FinalizeText \/ LoopEnds \/ Finish

Next ==
    \/ Start \/ StartUnlistable \/ WorkerStep \/ MainStep
    \/ Crash \/ Interrupt
    \/ \E f \in File : CannotRead(f) \/ ExtractFails(f) \/ Edit(f)

Spec == Init /\ [][Next]_vars

(* cron starts the stage again and again, and a live run goes on: extraction *)
(* subprocesses have timeouts.                                               *)
FairSpec == Spec /\ WF_vars(Start) /\ WF_vars(WorkerStep) /\ WF_vars(MainStep)

-----------------------------------------------------------------------------
(* Properties. *)

Statuses == {"none", "extracted", "failed", "other", "deleted"}
Rows == [st : Statuses, hash : Content \cup {"none"}, path : Name \cup {NoName}]
Tasks == [step : {"none", "submitted", "extract", "done"},
          kind : {"none", "other", "unchanged", "result"}, st : Statuses,
          hash : Content \cup {"none"}, text : Content \cup {"none"},
          prior : Name \cup {NoName}]

TypeOK ==
    /\ disk \in [File -> Content \cup {"absent"}]
    /\ past \in [File -> SUBSET Content]
    /\ disturbed \subseteq File
    /\ text \in [Name -> Content \cup {"none"}]
    /\ saved \in [File -> Rows]
    /\ rows \in [File -> Rows]
    /\ pc \in {"idle", "loop", "upsert", "stale"}
    /\ queue \subseteq File
    /\ work \in [File -> Tasks]
    /\ claims \in [Name -> File \cup {0}]
    /\ seen \subseteq File
    /\ current \in File
    /\ out \in Name \cup {NoName}
    /\ sinceCommit \in Nat
    /\ edits \in Nat
    /\ faults \in [{"unlistable", "unreadable", "extract", "aborts"} -> Nat]

(* A committed row that promises text has a text file behind it, whenever    *)
(* the run is killed: the file is written before its row                     *)
(* (ingest/pipeline.py:291-298).                                             *)
TextExists ==
    \A f \in File : HasText(saved[f]) =>
        saved[f].path \in Name /\ text[saved[f].path] # "none"

(* No two files share a text file: READMEs that want the same <stem>.md are  *)
(* told apart, whatever order results arrive in (ingest/pipeline.py:63-75).  *)
OneOwner ==
    \A f, g \in File :
        HasText(saved[f]) /\ HasText(saved[g]) /\ saved[f].path = saved[g].path => f = g

(* "an already-processed file keeps its slot rather than being renumbered"   *)
(* (step-1-requirements.md:55), although other files come and go.            *)
NameKept ==
    [][\A f \in File : HasText(saved[f]) /\ HasText(saved'[f])
                            => saved'[f].path = saved[f].path]_vars

Extractable == Content \ (Bad \cup Empty \cup Fatal)

(* An extraction that failed for once is tried again for README/TODO only. *)
NotRetried(row, f, c) ==
    faults.extract > 0 /\ f \notin Readme /\ row.st = "failed" /\ row.hash = c

(* The files table and the text of f agree with a source file that holds c. *)
Reflects(row, f, c) ==
    CASE c = "absent"     -> ~Live(row)
      [] c \in Empty      -> row.st = "other"
      [] c \in Bad        -> row.st = "failed"
      [] c \in Extractable -> \/ HasText(row) /\ row.hash = c /\ text[row.path] = c
                              \/ NotRetried(row, f, c)
      [] OTHER            -> TRUE

RunEnds == pc = "stale" /\ queue = {} /\ pc' = "idle" /\ saved' = rows

(* A completed run leaves every file that was readable and at rest while it  *)
(* ran reflected in table and text, although it reuses rows, reads each file *)
(* twice, and follows runs that were killed half-way.                        *)
CleanRunAgrees ==
    [][RunEnds => \A f \in File \ disturbed : Reflects(saved'[f], f, disk[f])]_vars

Poisoned == \E g \in File : disk[g] \in Fatal

(* New content of a file that stays as it is reaches the text store, even    *)
(* when the file changed between its hash and its extraction.                *)
ChangeExtracted ==
    \A f \in File, c \in Extractable :
        disk[f] = c ~> (disk[f] # c \/ Reflects(saved[f], f, c) \/ Poisoned)

(* A removed file is noticed, or comes back, unless some file in the tree    *)
(* kills the worker that extracts it: that one ends every run before the     *)
(* loop is through, so that nothing is looked for (pipeline.py:358, 379).    *)
RemovedNoticedUnlessPoisoned ==
    \A f \in File :
        disk[f] = "absent" ~> (disk[f] # "absent" \/ ~Live(saved[f]) \/ Poisoned)

(* "Failures on one file must never abort the whole run"                     *)
(* (step-1-requirements.md:145): a removed file is noticed, whatever the     *)
(* other files hold.                                                         *)
RemovedNoticed ==
    \A f \in File :
        disk[f] = "absent" ~> (disk[f] # "absent" \/ ~Live(saved[f]))
=============================================================================

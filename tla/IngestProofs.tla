----------------------------- MODULE IngestProofs -----------------------------
(***************************************************************************)
(* Theorems about Ingest, for every set of files and contents and any      *)
(* number of edits, failures and aborted runs.                             *)
(***************************************************************************)
EXTENDS Ingest, TLAPS

HasFile(n) == n \in Name /\ text[n] # "none"

TextBehind(row) == HasText(row) => HasFile(row.path)

(* What a finished task may hand over. *)
TaskOk(t) ==
    t.step = "done"
        => /\ t.kind = "unchanged" /\ t.st = "extracted" => HasFile(t.prior)
           /\ t.text = "none" /\ t.st = "extracted" => t.kind = "unchanged"

IInv ==
    /\ TypeOK
    /\ \A f \in File : TextBehind(saved[f]) /\ TextBehind(rows[f]) /\ TaskOk(work[f])
    /\ pc = "upsert" => HasFile(out)

-----------------------------------------------------------------------------
(* Records of the right shape. *)

LEMMA NoRowTyped == NoRow \in Rows
  BY DEF NoRow, Rows, Statuses

LEMMA IdleTyped == Idle \in Tasks
  BY DEF Idle, Tasks, Statuses

LEMMA TaskTyped ==
    ASSUME NEW step \in {"none", "submitted", "extract", "done"},
           NEW kind \in {"none", "other", "unchanged", "result"},
           NEW st \in Statuses, NEW h \in Content \cup {"none"},
           NEW t \in Content \cup {"none"}, NEW prior \in Name \cup {NoName}
    PROVE  Task(step, kind, st, h, t, prior) \in Tasks
  BY DEF Task, Tasks

LEMMA InitIInv == Init => IInv
<1> SUFFICES ASSUME Init PROVE IInv
  OBVIOUS
<1>1. TypeOK
  <2>1. saved \in [File -> Rows] /\ rows \in [File -> Rows]
    BY NoRowTyped DEF Init
  <2>2. work \in [File -> Tasks]
    BY IdleTyped DEF Init
  <2>3. disk \in [File -> Content \cup {"absent"}] /\ past \in [File -> SUBSET Content]
    BY DEF Init
  <2>4. faults \in [{"unlistable", "unreadable", "extract", "aborts"} -> Nat]
    BY DEF Init
  <2> QED
    BY <2>1, <2>2, <2>3, <2>4 DEF Init, TypeOK
<1>2. \A f \in File : TextBehind(saved[f]) /\ TextBehind(rows[f]) /\ TaskOk(work[f])
  BY DEF Init, NoRow, Idle, TextBehind, HasText, TaskOk
<1> QED
  BY <1>1, <1>2 DEF IInv, Init

-----------------------------------------------------------------------------
(* One lemma for each action, or group of actions. *)

LEMMA BatchCounted ==
    ASSUME TypeOK, CountFile
    PROVE  (saved' = saved \/ saved' = rows') /\ sinceCommit' \in Nat
  BY DEF TypeOK, CountFile

(* A step of a worker: only its task changes. *)
LEMMA WorkerKeeps ==
    ASSUME IInv, NEW f \in File, NEW task \in Tasks, Returns(f, task), TaskOk(task),
           UNCHANGED <<text, saved, rows, pc, claims, seen, current, out, sinceCommit>>,
           UNCHANGED tree, queue' \subseteq File, disturbed' \subseteq File,
           faults' \in [{"unlistable", "unreadable", "extract", "aborts"} -> Nat]
    PROVE  IInv'
<1>1. work' \in [File -> Tasks]
  BY DEF IInv, TypeOK, Returns
<1>2. TypeOK'
  BY <1>1 DEF IInv, TypeOK, tree
<1>3. \A g \in File : TaskOk(work'[g])
  BY DEF IInv, TypeOK, Returns
<1>4. \A g \in File : TextBehind(saved[g])' /\ TextBehind(rows[g])' /\ TaskOk(work[g])'
  BY <1>3 DEF IInv, TextBehind, HasFile, TaskOk
<1> QED
  BY <1>2, <1>4 DEF IInv, HasFile

LEMMA FaultTyped ==
    ASSUME TypeOK, NEW kind \in {"unlistable", "unreadable", "extract", "aborts"},
           NEW max, Fault(kind, max)
    PROVE  faults' \in [{"unlistable", "unreadable", "extract", "aborts"} -> Nat]
<1>1. faults[kind] \in Nat
  BY DEF TypeOK
<1>2. faults[kind] + 1 \in Nat
  BY <1>1
<1> QED
  BY <1>2 DEF Fault, TypeOK

LEMMA SubmitKeeps == ASSUME IInv, NEW f \in File, Submit(f) PROVE IInv'
<1> DEFINE task == [Idle EXCEPT !.step = "submitted"]
<1>1. task = Task("submitted", "none", "none", "none", "none", NoName)
  BY DEF Idle, Task
<1>2. task \in Tasks
  BY <1>1, TaskTyped DEF Statuses
<1>3. TaskOk(task)
  BY <1>1 DEF TaskOk, Task
<1>4. TypeOK
  BY DEF IInv
<1> QED
  BY <1>2, <1>3, <1>4, WorkerKeeps DEF Submit, TypeOK

LEMMA HashKeeps == ASSUME IInv, NEW f \in File, Hash(f) PROVE IInv'
<1>1. TypeOK /\ TextBehind(saved[f])
  BY DEF IInv
<1>2. saved[f] \in Rows /\ disk[f] \in Content \cup {"absent"}
  BY <1>1 DEF TypeOK
<1>3. saved[f].st \in Statuses /\ saved[f].path \in Name \cup {NoName}
  BY <1>2 DEF Rows
<1> SUFFICES ASSUME NEW task \in Tasks, TaskOk(task), Returns(f, task) PROVE IInv'
  <2> DEFINE gone == Task("done", "other", "failed", "none", "none", NoName)
             zero == Task("done", "other", "other", "none", "none", NoName)
             same == Task("done", "unchanged", saved[f].st, disk[f], "none", saved[f].path)
             next == Task("extract", "none", "none", disk[f], "none", saved[f].path)
  <2>1. \/ Returns(f, gone)
        \/ Returns(f, zero)
        \/ disk[f] # "absent" /\ Returns(f, same)
        \/ disk[f] # "absent" /\ Returns(f, next)
    BY DEF Hash
  <2>2. gone \in Tasks /\ TaskOk(gone) /\ zero \in Tasks /\ TaskOk(zero)
    <3>1. gone \in Tasks /\ zero \in Tasks
      BY TaskTyped DEF Statuses
    <3> QED
      BY <3>1 DEF TaskOk, Task
  <2>3. disk[f] # "absent" => same \in Tasks /\ TaskOk(same)
    <3>1. disk[f] # "absent" => same \in Tasks
      BY <1>2, <1>3, TaskTyped
    <3>2. TaskOk(same)
      BY <1>1 DEF TaskOk, Task, TextBehind, HasText
    <3> QED
      BY <3>1, <3>2
  <2>4. disk[f] # "absent" => next \in Tasks /\ TaskOk(next)
    <3>1. disk[f] # "absent" => next \in Tasks
      BY <1>2, <1>3, TaskTyped DEF Statuses
    <3>2. TaskOk(next)
      BY DEF TaskOk, Task
    <3> QED
      BY <3>1, <3>2
  <2> HIDE DEF gone, zero, same, next
  <2> QED
    BY <2>1, <2>2, <2>3, <2>4
<1> QED
  BY <1>1, WorkerKeeps DEF Hash, TypeOK

LEMMA CannotReadKeeps == ASSUME IInv, NEW f \in File, CannotRead(f) PROVE IInv'
<1> DEFINE task == Task("done", "other", "failed", "none", "none", NoName)
<1>1. TypeOK
  BY DEF IInv
<1>2. task \in Tasks
  BY TaskTyped DEF Statuses
<1>3. TaskOk(task)
  BY DEF TaskOk, Task
<1>4. faults' \in [{"unlistable", "unreadable", "extract", "aborts"} -> Nat]
  BY <1>1, FaultTyped DEF CannotRead
<1>5. disturbed' \subseteq File /\ queue' \subseteq File
  BY <1>1 DEF CannotRead, TypeOK
<1> QED
  BY <1>2, <1>3, <1>4, <1>5, WorkerKeeps DEF CannotRead

LEMMA ExtractFailsKeeps == ASSUME IInv, NEW f \in File, ExtractFails(f) PROVE IInv'
<1> DEFINE task == Task("done", "result", "failed", work[f].hash, "none", work[f].prior)
<1>1. TypeOK
  BY DEF IInv
<1>2. task \in Tasks
  <2>1. work[f] \in Tasks
    BY <1>1 DEF TypeOK
  <2>2. work[f].hash \in Content \cup {"none"} /\ work[f].prior \in Name \cup {NoName}
    BY <2>1 DEF Tasks
  <2> QED
    BY <2>2, TaskTyped DEF Statuses
<1>3. TaskOk(task)
  BY DEF TaskOk, Task
<1>4. faults' \in [{"unlistable", "unreadable", "extract", "aborts"} -> Nat]
  BY <1>1, FaultTyped DEF ExtractFails
<1>5. disturbed' \subseteq File /\ queue' \subseteq File
  BY <1>1 DEF ExtractFails, TypeOK
<1> QED
  BY <1>2, <1>3, <1>4, <1>5, WorkerKeeps DEF ExtractFails

LEMMA ExtractKeeps == ASSUME IInv, NEW f \in File, Extract(f) PROVE IInv'
<1>1. TypeOK
  BY DEF IInv
<1>2. work[f].hash \in Content \cup {"none"} /\ work[f].prior \in Name \cup {NoName}
  <2>1. work[f] \in Tasks
    BY <1>1 DEF TypeOK
  <2> QED
    BY <2>1 DEF Tasks
<1> DEFINE good == Task("done", "result", "extracted", work[f].hash, disk[f], work[f].prior)
           fail == Task("done", "result", "failed", work[f].hash, "none", work[f].prior)
<1>3. \/ disk[f] # "absent" /\ Returns(f, good)
      \/ Returns(f, fail)
  BY DEF Extract
<1>4. disk[f] # "absent" => good \in Tasks /\ TaskOk(good)
  <2>1. disk[f] # "absent" => disk[f] \in Content
    BY <1>1 DEF TypeOK
  <2>2. disk[f] # "absent" => good \in Tasks
    BY <1>2, <2>1, TaskTyped DEF Statuses
  <2>3. disk[f] # "absent" => disk[f] # "none"
    BY <2>1, ContentAssumption
  <2> QED
    BY <2>2, <2>3 DEF TaskOk, Task
<1>5. fail \in Tasks /\ TaskOk(fail)
  <2>1. fail \in Tasks
    BY <1>2, TaskTyped DEF Statuses
  <2> QED
    BY <2>1 DEF TaskOk, Task
<1>6. PICK task \in Tasks : Returns(f, task) /\ TaskOk(task)
  <2> HIDE DEF good, fail
  <2> QED
    BY <1>3, <1>4, <1>5
<1> QED
  BY <1>1, <1>6, WorkerKeeps DEF Extract, TypeOK

(* A step of the main process: text files appear and never go away, a row is *)
(* replaced by one that keeps its promise, and rows get committed.           *)
LEMMA MainKeeps ==
    ASSUME IInv, TypeOK',
           \A n \in Name : text[n] # "none" => text'[n] # "none",
           \A g \in File : rows'[g] = rows[g] \/ TextBehind(rows[g])',
           \A g \in File : saved'[g] \in {saved[g], rows[g], rows'[g]},
           \A g \in File : work'[g] = work[g] \/ work'[g] = Idle,
           pc' = "upsert" => HasFile(out)'
    PROVE  IInv'
<1>1. \A n : HasFile(n) => HasFile(n)'
  BY DEF HasFile
<1>2. \A r : TextBehind(r) => (HasText(r) => HasFile(r.path)')
  BY <1>1 DEF TextBehind
<1>3. ASSUME NEW g \in File
      PROVE  TextBehind(saved[g])' /\ TextBehind(rows[g])' /\ TaskOk(work[g])'
  <2>1. TextBehind(rows[g])'
    <3>1. CASE rows'[g] = rows[g]
      BY <1>2, <3>1 DEF IInv, TextBehind, HasText
    <3> QED
      BY <3>1
  <2>2. TextBehind(saved[g])'
    <3>1. CASE saved'[g] = rows'[g]
      BY <2>1, <3>1 DEF TextBehind, HasText
    <3>2. CASE saved'[g] = saved[g] \/ saved'[g] = rows[g]
      BY <1>2, <3>2 DEF IInv, TextBehind, HasText
    <3> QED
      BY <3>1, <3>2
  <2>3. TaskOk(work[g])'
    <3>1. CASE work'[g] = Idle
      BY <3>1 DEF Idle, TaskOk
    <3>2. CASE work'[g] = work[g]
      BY <1>1, <3>2 DEF IInv, TaskOk
    <3> QED
      BY <3>1, <3>2
  <2> QED
    BY <2>1, <2>2, <2>3
<1> QED
  BY <1>3 DEF IInv

LEMMA BeginKeeps ==
    ASSUME IInv, NEW listing \in SUBSET File, NEW unread \in SUBSET File,
           BeginRun(listing, unread),
           faults' \in [{"unlistable", "unreadable", "extract", "aborts"} -> Nat]
    PROVE  IInv'
<1>1. TypeOK
  BY DEF IInv
<1>2. claims' \in [Name -> File \cup {0}]
  BY DEF BeginRun
<1>3. work' \in [File -> Tasks] /\ \A g \in File : work'[g] = Idle
  BY IdleTyped DEF BeginRun
<1>4. TypeOK'
  BY <1>1, <1>2, <1>3 DEF BeginRun, TypeOK, tree
<1> QED
  BY <1>3, <1>4, MainKeeps DEF BeginRun

LEMMA FinalizeRowKeeps == ASSUME IInv, NEW f \in File, FinalizeRow(f) PROVE IInv'
<1>1. TypeOK /\ TaskOk(work[f])
  BY DEF IInv
<1>2. work[f] \in Tasks
  BY <1>1 DEF TypeOK
<1> DEFINE row == [st |-> work[f].st, hash |-> work[f].hash,
                   path |-> IF work[f].kind = "unchanged" THEN work[f].prior ELSE NoName]
<1>3. row \in Rows /\ Upserts(f, row)
  BY <1>2 DEF FinalizeRow, Rows, Tasks
<1>4. row.st = "extracted" => HasFile(row.path)
  BY <1>1 DEF FinalizeRow, TaskOk
<1>5. (saved' = saved \/ saved' = rows') /\ sinceCommit' \in Nat
  BY <1>1, BatchCounted DEF FinalizeRow
<1> HIDE DEF row
<1>6. rows' \in [File -> Rows] /\ \A g \in File : rows'[g] = rows[g] \/ rows'[g] = row
  BY <1>1, <1>3 DEF Upserts, TypeOK
<1>7. work' \in [File -> Tasks] /\ \A g \in File : work'[g] = work[g] \/ work'[g] = Idle
  BY <1>1, IdleTyped DEF FinalizeRow, Returns, TypeOK
<1>8. TypeOK'
  BY <1>1, <1>5, <1>6, <1>7 DEF FinalizeRow, TypeOK, tree
<1>9. \A g \in File : rows'[g] = rows[g] \/ TextBehind(rows[g])'
  BY <1>4, <1>6 DEF FinalizeRow, TextBehind, HasText, HasFile
<1> QED
  BY <1>5, <1>7, <1>8, <1>9, MainKeeps DEF FinalizeRow

LEMMA WriteTextKeeps == ASSUME IInv, NEW f \in File, WriteText(f) PROVE IInv'
<1>1. TypeOK
  BY DEF IInv
<1>2. work[f].text \in Content /\ work[f].text # "none"
  <2>1. work[f] \in Tasks
    BY <1>1 DEF TypeOK
  <2> QED
    BY <2>1 DEF WriteText, Tasks
<1>3. PICK n \in Name :
          /\ text' = [text EXCEPT ![n] = work[f].text]
          /\ claims' = IF f \in Markdown THEN [claims EXCEPT ![n] = f] ELSE claims
          /\ out' = n
  BY DEF WriteText
<1>4. text' \in [Name -> Content \cup {"none"}] /\ text'[n] # "none"
      /\ \A m \in Name : text[m] # "none" => text'[m] # "none"
  BY <1>1, <1>2, <1>3 DEF TypeOK
<1>5. claims' \in [Name -> File \cup {0}]
  BY <1>1, <1>3 DEF TypeOK
<1>6. TypeOK'
  BY <1>1, <1>3, <1>4, <1>5 DEF WriteText, TypeOK, tree
<1>7. HasFile(out)'
  BY <1>3, <1>4 DEF HasFile
<1> QED
  BY <1>4, <1>6, <1>7, MainKeeps DEF WriteText

LEMMA FinalizeTextKeeps == ASSUME IInv, FinalizeText PROVE IInv'
<1>1. TypeOK /\ HasFile(out)
  BY DEF IInv, FinalizeText
<1> DEFINE row == [st |-> "extracted", hash |-> work[current].hash, path |-> out]
<1>2. row \in Rows /\ Upserts(current, row)
  <2>1. work[current] \in Tasks
    BY <1>1 DEF TypeOK
  <2>2. work[current].hash \in Content \cup {"none"}
    BY <2>1 DEF Tasks
  <2> QED
    BY <1>1, <2>2 DEF FinalizeText, Rows, Statuses, TypeOK
<1>3. row.path = out
  OBVIOUS
<1>4. (saved' = saved \/ saved' = rows') /\ sinceCommit' \in Nat
  BY <1>1, BatchCounted DEF FinalizeText
<1> HIDE DEF row
<1>5. rows' \in [File -> Rows] /\ \A g \in File : rows'[g] = rows[g] \/ rows'[g] = row
  BY <1>1, <1>2 DEF Upserts, TypeOK
<1>6. work' \in [File -> Tasks] /\ \A g \in File : work'[g] = work[g] \/ work'[g] = Idle
  BY <1>1, IdleTyped DEF FinalizeText, Returns, TypeOK
<1>7. TypeOK'
  BY <1>1, <1>4, <1>5, <1>6 DEF FinalizeText, TypeOK, tree
<1>8. \A g \in File : rows'[g] = rows[g] \/ TextBehind(rows[g])'
  BY <1>1, <1>3, <1>5 DEF FinalizeText, TextBehind, HasText, HasFile
<1> QED
  BY <1>4, <1>6, <1>7, <1>8, MainKeeps DEF FinalizeText

LEMMA MarkDeletedKeeps == ASSUME IInv, NEW f \in File, MarkDeleted(f) PROVE IInv'
<1>1. TypeOK
  BY DEF IInv
<1> DEFINE row == [rows[f] EXCEPT !.st = "deleted"]
<1>2. row \in Rows /\ row.st = "deleted" /\ Upserts(f, row)
  <2>1. rows[f] \in Rows
    BY <1>1 DEF TypeOK
  <2> QED
    BY <2>1 DEF MarkDeleted, Rows, Statuses
<1> HIDE DEF row
<1>3. rows' \in [File -> Rows] /\ \A g \in File : rows'[g] = rows[g] \/ rows'[g] = row
  BY <1>1, <1>2 DEF Upserts, TypeOK
<1>4. TypeOK'
  BY <1>1, <1>3 DEF MarkDeleted, TypeOK, tree
<1>5. \A g \in File : rows'[g] = rows[g] \/ TextBehind(rows[g])'
  BY <1>2, <1>3 DEF TextBehind, HasText
<1> QED
  BY <1>4, <1>5, MainKeeps DEF MarkDeleted

LEMMA CommitsKeep == ASSUME IInv, LoopEnds \/ Finish PROVE IInv'
<1>1. TypeOK
  BY DEF IInv
<1>2. queue' \subseteq File
  BY <1>1 DEF LoopEnds, Finish, TypeOK
<1>3. TypeOK'
  BY <1>1, <1>2 DEF LoopEnds, Finish, TypeOK, tree
<1> QED
  BY <1>3, MainKeeps DEF LoopEnds, Finish

LEMMA AbortsKeep ==
    ASSUME IInv, Crash \/ Interrupt \/ \E f \in File : WorkerDies(f) PROVE IInv'
<1>1. TypeOK
  BY DEF IInv
<1>2. faults' \in [{"unlistable", "unreadable", "extract", "aborts"} -> Nat]
  <2>1. faults' = faults \/ Fault("aborts", MaxAborts)
    BY DEF Crash, Interrupt, WorkerDies
  <2> QED
    BY <1>1, <2>1, FaultTyped DEF TypeOK
<1>3. work' \in [File -> Tasks] /\ \A g \in File : work'[g] = Idle
  BY IdleTyped DEF Crash, Interrupt, WorkerDies, Leaves
<1>4. /\ (rows' = saved /\ saved' = saved) \/ (rows' = rows /\ saved' = rows)
      /\ text' = text
  BY DEF Crash, Interrupt, WorkerDies
<1>5. /\ pc' = "idle" /\ queue' = {}
      /\ UNCHANGED <<tree, disturbed, claims, seen, current, out, sinceCommit>>
  BY DEF Crash, Interrupt, WorkerDies, Leaves
<1>6. TypeOK'
  BY <1>1, <1>2, <1>3, <1>4, <1>5 DEF TypeOK, tree
<1>7. \A g \in File : rows'[g] = rows[g] \/ TextBehind(rows[g])'
  BY <1>4 DEF IInv, TextBehind, HasText, HasFile
<1> QED
  BY <1>3, <1>4, <1>5, <1>6, <1>7, MainKeeps

LEMMA EditKeeps == ASSUME IInv, NEW f \in File, Edit(f) PROVE IInv'
<1>1. TypeOK
  BY DEF IInv
<1>2. PICK c \in Content \cup {"absent"} :
          /\ disk' = [disk EXCEPT ![f] = c]
          /\ past' = [past EXCEPT ![f] = @ \cup ({c} \ {"absent"})]
  BY DEF Edit
<1>3. disk' \in [File -> Content \cup {"absent"}] /\ past' \in [File -> SUBSET Content]
  BY <1>1, <1>2 DEF TypeOK
<1>4. edits' \in Nat
  <2>1. edits \in Nat /\ edits' = edits + 1
    BY <1>1 DEF Edit, TypeOK
  <2> QED
    BY <2>1
<1>5. TypeOK'
  BY <1>1, <1>3, <1>4 DEF Edit, TypeOK
<1>6. pc' = "upsert" => HasFile(out)'
  BY DEF Edit, IInv, HasFile
<1> QED
  BY <1>5, <1>6, MainKeeps DEF Edit

LEMMA Inductive == IInv /\ [Next]_vars => IInv'
<1> SUFFICES ASSUME IInv, [Next]_vars PROVE IInv'
  OBVIOUS
<1>1. TypeOK
  BY DEF IInv
<1>2. CASE Start \/ StartUnlistable
  <2>1. faults' \in [{"unlistable", "unreadable", "extract", "aborts"} -> Nat]
    BY <1>1, <1>2, FaultTyped DEF Start, StartUnlistable, TypeOK
  <2>2. PICK listing \in SUBSET File, unread \in SUBSET File :
          BeginRun(listing, unread)
    BY <1>2 DEF Start, StartUnlistable, Present
  <2> QED
    BY <2>1, <2>2, BeginKeeps
<1>3. CASE WorkerStep
  BY <1>3, SubmitKeeps, HashKeeps, ExtractKeeps, AbortsKeep DEF WorkerStep
<1>4. CASE MainStep
  BY <1>4, FinalizeRowKeeps, WriteTextKeeps, FinalizeTextKeeps, MarkDeletedKeeps,
     CommitsKeep DEF MainStep
<1>5. CASE Crash \/ Interrupt
  BY <1>5, AbortsKeep
<1>6. CASE \E f \in File : CannotRead(f) \/ ExtractFails(f) \/ Edit(f)
  BY <1>6, CannotReadKeeps, ExtractFailsKeeps, EditKeeps
<1>7. CASE UNCHANGED vars
  BY <1>1, <1>7 DEF vars, tree, IInv, TypeOK, TextBehind, HasText, HasFile, TaskOk
<1> QED
  BY <1>2, <1>3, <1>4, <1>5, <1>6, <1>7 DEF Next

LEMMA Invariance == Spec => []IInv
  BY InitIInv, Inductive, PTL DEF Spec

-----------------------------------------------------------------------------
(* Names. A file is dealt with once in a run: until then its row is the     *)
(* committed one, and what a worker found in that row is still there when   *)
(* its result is applied.                                                   *)

OwnPath(row, f) ==
    HasText(row) => row.path # NoName /\ (f \notin Markdown => row.path = <<"txt", f>>)

SamePath(old, new) == HasText(old) /\ HasText(new) => new.path = old.path

KnowsPrior(t, row) ==
    /\ t.step = "extract" \/ (t.step = "done" /\ (t.kind = "unchanged" \/ t.text # "none"))
        => t.prior = row.path
    /\ t.step = "done" /\ t.kind = "unchanged" => t.st = row.st

Waiting(f) == f \in queue /\ pc # "stale"

NameInv(f) ==
    /\ OwnPath(saved[f], f) /\ OwnPath(rows[f], f)
    /\ SamePath(saved[f], rows[f])
    /\ Waiting(f) => work[f].step = "none"
    /\ Waiting(f) \/ work[f].step # "none" \/ pc = "idle" => rows[f] = saved[f]
    /\ KnowsPrior(work[f], saved[f])
    /\ pc = "stale" => work[f].step = "none"

OutOK ==
    /\ work[current].step = "done" /\ work[current].text # "none"
    /\ out \in Name
    /\ current \notin Markdown => out = <<"txt", current>>
    /\ current \in Markdown /\ work[current].prior # NoName => out = work[current].prior

NamesInv == (\A f \in File : NameInv(f)) /\ (pc = "upsert" => OutOK)

NamesStay == \A f \in File : SamePath(saved[f], saved'[f])

(* Rows, committed or not, do not change and neither does the run's place.  *)
LEMMA TaskChanges ==
    ASSUME TypeOK, NamesInv, NEW f \in File, NEW task, Returns(f, task),
           pc # "stale", pc = "upsert" => f # current \/ work[f].step # "done",
           UNCHANGED <<saved, rows, pc, current, out>>, queue' \subseteq queue,
           task.step # "none", f \notin queue', rows[f] = saved[f],
           KnowsPrior(task, saved[f])
    PROVE  NamesInv' /\ NamesStay
<1>1. /\ work'[f] = task
      /\ \A g \in File : g # f => work'[g] = work[g]
    BY DEF Returns, TypeOK
<1>2. ASSUME NEW g \in File PROVE NameInv(g)'
  <2>1. CASE g = f
    BY <1>1, <2>1 DEF NamesInv, NameInv, Waiting, OwnPath, SamePath, HasText, KnowsPrior
  <2>2. CASE g # f
    BY <1>1, <2>2 DEF NamesInv, NameInv, Waiting, OwnPath, SamePath, HasText, KnowsPrior
  <2> QED
    BY <2>1, <2>2
<1>3. pc' = "upsert" => OutOK'
    BY <1>1 DEF NamesInv, OutOK, TypeOK
<1> QED
    BY <1>2, <1>3 DEF NamesInv, NamesStay, SamePath

LEMMA WorkersKnowNames ==
    ASSUME IInv, NamesInv, NEW f \in File,
           Submit(f) \/ Hash(f) \/ Extract(f) \/ CannotRead(f) \/ ExtractFails(f)
    PROVE  NamesInv' /\ NamesStay
<1>1. TypeOK /\ NameInv(f)
    BY DEF IInv, NamesInv
<1>2. CASE Submit(f)
  <2> DEFINE task == [Idle EXCEPT !.step = "submitted"]
  <2>1. task.step = "submitted" /\ KnowsPrior(task, saved[f])
    BY DEF Idle, KnowsPrior
  <2>2. Returns(f, task) /\ f \notin queue' /\ pc = "loop" /\ rows[f] = saved[f]
    BY <1>1, <1>2 DEF Submit, NameInv, Waiting
  <2> HIDE DEF task
  <2> QED
    BY <1>1, <1>2, <2>1, <2>2, TaskChanges DEF Submit
<1>3. ASSUME NEW task, Returns(f, task), task.step # "none", KnowsPrior(task, saved[f]),
             work[f].step \in {"submitted", "extract"}, queue' = queue,
             UNCHANGED <<saved, rows, pc, current, out>>
      PROVE  NamesInv' /\ NamesStay
  <2>1. pc # "stale" /\ rows[f] = saved[f] /\ f \notin queue'
    BY <1>1, <1>3 DEF NameInv, Waiting
  <2> QED
    BY <1>1, <1>3, <2>1, TaskChanges
<1>4. CASE Hash(f)
  <2> DEFINE gone == Task("done", "other", "failed", "none", "none", NoName)
             zero == Task("done", "other", "other", "none", "none", NoName)
             same == Task("done", "unchanged", saved[f].st, disk[f], "none", saved[f].path)
             next == Task("extract", "none", "none", disk[f], "none", saved[f].path)
  <2>1. Returns(f, gone) \/ Returns(f, zero) \/ Returns(f, same) \/ Returns(f, next)
    BY <1>4 DEF Hash
  <2>2. /\ gone.step # "none" /\ KnowsPrior(gone, saved[f])
        /\ zero.step # "none" /\ KnowsPrior(zero, saved[f])
        /\ same.step # "none" /\ KnowsPrior(same, saved[f])
        /\ next.step # "none" /\ KnowsPrior(next, saved[f])
    BY DEF Task, KnowsPrior
  <2>3. work[f].step = "submitted" /\ queue' = queue /\ UNCHANGED <<saved, rows, pc, current, out>>
    BY <1>4 DEF Hash
  <2> HIDE DEF gone, zero, same, next
  <2> QED
    BY <1>3, <2>1, <2>2, <2>3
<1>5. CASE CannotRead(f)
  <2> DEFINE task == Task("done", "other", "failed", "none", "none", NoName)
  <2>1. task.step # "none" /\ KnowsPrior(task, saved[f])
    BY DEF Task, KnowsPrior
  <2>2. Returns(f, task)
    BY <1>5 DEF CannotRead
  <2> HIDE DEF task
  <2> QED
    BY <1>3, <1>5, <2>1, <2>2 DEF CannotRead
<1>6. CASE Extract(f) \/ ExtractFails(f)
  <2>1. work[f].step = "extract" /\ work[f].prior = saved[f].path
    BY <1>1, <1>6 DEF Extract, ExtractFails, NameInv, KnowsPrior
  <2>2. PICK st, t : Returns(f, Task("done", "result", st, work[f].hash, t, work[f].prior))
    BY <1>6 DEF Extract, ExtractFails
  <2> DEFINE task == Task("done", "result", st, work[f].hash, t, work[f].prior)
  <2>3. task.step # "none" /\ KnowsPrior(task, saved[f])
    BY <2>1 DEF Task, KnowsPrior
  <2>4. queue' = queue /\ UNCHANGED <<saved, rows, pc, current, out>>
    BY <1>6 DEF Extract, ExtractFails
  <2> HIDE DEF task
  <2> QED
    BY <1>3, <2>1, <2>2, <2>3, <2>4 DEF task
<1> QED
    BY <1>2, <1>4, <1>5, <1>6

(* A result is applied. *)
LEMMA RowReplaced ==
    ASSUME TypeOK, NamesInv, NEW f \in File, NEW row, Upserts(f, row), Returns(f, Idle),
           saved' = saved \/ saved' = rows', work[f].step = "done",
           OwnPath(row, f), SamePath(saved[f], row),
           pc \in {"loop", "upsert"}, pc' = "loop", queue' = queue
    PROVE  NamesInv' /\ NamesStay
<1>1. /\ rows'[f] = row /\ work'[f] = Idle
      /\ \A g \in File : g # f => rows'[g] = rows[g] /\ work'[g] = work[g]
    BY DEF Upserts, Returns, TypeOK
<1>2. f \notin queue
    BY DEF NamesInv, NameInv, Waiting
<1>3. ASSUME NEW g \in File PROVE NameInv(g)' /\ SamePath(saved[g], saved'[g])
  <2>1. CASE g = f
    <3>1. Idle.step = "none" /\ \A r : KnowsPrior(Idle, r)
        BY DEF Idle, KnowsPrior
    <3>2. OwnPath(saved'[f], f) /\ SamePath(saved'[f], row) /\ SamePath(saved[f], saved'[f])
        BY <1>1 DEF NamesInv, NameInv, SamePath
    <3> QED
        BY <1>1, <1>2, <2>1, <3>1, <3>2
        DEF NameInv, Waiting, OwnPath, SamePath, HasText, KnowsPrior
  <2>2. CASE g # f
    <3>1. NameInv(g)
        BY DEF NamesInv
    <3>2. CASE saved' = saved
        BY <1>1, <2>2, <3>1, <3>2
        DEF NameInv, Waiting, OwnPath, SamePath, HasText, KnowsPrior
    <3>3. CASE saved' = rows'
        BY <1>1, <2>2, <3>1, <3>3
        DEF NameInv, Waiting, OwnPath, SamePath, HasText, KnowsPrior
    <3> QED
        BY <3>2, <3>3
  <2> QED
    BY <2>1, <2>2
<1> QED
    BY <1>3 DEF NamesInv, NamesStay

LEMMA FinalizersKeepNames ==
    ASSUME IInv, NamesInv, FinalizeText \/ \E f \in File : FinalizeRow(f)
    PROVE  NamesInv' /\ NamesStay
<1>1. TypeOK
    BY DEF IInv
<1>2. ASSUME NEW f \in File, FinalizeRow(f) PROVE NamesInv' /\ NamesStay
  <2> DEFINE row == [st |-> work[f].st, hash |-> work[f].hash,
                     path |-> IF work[f].kind = "unchanged" THEN work[f].prior ELSE NoName]
  <2>1. HasText(row) => row.path = saved[f].path /\ HasText(saved[f])
    BY <1>2 DEF IInv, TaskOk, FinalizeRow, NamesInv, NameInv, KnowsPrior, HasText
  <2>2. OwnPath(row, f) /\ SamePath(saved[f], row)
    <3> HIDE DEF row
    <3> QED
        BY <2>1 DEF NamesInv, NameInv, OwnPath, SamePath
  <2>3. Upserts(f, row) /\ (saved' = saved \/ saved' = rows')
    BY <1>1, <1>2, BatchCounted DEF FinalizeRow
  <2> HIDE DEF row
  <2> QED
    BY <1>1, <1>2, <2>2, <2>3, RowReplaced DEF FinalizeRow
<1>3. CASE FinalizeText
  <2> DEFINE row == [st |-> "extracted", hash |-> work[current].hash, path |-> out]
  <2>1. current \in File /\ OutOK /\ NameInv(current)
    BY <1>1, <1>3 DEF FinalizeText, NamesInv, TypeOK
  <2>2. out # NoName
    BY <2>1 DEF OutOK, Name, MdName, NoName
  <2>3. OwnPath(row, current) /\ SamePath(saved[current], row)
    <3>1. row.path = out
        OBVIOUS
    <3>2. work[current].prior = saved[current].path
        BY <2>1 DEF OutOK, NameInv, KnowsPrior
    <3> HIDE DEF row
    <3>3. HasText(saved[current]) => out = saved[current].path
        BY <2>1, <3>2 DEF OutOK, NameInv, OwnPath
    <3> QED
        BY <2>1, <2>2, <3>1, <3>3 DEF OwnPath, SamePath, OutOK
  <2>4. Upserts(current, row) /\ (saved' = saved \/ saved' = rows')
    BY <1>1, <1>3, BatchCounted DEF FinalizeText
  <2>5. work[current].step = "done"
    BY <2>1 DEF OutOK
  <2> HIDE DEF row
  <2> QED
    BY <1>1, <1>3, <2>1, <2>3, <2>4, <2>5, RowReplaced DEF FinalizeText
<1> QED
    BY <1>2, <1>3

LEMMA TextIsNamed ==
    ASSUME TypeOK, NamesInv, NEW f \in File, WriteText(f) PROVE NamesInv' /\ NamesStay
<1>1. \A g \in File : NameInv(g)'
    BY DEF WriteText, NamesInv, NameInv, Waiting, OwnPath, SamePath, HasText, KnowsPrior
<1>2. PICK n \in Name : Output(f, n) /\ out' = n
    BY DEF WriteText
<1>3. OutOK'
    BY <1>2 DEF WriteText, OutOK, Output
<1> QED
    BY <1>1, <1>3 DEF NamesInv, NamesStay, SamePath, WriteText

LEMMA RunsKeepNames ==
    ASSUME TypeOK, NamesInv,
           \/ Start \/ StartUnlistable \/ LoopEnds \/ Finish \/ Crash \/ Interrupt
           \/ \E f \in File : MarkDeleted(f) \/ WorkerDies(f) \/ Edit(f)
    PROVE  NamesInv' /\ NamesStay
<1> USE DEF NamesInv, NameInv, Waiting, OwnPath, SamePath, HasText, NamesStay
<1>0. Idle.step = "none" /\ \A r : KnowsPrior(Idle, r)
    BY DEF Idle, KnowsPrior
<1>1. CASE Start \/ StartUnlistable
  <2>1. pc = "idle" /\ pc' = "loop" /\ UNCHANGED <<saved, rows>>
        /\ \A f \in File : work'[f] = Idle
    BY <1>1 DEF Start, StartUnlistable, BeginRun
  <2> QED
    BY <1>0, <2>1
<1>2. CASE LoopEnds
  <2>1. \A f \in File : work[f].step = "none"
    BY <1>2 DEF LoopEnds, InFlight
  <2>2. pc' = "stale" /\ saved' = rows /\ rows' = rows /\ work' = work
    BY <1>2 DEF LoopEnds
  <2> QED
    BY <2>1, <2>2 DEF KnowsPrior
<1>3. CASE Finish
  <2>1. /\ pc = "stale" /\ pc' = "idle" /\ saved' = rows /\ rows' = rows /\ work' = work
        /\ queue' = {}
    BY <1>3 DEF Finish
  <2> QED
    BY <2>1 DEF KnowsPrior
<1>4. CASE Crash \/ Interrupt \/ \E f \in File : WorkerDies(f)
  <2>1. /\ pc' = "idle" /\ queue' = {} /\ \A f \in File : work'[f] = Idle
        /\ (saved' = saved /\ rows' = saved) \/ (saved' = rows /\ rows' = rows)
    BY <1>4 DEF Crash, Interrupt, WorkerDies, Leaves
  <2> QED
    BY <1>0, <2>1
<1>5. ASSUME NEW f \in File, MarkDeleted(f) PROVE NamesInv' /\ NamesStay
  <2>1. /\ pc = "stale" /\ pc' = "stale" /\ saved' = saved /\ work' = work
        /\ rows'[f].st = "deleted" /\ \A g \in File : g # f => rows'[g] = rows[g]
    <3>1. rows[f] \in Rows
        BY DEF TypeOK
    <3> QED
        BY <1>5, <3>1 DEF MarkDeleted, Upserts, TypeOK, Rows
  <2> QED
    BY <2>1
<1>6. ASSUME NEW f \in File, Edit(f) PROVE NamesInv' /\ NamesStay
    BY <1>6 DEF Edit, OutOK, KnowsPrior
<1> QED
    BY <1>1, <1>2, <1>3, <1>4, <1>5, <1>6

LEMMA NamesInductive == ASSUME IInv, NamesInv, [Next]_vars PROVE NamesInv' /\ NamesStay
<1>1. TypeOK
    BY DEF IInv
<1>2. CASE WorkerStep
    BY <1>1, <1>2, WorkersKnowNames, RunsKeepNames DEF WorkerStep
<1>3. CASE MainStep
    BY <1>1, <1>3, FinalizersKeepNames, TextIsNamed, RunsKeepNames DEF MainStep
<1>4. CASE Start \/ StartUnlistable \/ Crash \/ Interrupt
    BY <1>1, <1>4, RunsKeepNames
<1>5. CASE \E f \in File : CannotRead(f) \/ ExtractFails(f) \/ Edit(f)
    BY <1>1, <1>5, WorkersKnowNames, RunsKeepNames
<1>6. CASE UNCHANGED vars
    BY <1>6 DEF vars, NamesInv, NameInv, Waiting, OwnPath, SamePath, HasText, KnowsPrior,
                OutOK, NamesStay
<1> QED
    BY <1>2, <1>3, <1>4, <1>5, <1>6 DEF Next

-----------------------------------------------------------------------------
(* Owners. Where no file comes back, a file whose row is deleted is gone    *)
(* for good, and so its name may go to another; and while results are       *)
(* applied the registry knows the owner of every name that is in a row.     *)

MdNames == {MdName(n) : n \in 1..(Cardinality(File) + 1)}

Gone(f) == disk[f] = "absent" /\ past[f] # {}

RowOwned(row, f) ==
    /\ row.st # "none" => past[f] # {}
    /\ row.st = "deleted" => Gone(f)
    /\ row.path # NoName => row.st \in {"extracted", "deleted"}
    /\ HasText(row) /\ f \in Markdown => row.path \in MdNames

Registered(row, f) == HasText(row) /\ f \in Markdown => claims[row.path] = f

Applying == pc \in {"loop", "upsert"}
Busy(f) == f \in queue \/ work[f].step # "none"

OwnerInv(f) ==
    /\ disk[f] # "absent" => past[f] # {}
    /\ RowOwned(saved[f], f) /\ RowOwned(rows[f], f)
    /\ work[f].step = "done" => work[f].st # "deleted"
    /\ pc = "idle" => work[f].step = "none"
    /\ Applying => /\ Registered(saved[f], f) /\ Registered(rows[f], f)
                   /\ Busy(f) => past[f] # {} /\ saved[f].st # "deleted"
                   /\ f \in seen \/ Busy(f) \/ (rows[f].st # "none" => Gone(f))
    /\ pc = "stale" /\ f \in queue => Gone(f)

OneOwnerOf(table) ==
    \A f, g \in File :
        HasText(table[f]) /\ HasText(table[g]) /\ table[f].path = table[g].path => f = g

OutOwned == current \in Markdown => out \in MdNames /\ claims[out] = current

OwnersInv ==
    /\ \A f \in File : OwnerInv(f)
    /\ OneOwnerOf(saved) /\ OneOwnerOf(rows)
    /\ pc = "upsert" => OutOwned


(* Different names: of Markdown, and of everything else. *)
LEMMA MarkdownNamesDiffer == \A n \in MdNames, f \in File : n # <<"txt", f>> /\ n # NoName
    BY DEF MdNames, MdName, NoName

(* A registry that knows the owner of every name tells the owners apart. *)
LEMMA RegistryTellsApart ==
    ASSUME NEW table, NEW registry,
           \A f \in File : /\ OwnPath(table[f], f)
                           /\ HasText(table[f]) /\ f \in Markdown
                                => table[f].path \in MdNames /\ registry[table[f].path] = f
    PROVE  OneOwnerOf(table)
<1> SUFFICES ASSUME NEW f \in File, NEW g \in File, HasText(table[f]), HasText(table[g]),
                    table[f].path = table[g].path
             PROVE  f = g
    BY DEF OneOwnerOf
<1>1. CASE f \in Markdown /\ g \in Markdown
    BY <1>1
<1>2. CASE f \notin Markdown /\ g \notin Markdown
    BY <1>2 DEF OwnPath
<1>3. ASSUME NEW a \in File, NEW b \in File, HasText(table[a]), HasText(table[b]),
             a \in Markdown, b \notin Markdown
      PROVE  table[a].path # table[b].path
  <2>1. table[a].path \in MdNames /\ table[b].path = <<"txt", b>>
    BY <1>3 DEF OwnPath
  <2> QED
    BY <2>1, MarkdownNamesDiffer
<1> QED
    BY <1>1, <1>2, <1>3

(* A task that goes on: nothing of the tables or the registry changes. *)
LEMMA TaskOwners ==
    ASSUME TypeOK, OwnersInv, NEW f \in File, NEW task, Returns(f, task), Busy(f),
           pc \in {"loop", "upsert"},
           task.step # "none", task.step = "done" => task.st # "deleted",
           UNCHANGED <<disk, past, saved, rows, pc, claims, seen, current, out>>,
           queue' \subseteq queue, queue \subseteq queue' \cup {f}
    PROVE  OwnersInv'
<1>1. work'[f] = task /\ \A g \in File : g # f => work'[g] = work[g]
    BY DEF Returns, TypeOK
<1>2. \A g \in File : Busy(g)' <=> Busy(g)
    BY <1>1 DEF Busy
<1>3. ASSUME NEW g \in File PROVE OwnerInv(g)'
  <2>1. OwnerInv(g)
    BY DEF OwnersInv
  <2>2. work'[g].step = "done" => work'[g].st # "deleted"
    BY <1>1, <2>1 DEF OwnerInv
  <2> QED
    BY <1>2, <2>1, <2>2 DEF OwnerInv, RowOwned, Registered, HasText, Applying, Gone
<1> QED
    BY <1>3 DEF OwnersInv, OneOwnerOf, HasText, OutOwned

LEMMA WorkersKeepOwners ==
    ASSUME IInv, NamesInv, OwnersInv, NEW f \in File,
           Submit(f) \/ Hash(f) \/ Extract(f) \/ CannotRead(f) \/ ExtractFails(f)
    PROVE  OwnersInv'
<1>1. TypeOK /\ NameInv(f) /\ OwnerInv(f)
    BY DEF IInv, NamesInv, OwnersInv
<1>2. CASE Submit(f)
  <2> DEFINE task == [Idle EXCEPT !.step = "submitted"]
  <2>1. task.step = "submitted" /\ Returns(f, task) /\ Busy(f)
    BY <1>2 DEF Idle, Submit, Busy
  <2> HIDE DEF task
  <2> QED
    BY <1>1, <1>2, <2>1, TaskOwners DEF Submit, tree
<1>3. ASSUME NEW task, Returns(f, task), task.step = "done" => task.st # "deleted",
             task.step # "none", work[f].step \in {"submitted", "extract"}, queue' = queue,
             UNCHANGED <<disk, past, saved, rows, pc, claims, seen, current, out>>
      PROVE  OwnersInv'
  <2>1. pc # "stale" /\ pc # "idle"
    BY <1>1, <1>3 DEF NameInv, OwnerInv
  <2>2. pc \in {"loop", "upsert"} /\ Busy(f)
    BY <1>1, <1>3, <2>1 DEF TypeOK, Busy
  <2> QED
    BY <1>1, <1>3, <2>2, TaskOwners
<1>4. CASE Hash(f)
  <2> DEFINE gone == Task("done", "other", "failed", "none", "none", NoName)
             zero == Task("done", "other", "other", "none", "none", NoName)
             same == Task("done", "unchanged", saved[f].st, disk[f], "none", saved[f].path)
             next == Task("extract", "none", "none", disk[f], "none", saved[f].path)
  <2>1. \/ Returns(f, gone) \/ Returns(f, zero) \/ Returns(f, next)
        \/ Returns(f, same) /\ saved[f].st # "deleted"
    BY <1>4 DEF Hash, CanReuse
  <2>2. /\ gone.step = "done" /\ gone.st = "failed"
        /\ zero.step = "done" /\ zero.st = "other"
        /\ same.step = "done" /\ same.st = saved[f].st
        /\ next.step = "extract"
    BY DEF Task
  <2>3. /\ work[f].step = "submitted" /\ queue' = queue
        /\ UNCHANGED <<disk, past, saved, rows, pc, claims, seen, current, out>>
    BY <1>4 DEF Hash, tree
  <2> HIDE DEF gone, zero, same, next
  <2> QED
    BY <1>3, <2>1, <2>2, <2>3
<1>5. CASE CannotRead(f)
  <2> DEFINE task == Task("done", "other", "failed", "none", "none", NoName)
  <2>1. task.step = "done" /\ task.st = "failed"
    BY DEF Task
  <2>2. Returns(f, task)
    BY <1>5 DEF CannotRead
  <2> HIDE DEF task
  <2> QED
    BY <1>3, <1>5, <2>1, <2>2 DEF CannotRead, tree
<1>6. CASE Extract(f) \/ ExtractFails(f)
  <2>1. PICK st \in {"extracted", "failed"}, t \in Content \cup {"none", "absent"} :
            Returns(f, Task("done", "result", st, work[f].hash, t, work[f].prior))
    BY <1>1, <1>6 DEF Extract, ExtractFails, TypeOK
  <2> DEFINE task == Task("done", "result", st, work[f].hash, t, work[f].prior)
  <2>2. task.step = "done" /\ task.st # "deleted" /\ Returns(f, task)
    BY <2>1 DEF Task
  <2>3. /\ work[f].step = "extract" /\ queue' = queue
        /\ UNCHANGED <<disk, past, saved, rows, pc, claims, seen, current, out>>
    BY <1>6 DEF Extract, ExtractFails, tree
  <2> HIDE DEF task
  <2> QED
    BY <1>3, <2>2, <2>3
<1> QED
    BY <1>2, <1>4, <1>5, <1>6

(* A result is applied: its row has no name, the one it had, or one the      *)
(* registry gives it.                                                        *)
LEMMA RowGetsOwner ==
    ASSUME TypeOK, NamesInv, NamesInv', OwnersInv, NEW f \in File, NEW row,
           Upserts(f, row), Returns(f, Idle), work[f].step = "done",
           saved' = saved \/ saved' = rows',
           RowOwned(row, f), Registered(row, f), row.st # "deleted",
           pc \in {"loop", "upsert"}, pc' = "loop", seen' = seen \cup {f},
           UNCHANGED <<disk, past, queue, claims, current, out>>
    PROVE  OwnersInv'
<1>1. /\ rows'[f] = row /\ work'[f] = Idle
      /\ \A g \in File : g # f => rows'[g] = rows[g] /\ work'[g] = work[g]
    BY DEF Upserts, Returns, TypeOK
<1>2. Idle.step = "none"
    BY DEF Idle
<1>3. \A g \in File : RowOwned(rows[g], g)' /\ Registered(rows[g], g)'
    BY <1>1 DEF OwnersInv, OwnerInv, Applying, RowOwned, Registered, Gone, HasText
<1>4. \A g \in File : RowOwned(saved[g], g)' /\ Registered(saved[g], g)'
  <2>1. CASE saved' = saved
    BY <2>1 DEF OwnersInv, OwnerInv, Applying, RowOwned, Registered, Gone, HasText
  <2>2. CASE saved' = rows'
    BY <1>3, <2>2 DEF RowOwned, Registered, Gone, HasText
  <2> QED
    BY <2>1, <2>2
<1>5. ASSUME NEW g \in File PROVE OwnerInv(g)'
  <2>1. OwnerInv(g) /\ Applying
    BY DEF OwnersInv, Applying
  <2>2. work'[g].step = "done" => work'[g].st # "deleted"
    BY <1>1, <1>2, <2>1 DEF OwnerInv
  <2>3. Busy(g)' => Busy(g) /\ g # f
    <3>1. f \notin queue
        BY DEF NamesInv, NameInv, Waiting
    <3> QED
        BY <1>1, <1>2, <3>1 DEF Busy
  <2>4. Busy(g)' => past'[g] # {} /\ saved'[g].st # "deleted"
    <3>1. Busy(g)' => rows[g] = saved[g] /\ g # f
        BY <2>3 DEF NamesInv, NameInv, Waiting, Busy
    <3> QED
        BY <1>1, <2>1, <2>3, <3>1 DEF OwnerInv
  <2>5. g \in seen' \/ Busy(g)' \/ (rows'[g].st # "none" => Gone(g)')
    <3>1. g # f => (Busy(g)' <=> Busy(g))
        BY <1>1 DEF Busy
    <3> QED
        BY <1>1, <2>1, <3>1 DEF OwnerInv, Gone
  <2> QED
    BY <1>3, <1>4, <2>1, <2>2, <2>4, <2>5 DEF OwnerInv, Applying
<1>6. OneOwnerOf(rows)' /\ OneOwnerOf(saved)'
  <2>1. \A g \in File : OwnPath(rows'[g], g) /\ OwnPath(saved'[g], g)
    BY DEF NamesInv, NameInv
  <2>2. OneOwnerOf(rows') /\ OneOwnerOf(saved')
    BY <1>3, <1>4, <2>1, RegistryTellsApart DEF RowOwned, Registered
  <2> QED
    BY <2>2 DEF OneOwnerOf
<1> QED
    BY <1>5, <1>6 DEF OwnersInv

LEMMA FinalizersKeepOwners ==
    ASSUME IInv, NamesInv, NamesInv', OwnersInv,
           FinalizeText \/ \E f \in File : FinalizeRow(f)
    PROVE  OwnersInv'
<1>1. TypeOK
    BY DEF IInv
<1>2. ASSUME NEW f \in File, FinalizeRow(f) PROVE OwnersInv'
  <2> DEFINE row == [st |-> work[f].st, hash |-> work[f].hash,
                     path |-> IF work[f].kind = "unchanged" THEN work[f].prior ELSE NoName]
  <2>1. /\ OwnerInv(f) /\ NameInv(f) /\ TaskOk(work[f])
        /\ pc = "loop" /\ work[f].step = "done" /\ work[f].text = "none"
    BY <1>2 DEF IInv, OwnersInv, NamesInv, FinalizeRow
  <2>2. past[f] # {} /\ row.st # "deleted"
    BY <2>1 DEF OwnerInv, Applying, Busy
  <2>3. \/ row.path = NoName /\ ~HasText(row)
        \/ row.st = saved[f].st /\ row.path = saved[f].path
    BY <2>1 DEF TaskOk, HasText, NameInv, KnowsPrior
  <2>4. RowOwned(row, f) /\ Registered(row, f)
    <3> HIDE DEF row
    <3> QED
        BY <2>1, <2>2, <2>3 DEF OwnerInv, RowOwned, Registered, HasText, Applying
  <2>5. Upserts(f, row) /\ (saved' = saved \/ saved' = rows')
    BY <1>1, <1>2, BatchCounted DEF FinalizeRow
  <2> HIDE DEF row
  <2> QED
    BY <1>1, <1>2, <2>1, <2>2, <2>4, <2>5, RowGetsOwner DEF FinalizeRow, tree
<1>3. CASE FinalizeText
  <2> DEFINE row == [st |-> "extracted", hash |-> work[current].hash, path |-> out]
  <2>1. /\ current \in File /\ OutOK /\ OutOwned /\ OwnerInv(current) /\ pc = "upsert"
    BY <1>1, <1>3 DEF FinalizeText, NamesInv, OwnersInv, TypeOK
  <2>2. work[current].step = "done" /\ past[current] # {}
    BY <2>1 DEF OutOK, OwnerInv, Applying, Busy
  <2>3. row.st = "extracted" /\ row.path = out
    OBVIOUS
  <2>4. Upserts(current, row) /\ (saved' = saved \/ saved' = rows')
    BY <1>1, <1>3, BatchCounted DEF FinalizeText
  <2> HIDE DEF row
  <2>5. RowOwned(row, current) /\ Registered(row, current)
    BY <2>1, <2>2, <2>3 DEF RowOwned, Registered, OutOwned, HasText
  <2> QED
    BY <1>1, <1>3, <2>1, <2>2, <2>3, <2>4, <2>5, RowGetsOwner DEF FinalizeText, tree
<1> QED
    BY <1>2, <1>3

(* A name is taken that the registry has for nobody else. *)
LEMMA NamingKeepsOwners ==
    ASSUME TypeOK, NamesInv, OwnersInv, NEW f \in File, WriteText(f)
    PROVE  OwnersInv'
<1>1. OwnerInv(f) /\ NameInv(f) /\ pc = "loop" /\ work[f].step = "done"
      /\ work[f].text # "none"
    BY DEF OwnersInv, NamesInv, WriteText
<1>2. PICK n \in Name :
          /\ Output(f, n) /\ out' = n
          /\ claims' = IF f \in Markdown THEN [claims EXCEPT ![n] = f] ELSE claims
    BY DEF WriteText
<1>3. f \in Markdown => n \in MdNames /\ claims[n] \in {0, f}
  <2>1. CASE work[f].prior # NoName
    <3>1. work[f].prior = saved[f].path /\ saved[f].st # "deleted"
        BY <1>1 DEF NameInv, KnowsPrior, OwnerInv, Applying, Busy
    <3>2. HasText(saved[f])
        BY <1>1, <2>1, <3>1 DEF OwnerInv, RowOwned, HasText
    <3> QED
        BY <1>1, <1>2, <2>1, <3>1, <3>2
        DEF Output, OwnerInv, RowOwned, Registered, Applying
  <2>2. CASE work[f].prior = NoName
    BY <1>2, <2>2 DEF Output, FirstFree, MdNames
  <2> QED
    BY <2>1, <2>2
<1>4. f \in Markdown => claims'[n] = f
    BY <1>2 DEF TypeOK
<1>5. ASSUME NEW row, NEW g \in File, RowOwned(row, g), Registered(row, g)
      PROVE  Registered(row, g)'
  <2> SUFFICES ASSUME HasText(row), g \in Markdown PROVE claims'[row.path] = g
    BY DEF Registered, HasText
  <2>1. row.path \in Name /\ claims[row.path] = g /\ g # 0
    BY <1>5, FileAssumption DEF Registered, RowOwned, MdNames, Name
  <2>2. CASE f \in Markdown
    BY <1>2, <1>3, <1>4, <2>1, <2>2 DEF TypeOK
  <2>3. CASE f \notin Markdown
    BY <1>2, <2>1, <2>3
  <2> QED
    BY <2>2, <2>3
<1>6. ASSUME NEW g \in File PROVE OwnerInv(g)'
  <2>1. OwnerInv(g) /\ Applying /\ pc' = "upsert"
        /\ UNCHANGED <<disk, past, saved, rows, queue, work, seen>>
    BY <1>1 DEF OwnersInv, Applying, WriteText, tree
  <2>2. Registered(saved[g], g)' /\ Registered(rows[g], g)'
    <3>1. Registered(saved[g], g) /\ Registered(rows[g], g)
        BY <2>1 DEF OwnerInv
    <3> QED
        BY <1>5, <2>1, <3>1 DEF OwnerInv, Registered, HasText
  <2> QED
    BY <2>1, <2>2 DEF OwnerInv, RowOwned, HasText, Gone, Busy
<1>7. OutOwned'
    BY <1>2, <1>3, <1>4 DEF OutOwned, WriteText
<1> QED
    BY <1>6, <1>7 DEF OwnersInv, OneOwnerOf, HasText, WriteText

(* A run begins: whoever has text under a Markdown name is the only one that *)
(* can be entered for it, and every file with a row that is not walked is    *)
(* gone for good.                                                            *)
LEMMA StartKeepsOwners == ASSUME IInv, NamesInv, OwnersInv, Start PROVE OwnersInv'
<1>1. /\ TypeOK /\ pc = "idle" /\ pc' = "loop" /\ queue' = Present
      /\ UNCHANGED <<disk, past, saved, rows>>
      /\ \A f \in File : work'[f].step = "none" /\ rows[f] = saved[f]
    BY DEF IInv, NamesInv, NameInv, Start, BeginRun, tree, Idle
<1>2. ASSUME NEW f \in File PROVE Registered(rows[f], f)'
  <2> SUFFICES ASSUME HasText(rows[f]), f \in Markdown PROVE claims'[rows[f].path] = f
    BY <1>1 DEF Registered, HasText
  <2>1. rows[f].path \in Name /\ rows[f].path # NoName
    BY MarkdownNamesDiffer DEF OwnersInv, OwnerInv, RowOwned, MdNames, Name
  <2>2. f \in ClaimedBy(rows[f].path)
    BY DEF ClaimedBy, Live, HasText
  <2>3. ASSUME NEW g \in ClaimedBy(rows[f].path) PROVE g = f
    <3>1. g \in File /\ HasText(rows[g]) /\ rows[g].path = rows[f].path
        BY <2>1, <2>3 DEF ClaimedBy, Live, HasText, OwnersInv, OwnerInv, RowOwned
    <3> QED
        BY <3>1 DEF OwnersInv, OneOwnerOf
  <2>4. claims'[rows[f].path] \in ClaimedBy(rows[f].path)
    BY <2>1, <2>2 DEF Start, BeginRun
  <2> QED
    BY <2>3, <2>4
<1>3. ASSUME NEW f \in File PROVE OwnerInv(f)'
  <2>1. OwnerInv(f)
    BY DEF OwnersInv
  <2>2. Registered(saved[f], f)' /\ Registered(rows[f], f)'
    BY <1>1, <1>2 DEF Registered, HasText
  <2>3. Busy(f)' <=> disk[f] # "absent"
    BY <1>1 DEF Busy, Present
  <2>4. Busy(f)' => past'[f] # {} /\ saved'[f].st # "deleted"
    BY <1>1, <2>1, <2>3 DEF OwnerInv, RowOwned, Gone
  <2>5. ~Busy(f)' => (rows'[f].st # "none" => Gone(f)')
    BY <1>1, <2>1, <2>3 DEF OwnerInv, RowOwned, Gone
  <2> QED
    BY <1>1, <2>1, <2>2, <2>4, <2>5 DEF OwnerInv, RowOwned, HasText, Gone
<1> QED
    BY <1>1, <1>3 DEF OwnersInv, OneOwnerOf, HasText

(* Of the files with a row, those not met by the end of the run are gone. *)
LEMMA LoopEndKeepsOwners == ASSUME TypeOK, OwnersInv, LoopEnds PROVE OwnersInv'
<1>1. /\ pc = "loop" /\ pc' = "stale" /\ saved' = rows
      /\ UNCHANGED <<disk, past, rows, work>>
      /\ queue' = {f \in File : Live(rows[f])} \ seen
      /\ \A f \in File : ~Busy(f)
    BY DEF LoopEnds, InFlight, Busy, tree
<1>2. ASSUME NEW f \in File PROVE OwnerInv(f)'
    BY <1>1 DEF OwnersInv, OwnerInv, Applying, RowOwned, HasText, Gone, Live
<1> QED
    BY <1>1, <1>2 DEF OwnersInv, OneOwnerOf, HasText

LEMMA MarkingKeepsOwners ==
    ASSUME TypeOK, OwnersInv, NEW f \in File, MarkDeleted(f) PROVE OwnersInv'
<1>1. /\ pc = "stale" /\ pc' = "stale" /\ queue' = queue \ {f} /\ f \in queue
      /\ UNCHANGED <<disk, past, saved, work>>
      /\ \A g \in File : g # f => rows'[g] = rows[g]
    BY DEF MarkDeleted, Upserts, tree, TypeOK
<1>2. rows'[f].st = "deleted" /\ rows'[f].path = rows[f].path
  <2>1. rows[f] \in Rows
    BY DEF TypeOK
  <2> QED
    BY <2>1 DEF MarkDeleted, Upserts, TypeOK, Rows
<1>3. Gone(f)
    BY <1>1 DEF OwnersInv, OwnerInv
<1>4. ASSUME NEW g \in File PROVE OwnerInv(g)'
    BY <1>1, <1>2, <1>3 DEF OwnersInv, OwnerInv, Applying, RowOwned, HasText, Gone
<1>5. OneOwnerOf(rows)' /\ OneOwnerOf(saved)'
    BY <1>1, <1>2 DEF OwnersInv, OneOwnerOf, HasText
<1> QED
    BY <1>1, <1>4, <1>5 DEF OwnersInv

LEMMA EndsKeepOwners ==
    ASSUME TypeOK, NamesInv, OwnersInv,
           Finish \/ Crash \/ Interrupt \/ \E f \in File : WorkerDies(f)
    PROVE  OwnersInv'
<1>1. /\ pc' = "idle" /\ UNCHANGED <<disk, past>>
      /\ (saved' = saved /\ rows' = saved) \/ (saved' = rows /\ rows' = rows)
      /\ \A f \in File : work'[f].step = "none"
    BY DEF Finish, Crash, Interrupt, WorkerDies, Leaves, tree, Idle, NamesInv, NameInv
<1>2. ASSUME NEW f \in File PROVE OwnerInv(f)'
    BY <1>1 DEF OwnersInv, OwnerInv, Applying, RowOwned, HasText, Gone
<1> QED
    BY <1>1, <1>2 DEF OwnersInv, OneOwnerOf, HasText

(* A file that is gone for good stays away. *)
LEMMA EditKeepsOwners ==
    ASSUME TypeOK, OwnersInv, MayReturn = FALSE, NEW f \in File, Edit(f) PROVE OwnersInv'
<1>1. UNCHANGED <<saved, rows, pc, queue, work, claims, seen, current, out>>
    BY DEF Edit
<1>2. \A g \in File : Gone(g) => Gone(g)'
    BY DEF Edit, Gone, TypeOK
<1>3. \A g \in File : past[g] # {} => past'[g] # {}
    BY DEF Edit, TypeOK
<1>4. \A g \in File : disk'[g] # "absent" => disk[g] # "absent" \/ past'[g] # {}
    BY DEF Edit, TypeOK
<1>5. ASSUME NEW g \in File PROVE OwnerInv(g)'
    BY <1>1, <1>2, <1>3, <1>4
    DEF OwnersInv, OwnerInv, Applying, RowOwned, Registered, HasText, Busy
<1> QED
    BY <1>1, <1>5 DEF OwnersInv, OneOwnerOf, HasText, OutOwned

LEMMA OwnersInductive ==
    ASSUME IInv, NamesInv, OwnersInv, MayReturn = FALSE, MaxUnlistable = 0, [Next]_vars
    PROVE  OwnersInv'
<1>1. TypeOK /\ NamesInv'
    BY NamesInductive DEF IInv
<1>2. ~StartUnlistable
  <2>1. faults["unlistable"] \in Nat
    BY <1>1 DEF TypeOK
  <2> QED
    BY <2>1 DEF StartUnlistable, Fault
<1>3. CASE WorkerStep
    BY <1>1, <1>3, WorkersKeepOwners, EndsKeepOwners DEF WorkerStep
<1>4. CASE MainStep
    BY <1>1, <1>4, FinalizersKeepOwners, NamingKeepsOwners, MarkingKeepsOwners,
       LoopEndKeepsOwners, EndsKeepOwners DEF MainStep
<1>5. CASE Start \/ Crash \/ Interrupt
    BY <1>1, <1>5, StartKeepsOwners, EndsKeepOwners
<1>6. CASE \E f \in File : CannotRead(f) \/ ExtractFails(f) \/ Edit(f)
    BY <1>1, <1>6, WorkersKeepOwners, EditKeepsOwners
<1>7. CASE UNCHANGED vars
    BY <1>7 DEF vars, tree, OwnersInv, OwnerInv, Applying, RowOwned, Registered, HasText,
                Gone, Busy, OneOwnerOf, OutOwned
<1> QED
    BY <1>2, <1>3, <1>4, <1>5, <1>6, <1>7 DEF Next

-----------------------------------------------------------------------------
(* Agreement. Where no file goes back to contents it has had, what a row    *)
(* says of a file's contents is right, or those contents are not coming     *)
(* back; a file that is at rest is met once and its row then agrees.        *)

Outdated(f) == HasText(saved[f]) => saved[f].hash # disk[f]

RowRight(row, f) ==
    /\ row.hash \in past[f] \cup {"none"}
    /\ HasText(row) => row.hash # "none"
    /\ row.st = "other" => row.hash = "none"
    /\ row.hash = disk[f] =>
          /\ HasText(row) => disk[f] \notin Bad /\ text[row.path] = disk[f]
          /\ row.st = "failed" => disk[f] \in Bad \/ faults.extract > 0

TaskRight(t, f) ==
    /\ t.step = "extract" => t.hash \in past[f] \ Empty /\ Outdated(f)
    /\ t.step = "done" => t.kind \in {"other", "unchanged", "result"}
    /\ t.step = "done" /\ t.kind = "other" =>
          t.hash = "none" /\ t.text = "none" /\ t.st \in {"failed", "other"}
    /\ t.step = "done" /\ t.kind = "unchanged" =>
          /\ t.hash = saved[f].hash /\ t.hash \in past[f] \ Empty
          /\ t.text = "none" /\ t.st \in {"extracted", "failed"}
          /\ t.st = "failed" => f \notin Readme
    /\ t.step = "done" /\ t.kind = "result" =>
          /\ t.hash \in past[f] \ Empty /\ Outdated(f)
          /\ t.text = "none" =>
                /\ t.st = "failed"
                /\ t.hash = disk[f] => disk[f] \in Bad \/ faults.extract > 0
          /\ t.text # "none" =>
                /\ t.st = "extracted"
                /\ t.hash = disk[f] => t.text = disk[f] /\ disk[f] \notin Bad

(* Of a file at rest: *)
AtRest(t, f) ==
    /\ t.step = "extract" => t.hash = disk[f]
    /\ t.step = "done" =>
          /\ t.kind = "other" => t.st = "other" /\ disk[f] \in Empty
          /\ t.kind # "other" => t.hash = disk[f]
          /\ t.kind = "result" /\ t.text = "none" => disk[f] \in Bad

Agrees(row, f) ==
    /\ disk[f] = "absent" => ~Live(row)
    /\ disk[f] \in Empty => row.st = "other"
    /\ disk[f] \in Bad => row.st = "failed"
    /\ disk[f] \in Extractable =>
          \/ HasText(row) /\ row.hash = disk[f] /\ text[row.path] = disk[f]
          \/ NotRetried(row, f, disk[f])

Met(f) ==
    /\ Applying => IF disk[f] = "absent" THEN ~Busy(f) ELSE Busy(f) \/ f \in seen
    /\ pc = "stale" => IF disk[f] = "absent" THEN f \in queue \/ ~Live(rows[f])
                                             ELSE f \in seen
    /\ pc # "idle" /\ disk[f] = "absent" => f \notin seen
    /\ pc # "idle" /\ f \in seen => Agrees(rows[f], f)

Agreeing(f) ==
    /\ disk[f] # "absent" => disk[f] \in past[f]
    /\ RowRight(saved[f], f) /\ RowRight(rows[f], f)
    /\ TaskRight(work[f], f)
    /\ pc # "idle" /\ f \in seen => ~Busy(f)
    /\ f \notin disturbed => AtRest(work[f], f) /\ Met(f)

AgreeInv ==
    /\ \A f \in File : Agreeing(f)
    /\ pc = "upsert" => text[out] = work[current].text

(* A worker goes on with a file. *)
LEMMA TaskAgrees ==
    ASSUME TypeOK, AgreeInv, NEW f \in File, NEW task, Returns(f, task),
           Busy(f), task.step # "none", pc \in {"loop", "upsert"},
           pc = "upsert" => f # current,
           UNCHANGED <<disk, past, text, saved, rows, pc, seen, current, out>>,
           queue' \subseteq queue, queue \subseteq queue' \cup {f},
           disturbed \subseteq disturbed',
           faults.extract > 0 => faults'.extract > 0,
           TaskRight(task, f)', f \notin disturbed' => AtRest(task, f)
    PROVE  AgreeInv'
<1>1. work'[f] = task /\ \A g \in File : g # f => work'[g] = work[g]
    BY DEF Returns, TypeOK
<1>2. \A g \in File : Busy(g)' <=> Busy(g)
    BY <1>1 DEF Busy
<1>3. ASSUME NEW g \in File PROVE Agreeing(g)'
  <2>1. Agreeing(g)
    BY DEF AgreeInv
  <2>2. RowRight(saved[g], g)' /\ RowRight(rows[g], g)'
    BY <2>1 DEF Agreeing, RowRight, HasText
  <2>3. TaskRight(work[g], g)'
    <3>1. CASE g = f
        BY <1>1, <3>1 DEF TaskRight, Outdated, HasText
    <3>2. CASE g # f
        BY <1>1, <2>1, <3>2 DEF Agreeing, TaskRight, Outdated, HasText
    <3> QED
        BY <3>1, <3>2
  <2>4. g \notin disturbed' => AtRest(work[g], g)'
    <3>1. CASE g = f
        BY <1>1, <3>1 DEF AtRest
    <3>2. CASE g # f
        BY <1>1, <2>1, <3>2 DEF Agreeing, AtRest
    <3> QED
        BY <3>1, <3>2
  <2>5. g \notin disturbed' => Met(g)'
    BY <1>2, <2>1 DEF Agreeing, Met, Applying, Agrees, Live, HasText, NotRetried
  <2> QED
    BY <1>2, <2>1, <2>2, <2>3, <2>4, <2>5 DEF Agreeing
<1> QED
    BY <1>1, <1>3 DEF AgreeInv, TypeOK

(* Each step of a worker, in the terms of TaskAgrees. *)
LEMMA WorkersAgree ==
    ASSUME IInv, NamesInv, OwnersInv, AgreeInv, NEW f \in File,
           Submit(f) \/ Hash(f) \/ Extract(f) \/ CannotRead(f) \/ ExtractFails(f)
    PROVE  AgreeInv'
<1>1. /\ TypeOK /\ NameInv(f) /\ OwnerInv(f) /\ Agreeing(f)
      /\ pc = "upsert" => work[current].step = "done"
    BY DEF IInv, NamesInv, OwnersInv, AgreeInv, OutOK
<1>2. UNCHANGED <<disk, past, text, saved, rows, pc, seen, current, out>>
    BY DEF Submit, Hash, Extract, CannotRead, ExtractFails, tree
<1>3. /\ Busy(f) /\ pc \in {"loop", "upsert"} /\ (pc = "upsert" => f # current)
      /\ f \notin disturbed => disk[f] # "absent"
  <2>1. Busy(f)
    BY DEF Submit, Hash, Extract, CannotRead, ExtractFails, Busy
  <2>2. pc = "upsert" => f # current
    BY <1>1 DEF Submit, Hash, Extract, CannotRead, ExtractFails
  <2>3. pc \in {"loop", "upsert"}
    BY <1>1 DEF Submit, Hash, Extract, CannotRead, ExtractFails, OwnerInv, NameInv, TypeOK
  <2> QED
    BY <1>1, <2>1, <2>2, <2>3 DEF Agreeing, Met, Applying
<1>4. /\ queue' \subseteq queue /\ queue \subseteq queue' \cup {f}
      /\ disturbed \subseteq disturbed'
    BY DEF Submit, Hash, Extract, CannotRead, ExtractFails
<1>5. faults.extract > 0 => faults'.extract > 0
  <2>1. faults.extract \in Nat
    BY <1>1 DEF TypeOK
  <2> QED
    BY <1>1, <2>1 DEF Submit, Hash, Extract, CannotRead, ExtractFails, Fault, TypeOK
<1>6. saved[f] \in Rows /\ disk[f] \in Content \cup {"absent"} /\ work[f] \in Tasks
    BY <1>1 DEF TypeOK
<1> SUFFICES ASSUME NEW task, Returns(f, task), task.step # "none",
                    f \notin disturbed' => AtRest(task, f), TaskRight(task, f)'
             PROVE  AgreeInv'
  <2>1. ASSUME NEW task, Returns(f, task), task.step # "none",
               TaskRight(task, f)', f \notin disturbed' => AtRest(task, f)
        PROVE  AgreeInv'
    BY <2>1
  <2>2. CASE Submit(f)
    <3> DEFINE new == [Idle EXCEPT !.step = "submitted"]
    <3>1. Returns(f, new)
        BY <2>2 DEF Submit
    <3>2. new.step = "submitted"
        BY DEF Idle
    <3>3. PICK task : task = new
        OBVIOUS
    <3> HIDE DEF new
    <3>4. TaskRight(task, f)' /\ AtRest(task, f)
        BY <3>2, <3>3 DEF TaskRight, AtRest
    <3> QED
        BY <2>1, <3>1, <3>2, <3>3, <3>4
  <2>3. CASE Hash(f)
    <3>1. PICK gone : gone = Task("done", "other", "failed", "none", "none", NoName)
        OBVIOUS
    <3>2. PICK zero : zero = Task("done", "other", "other", "none", "none", NoName)
        OBVIOUS
    <3>3. PICK same : same = Task("done", "unchanged", saved[f].st, disk[f], "none",
                                  saved[f].path)
        OBVIOUS
    <3>4. PICK next : next = Task("extract", "none", "none", disk[f], "none", saved[f].path)
        OBVIOUS
    <3>5. \/ disk[f] = "absent" /\ Returns(f, gone)
          \/ disk[f] \in Empty /\ Returns(f, zero)
          \/ disk[f] \notin Empty \cup {"absent"} /\ CanReuse(f, disk[f]) /\ Returns(f, same)
          \/ disk[f] \notin Empty \cup {"absent"} /\ ~CanReuse(f, disk[f])
             /\ Returns(f, next)
        BY <2>3, <3>1, <3>2, <3>3, <3>4 DEF Hash
    <3>6. CASE disk[f] = "absent" /\ Returns(f, gone)
        <4>1. gone.step # "none" /\ TaskRight(gone, f)'
            BY <3>1 DEF Task, TaskRight
        <4>2. f \in disturbed'
            BY <1>3, <1>4, <3>6
        <4> QED
            BY <2>1, <3>6, <4>1, <4>2
    <3>7. CASE disk[f] \in Empty /\ Returns(f, zero)
        <4>1. zero.step # "none" /\ TaskRight(zero, f)'
            BY <3>2 DEF Task, TaskRight
        <4>2. AtRest(zero, f)
            BY <3>2, <3>7 DEF Task, AtRest
        <4> QED
            BY <2>1, <3>7, <4>1, <4>2
    <3>8. CASE disk[f] \notin Empty \cup {"absent"} /\ CanReuse(f, disk[f])
               /\ Returns(f, same)
        <4>1. disk[f] \in past[f] \ Empty /\ disk[f] # "none"
            BY <1>1, <1>6, <3>8, ContentAssumption DEF Agreeing
        <4>2. /\ saved[f].hash = disk[f]
              /\ saved[f].st \in {"extracted", "failed"}
              /\ saved[f].st = "failed" => f \notin Readme
            BY <1>1, <1>6, <3>8, <4>1 DEF CanReuse, Rows, Statuses, Agreeing, RowRight
        <4>3. same.step # "none" /\ TaskRight(same, f)'
            BY <1>2, <3>3, <4>1, <4>2 DEF Task, TaskRight
        <4>4. AtRest(same, f)
            BY <3>3 DEF Task, AtRest
        <4> QED
            BY <2>1, <3>8, <4>3, <4>4
    <3>9. CASE disk[f] \notin Empty \cup {"absent"} /\ ~CanReuse(f, disk[f])
               /\ Returns(f, next)
        <4>1. disk[f] \in past[f] \ Empty
            BY <1>1, <3>9 DEF Agreeing
        <4>2. Outdated(f)'
            BY <1>2, <3>9 DEF CanReuse, Outdated, HasText
        <4>3. next.step # "none" /\ TaskRight(next, f)'
            BY <1>2, <3>4, <4>1, <4>2 DEF Task, TaskRight
        <4>4. AtRest(next, f)
            BY <3>4 DEF Task, AtRest
        <4> QED
            BY <2>1, <3>9, <4>3, <4>4
    <3> QED
        BY <3>5, <3>6, <3>7, <3>8, <3>9
  <2>4. CASE CannotRead(f)
    <3>1. PICK task : task = Task("done", "other", "failed", "none", "none", NoName)
        OBVIOUS
    <3>2. task.step # "none" /\ TaskRight(task, f)' /\ f \in disturbed'
        BY <2>4, <3>1 DEF CannotRead, Task, TaskRight
    <3> QED
        BY <2>1, <2>4, <3>1, <3>2 DEF CannotRead
  <2>5. CASE ExtractFails(f)
    <3>1. PICK task : task = Task("done", "result", "failed", work[f].hash, "none",
                                  work[f].prior)
        OBVIOUS
    <3>2. faults'.extract > 0
        <4>1. faults.extract \in Nat
            BY <1>1 DEF TypeOK
        <4> QED
            BY <1>1, <2>5, <4>1 DEF ExtractFails, Fault, TypeOK
    <3>3. work[f].hash \in past[f] \ Empty /\ Outdated(f)'
        BY <1>1, <1>2, <2>5 DEF ExtractFails, Agreeing, TaskRight, Outdated, HasText
    <3>4. task.step # "none" /\ TaskRight(task, f)' /\ f \in disturbed'
        BY <1>2, <2>5, <3>1, <3>2, <3>3 DEF ExtractFails, Task, TaskRight
    <3> QED
        BY <2>1, <2>5, <3>1, <3>4 DEF ExtractFails
  <2>6. CASE Extract(f)
    <3>1. work[f].hash \in past[f] \ Empty /\ Outdated(f)' /\ disk[f] # "none"
        BY <1>1, <1>2, <1>6, <2>6, ContentAssumption
           DEF Extract, Agreeing, TaskRight, Outdated, HasText
    <3>2. f \notin disturbed => work[f].hash = disk[f]
        BY <1>1, <2>6 DEF Extract, Agreeing, AtRest
    <3>3. work[f].hash # "absent"
        BY <1>1, <3>1, ContentAssumption DEF TypeOK
    <3>4. CASE disk[f] \notin Bad \cup {"absent"}
        <4>1. PICK task : task = Task("done", "result", "extracted", work[f].hash, disk[f],
                                      work[f].prior)
            OBVIOUS
        <4>2. Returns(f, task)
            BY <2>6, <3>4, <4>1 DEF Extract
        <4>3. task.step # "none" /\ TaskRight(task, f)'
            BY <1>2, <3>1, <3>4, <4>1 DEF Task, TaskRight
        <4>4. f \notin disturbed' => AtRest(task, f)
            BY <1>4, <3>1, <3>2, <4>1 DEF Task, AtRest
        <4> QED
            BY <2>1, <4>2, <4>3, <4>4
    <3>5. CASE disk[f] \in Bad \cup {"absent"}
        <4>1. PICK task : task = Task("done", "result", "failed", work[f].hash, "none",
                                      work[f].prior)
            OBVIOUS
        <4>2. Returns(f, task)
            BY <2>6, <3>5, <4>1 DEF Extract
        <4>3. task.step # "none" /\ TaskRight(task, f)'
            BY <1>2, <3>1, <3>3, <3>5, <4>1 DEF Task, TaskRight
        <4>4. f \notin disturbed' => AtRest(task, f)
            BY <1>3, <1>4, <3>2, <3>5, <4>1 DEF Task, AtRest
        <4> QED
            BY <2>1, <4>2, <4>3, <4>4
    <3> QED
        BY <3>4, <3>5
  <2> QED
    BY <2>2, <2>3, <2>4, <2>5, <2>6
<1> QED
    BY <1>1, <1>2, <1>3, <1>4, <1>5, TaskAgrees

(* A result is applied. *)
LEMMA RowAgrees ==
    ASSUME TypeOK, NamesInv, AgreeInv, NEW f \in File, NEW row,
           Upserts(f, row), Returns(f, Idle), work[f].step = "done",
           saved' = saved \/ saved' = rows',
           RowRight(row, f), f \notin disturbed => Agrees(row, f),
           pc \in {"loop", "upsert"}, pc' = "loop", seen' = seen \cup {f},
           UNCHANGED <<disk, past, disturbed, text, queue, current, out, faults>>
    PROVE  AgreeInv'
<1>1. /\ rows'[f] = row /\ work'[f] = Idle
      /\ \A g \in File : g # f => rows'[g] = rows[g] /\ work'[g] = work[g]
    BY DEF Upserts, Returns, TypeOK
<1>2. Idle.step = "none"
    BY DEF Idle
<1>3. f \notin queue
    BY DEF NamesInv, NameInv, Waiting
<1>4. \A g \in File : RowRight(rows[g], g)'
    BY <1>1 DEF AgreeInv, Agreeing, RowRight, HasText
<1>5. \A g \in File : RowRight(saved[g], g)'
  <2>1. CASE saved' = saved
    BY <2>1 DEF AgreeInv, Agreeing, RowRight, HasText
  <2>2. CASE saved' = rows'
    BY <1>4, <2>2 DEF RowRight, HasText
  <2> QED
    BY <2>1, <2>2
<1>6. ASSUME NEW g \in File PROVE Agreeing(g)'
  <2>1. Agreeing(g)
    BY DEF AgreeInv
  <2>2. g # f => (Busy(g)' <=> Busy(g))
    BY <1>1 DEF Busy
  <2>3. ~Busy(f)'
    BY <1>1, <1>2, <1>3 DEF Busy
  <2>4. TaskRight(work[g], g)'
    <3>1. CASE g = f
        BY <1>1, <1>2, <3>1 DEF TaskRight
    <3>2. CASE g # f /\ work[g].step = "none"
        BY <1>1, <3>2 DEF TaskRight
    <3>3. CASE g # f /\ work[g].step # "none"
        <4>1. saved'[g] = saved[g]
            BY <1>1, <3>3 DEF NamesInv, NameInv
        <4> QED
            BY <1>1, <2>1, <3>3, <4>1 DEF Agreeing, TaskRight, Outdated, HasText
    <3> QED
        BY <3>1, <3>2, <3>3
  <2>5. g \notin disturbed' => AtRest(work[g], g)' /\ Met(g)'
    <3>1. CASE g = f
        <4>1. g \notin disturbed' => Agrees(rows[g], g)'
            BY <1>1, <3>1 DEF Agrees, Live, HasText, NotRetried
        <4>2. g \notin disturbed => disk[g] # "absent"
            BY <2>1, <3>1 DEF Agreeing, Met, Applying, Busy
        <4> QED
            BY <1>1, <1>2, <2>1, <2>3, <3>1, <4>1, <4>2
               DEF Agreeing, AtRest, Met, Applying
    <3>2. CASE g # f
        <4>1. g \notin disturbed => Met(g) /\ AtRest(work[g], g)
            BY <2>1 DEF Agreeing
        <4>2. Agrees(rows[g], g)' <=> Agrees(rows[g], g)
            BY <1>1, <3>2 DEF Agrees, Live, HasText, NotRetried
        <4> QED
            BY <1>1, <2>2, <3>2, <4>1, <4>2 DEF AtRest, Met, Applying
    <3> QED
        BY <3>1, <3>2
  <2>6. pc' # "idle" /\ g \in seen' => ~Busy(g)'
    BY <2>1, <2>2, <2>3 DEF Agreeing
  <2> QED
    BY <1>4, <1>5, <2>1, <2>4, <2>5, <2>6 DEF Agreeing
<1> QED
    BY <1>6 DEF AgreeInv

LEMMA FinalizersAgree ==
    ASSUME IInv, NamesInv, AgreeInv, FinalizeText \/ \E f \in File : FinalizeRow(f)
    PROVE  AgreeInv'
<1>1. TypeOK
    BY DEF IInv
<1>2. ASSUME NEW f \in File, FinalizeRow(f) PROVE AgreeInv'
  <2>1. PICK row : row = [st |-> work[f].st, hash |-> work[f].hash,
                          path |-> IF work[f].kind = "unchanged" THEN work[f].prior
                                   ELSE NoName]
    OBVIOUS
  <2>2. /\ pc = "loop" /\ work[f].step = "done" /\ work[f].text = "none"
        /\ work[f].kind \in {"other", "unchanged", "result"}
        /\ Agreeing(f) /\ NameInv(f) /\ TaskOk(work[f])
    BY <1>2 DEF FinalizeRow, IInv, NamesInv, AgreeInv, Agreeing, TaskRight
  <2>3. f \notin disturbed => disk[f] # "absent"
    BY <2>2 DEF Agreeing, Met, Applying, Busy
  <2>4. disk[f] \in Content \cup {"absent"} /\ "none" \notin Content
    BY <1>1, ContentAssumption DEF TypeOK
  <2>5. /\ disk[f] \in Empty => disk[f] \notin Bad
        /\ disk[f] \in Extractable => disk[f] \notin Bad \cup Empty
        /\ disk[f] \in Bad \cup Extractable \cup Empty => disk[f] # "absent"
    BY ContentAssumption DEF Extractable
  <2>6. RowRight(row, f) /\ (f \notin disturbed => Agrees(row, f))
    <3>1. CASE work[f].kind = "other"
        <4>1. row.hash = "none" /\ row.st \in {"failed", "other"}
            BY <2>1, <2>2, <3>1 DEF Agreeing, TaskRight
        <4>2. f \notin disturbed => row.st = "other" /\ disk[f] \in Empty
            BY <2>1, <2>2, <3>1 DEF Agreeing, AtRest
        <4> QED
            BY <2>4, <2>5, <4>1, <4>2, ContentAssumption DEF RowRight, Agrees, HasText
    <3>2. CASE work[f].kind = "unchanged"
        <4>1. /\ row.hash = saved[f].hash /\ row.st = saved[f].st /\ row.path = saved[f].path
              /\ row.hash \notin Empty /\ row.st \in {"extracted", "failed"}
              /\ row.st = "failed" => f \notin Readme
            BY <2>1, <2>2, <3>2 DEF Agreeing, TaskRight, NameInv, KnowsPrior
        <4>2. RowRight(row, f)
            BY <2>2, <4>1 DEF Agreeing, RowRight, HasText
        <4>3. f \notin disturbed => row.hash = disk[f]
            BY <2>1, <2>2, <3>2 DEF Agreeing, AtRest
        <4> QED
            BY <2>3, <2>5, <4>1, <4>2, <4>3 DEF RowRight, Agrees, HasText, NotRetried
    <3>3. CASE work[f].kind = "result"
        <4>1. /\ row.hash \in past[f] \ Empty /\ row.st = "failed"
              /\ row.hash = disk[f] => disk[f] \in Bad \/ faults.extract > 0
            BY <2>1, <2>2, <3>3 DEF Agreeing, TaskRight
        <4>2. f \notin disturbed => row.hash = disk[f] /\ disk[f] \in Bad
            BY <2>1, <2>2, <3>3 DEF Agreeing, AtRest
        <4> QED
            BY <2>5, <4>1, <4>2 DEF RowRight, Agrees, HasText
    <3> QED
        BY <2>2, <3>1, <3>2, <3>3
  <2>7. Upserts(f, row) /\ (saved' = saved \/ saved' = rows')
    BY <1>1, <1>2, <2>1, BatchCounted DEF FinalizeRow
  <2> QED
    BY <1>1, <1>2, <2>2, <2>6, <2>7, RowAgrees DEF FinalizeRow, tree
<1>3. CASE FinalizeText
  <2>1. PICK row : row = [st |-> "extracted", hash |-> work[current].hash, path |-> out]
    OBVIOUS
  <2>2. /\ current \in File /\ Agreeing(current) /\ OutOK /\ pc = "upsert"
        /\ text[out] = work[current].text
    BY <1>1, <1>3 DEF FinalizeText, NamesInv, AgreeInv, TypeOK
  <2>3. /\ work[current].step = "done" /\ work[current].kind = "result"
        /\ work[current].text # "none"
    BY <2>2 DEF OutOK, Agreeing, TaskRight
  <2>4. /\ row.hash \in past[current] \ Empty /\ row.st = "extracted"
        /\ row.hash # "none"
        /\ row.hash = disk[current] => text[row.path] = disk[current] /\ disk[current] \notin Bad
    <3>1. past[current] \subseteq Content
        BY <1>1, <2>2 DEF TypeOK
    <3> QED
        BY <2>1, <2>2, <2>3, <3>1, ContentAssumption DEF Agreeing, TaskRight
  <2>5. current \notin disturbed => row.hash = disk[current] /\ disk[current] # "absent"
    BY <2>1, <2>2, <2>3 DEF Agreeing, AtRest, Met, Applying, Busy
  <2>6. RowRight(row, current) /\ (current \notin disturbed => Agrees(row, current))
    BY <2>4, <2>5 DEF RowRight, Agrees, HasText
  <2>7. Upserts(current, row) /\ (saved' = saved \/ saved' = rows')
    BY <1>1, <1>3, <2>1, BatchCounted DEF FinalizeText
  <2> QED
    BY <1>1, <1>3, <2>2, <2>3, <2>6, <2>7, RowAgrees DEF FinalizeText, tree
<1> QED
    BY <1>2, <1>3

(* The text of one file replaces that of no other, and its own only when    *)
(* the contents the row speaks of are gone.                                 *)
LEMMA WritingAgrees ==
    ASSUME IInv, NamesInv, OwnersInv, OwnersInv', AgreeInv, NEW f \in File, WriteText(f)
    PROVE  AgreeInv'
<1>1. /\ TypeOK /\ NameInv(f) /\ Agreeing(f) /\ OwnerInv(f)
      /\ pc = "loop" /\ work[f].step = "done" /\ work[f].text # "none"
    BY DEF IInv, NamesInv, AgreeInv, OwnersInv, WriteText
<1>2. PICK n \in Name :
          /\ Output(f, n) /\ out' = n
          /\ text' = [text EXCEPT ![n] = work[f].text]
          /\ claims' = IF f \in Markdown THEN [claims EXCEPT ![n] = f] ELSE claims
    BY DEF WriteText
<1>3. /\ UNCHANGED <<disk, past, disturbed, saved, rows, queue, work, seen, faults>>
      /\ current' = f /\ pc' = "upsert"
    BY DEF WriteText, tree
<1>4. text'[n] = work[f].text /\ \A m : m # n => text'[m] = text[m]
    BY <1>1, <1>2 DEF TypeOK
<1>5. work[f].kind = "result" /\ Outdated(f) /\ rows[f] = saved[f]
    BY <1>1 DEF Agreeing, TaskRight, NameInv
<1>6. ASSUME NEW g \in File, g # f, NEW row, OwnPath(row, g), RowOwned(row, g),
             Registered(row, g)', HasText(row)
      PROVE  row.path # n
  <2>1. CASE f \in Markdown /\ g \in Markdown
    <3>1. claims'[n] = f
        BY <1>1, <1>2, <2>1 DEF TypeOK
    <3> QED
        BY <1>6, <2>1, <3>1 DEF Registered, HasText
  <2>2. CASE f \notin Markdown /\ g \notin Markdown
    BY <1>2, <1>6, <2>2 DEF Output, OwnPath
  <2>3. CASE f \in Markdown /\ g \notin Markdown
    <3>1. n \in MdNames
        BY <1>2, <1>3, <2>3 DEF OwnersInv, OutOwned
    <3> QED
        BY <1>6, <2>3, <3>1, MarkdownNamesDiffer DEF OwnPath
  <2>4. CASE f \notin Markdown /\ g \in Markdown
    <3>1. row.path \in MdNames
        BY <1>6, <2>4 DEF RowOwned
    <3> QED
        BY <1>2, <2>4, <3>1, MarkdownNamesDiffer DEF Output
  <2> QED
    BY <2>1, <2>2, <2>3, <2>4
<1>7. ASSUME NEW g \in File, g # f
      PROVE  /\ HasText(saved[g]) => text'[saved[g].path] = text[saved[g].path]
             /\ HasText(rows[g]) => text'[rows[g].path] = text[rows[g].path]
  <2>1. /\ OwnPath(saved[g], g) /\ RowOwned(saved[g], g) /\ Registered(saved[g], g)'
        /\ OwnPath(rows[g], g) /\ RowOwned(rows[g], g) /\ Registered(rows[g], g)'
    <3>1. NameInv(g) /\ OwnerInv(g) /\ OwnerInv(g)' /\ Applying'
        BY <1>3 DEF NamesInv, OwnersInv, Applying
    <3> QED
        BY <1>3, <3>1 DEF NameInv, OwnerInv, Registered, HasText
  <2>2. PICK s : s = saved[g]
    OBVIOUS
  <2>3. PICK r : r = rows[g]
    OBVIOUS
  <2>4. Registered(s, g)' /\ Registered(r, g)'
    BY <1>3, <2>1, <2>2, <2>3 DEF Registered, HasText
  <2> QED
    BY <1>4, <1>6, <1>7, <2>1, <2>2, <2>3, <2>4
<1>8. ASSUME NEW g \in File PROVE Agreeing(g)'
  <2>1. Agreeing(g)
    BY DEF AgreeInv
  <2>2. RowRight(saved[g], g)' /\ RowRight(rows[g], g)'
    <3>1. CASE g = f
        BY <1>3, <1>5, <2>1, <3>1 DEF Agreeing, RowRight, Outdated, HasText
    <3>2. CASE g # f
        BY <1>3, <1>7, <2>1, <3>2 DEF Agreeing, RowRight, HasText
    <3> QED
        BY <3>1, <3>2
  <2>3. TaskRight(work[g], g)'
    BY <1>3, <2>1 DEF Agreeing, TaskRight, Outdated, HasText
  <2>4. g \notin disturbed' => AtRest(work[g], g)'
    BY <1>3, <2>1 DEF Agreeing, AtRest
  <2>5. g \in seen => g # f
    BY <1>1, <2>1 DEF Agreeing, Busy
  <2>6. g \notin disturbed' => Met(g)'
    <3>1. ASSUME g \in seen, Agrees(rows[g], g) PROVE Agrees(rows[g], g)'
        BY <1>3, <1>7, <2>5, <3>1 DEF Agrees, Live, HasText, NotRetried
    <3>2. g \notin disturbed => Met(g)
        BY <2>1 DEF Agreeing
    <3> QED
        BY <1>1, <1>3, <3>1, <3>2 DEF Met, Applying, Busy
  <2> QED
    BY <1>1, <1>3, <2>1, <2>2, <2>3, <2>4, <2>6 DEF Agreeing, Busy
<1>9. text'[out'] = work'[current'].text
    BY <1>2, <1>3, <1>4
<1> QED
    BY <1>8, <1>9 DEF AgreeInv

(* The run begins, ends or marks a row. *)
LEMMA StartAgrees == ASSUME IInv, AgreeInv, Start PROVE AgreeInv'
<1>1. /\ UNCHANGED <<disk, past, text, saved, rows, faults>> /\ pc' = "loop"
      /\ queue' = Present /\ seen' = {} /\ \A f \in File : work'[f] = Idle
    BY DEF Start, BeginRun, tree
<1>2. Idle.step = "none"
    BY DEF Idle
<1>3. ASSUME NEW f \in File PROVE Agreeing(f)'
  <2>1. Agreeing(f)
    BY DEF AgreeInv
  <2>2. RowRight(saved[f], f)' /\ RowRight(rows[f], f)'
    BY <1>1, <2>1 DEF Agreeing, RowRight, HasText
  <2>3. TaskRight(work[f], f)' /\ AtRest(work[f], f)'
    BY <1>1, <1>2 DEF TaskRight, AtRest
  <2>4. Met(f)'
    BY <1>1, <1>2 DEF Met, Busy, Present
  <2> QED
    BY <1>1, <2>1, <2>2, <2>3, <2>4 DEF Agreeing
<1> QED
    BY <1>1, <1>3 DEF AgreeInv

LEMMA LoopEndAgrees == ASSUME NamesInv, AgreeInv, LoopEnds PROVE AgreeInv'
<1>1. /\ pc = "loop" /\ pc' = "stale" /\ saved' = rows /\ queue = {}
      /\ UNCHANGED <<disk, past, text, disturbed, rows, work, seen, faults>>
      /\ queue' = {f \in File : Live(rows[f])} \ seen
      /\ \A f \in File : work[f].step = "none"
    BY DEF LoopEnds, InFlight, tree
<1>2. ASSUME NEW f \in File PROVE Agreeing(f)'
  <2>1. Agreeing(f) /\ ~Busy(f)
    BY <1>1 DEF AgreeInv, Busy
  <2>2. RowRight(saved[f], f)' /\ RowRight(rows[f], f)'
    BY <1>1, <2>1 DEF Agreeing, RowRight, HasText
  <2>3. TaskRight(work[f], f)' /\ AtRest(work[f], f)'
    BY <1>1 DEF TaskRight, AtRest
  <2>4. f \in seen => ~Busy(f)'
    BY <1>1 DEF Busy
  <2>5. f \notin disturbed => Met(f)'
    <3>1. Agrees(rows[f], f)' <=> Agrees(rows[f], f)
        BY <1>1 DEF Agrees, Live, HasText, NotRetried
    <3> QED
        BY <1>1, <2>1, <3>1 DEF Agreeing, Met, Applying, Live
  <2> QED
    BY <1>1, <2>1, <2>2, <2>3, <2>4, <2>5 DEF Agreeing
<1> QED
    BY <1>1, <1>2 DEF AgreeInv

LEMMA MarkingAgrees ==
    ASSUME TypeOK, AgreeInv, NEW f \in File, MarkDeleted(f) PROVE AgreeInv'
<1>1. /\ pc = "stale" /\ pc' = "stale" /\ queue' = queue \ {f} /\ f \in queue
      /\ UNCHANGED <<disk, past, text, disturbed, saved, work, seen, faults>>
      /\ \A g \in File : g # f => rows'[g] = rows[g]
    BY DEF MarkDeleted, Upserts, tree, TypeOK
<1>2. rows'[f].st = "deleted" /\ rows'[f].hash = rows[f].hash
  <2>1. rows[f] \in Rows
    BY DEF TypeOK
  <2> QED
    BY <2>1 DEF MarkDeleted, Upserts, TypeOK, Rows
<1>3. ASSUME NEW g \in File PROVE Agreeing(g)'
  <2>1. Agreeing(g)
    BY DEF AgreeInv
  <2>2. RowRight(saved[g], g)'
    BY <1>1, <2>1 DEF Agreeing, RowRight, HasText
  <2>3. RowRight(rows[g], g)'
    BY <1>1, <1>2, <2>1 DEF Agreeing, RowRight, HasText
  <2>4. TaskRight(work[g], g)' /\ (g \notin disturbed' => AtRest(work[g], g)')
    BY <1>1, <2>1 DEF Agreeing, TaskRight, Outdated, HasText, AtRest
  <2>5. g \in seen => g # f /\ ~Busy(g)'
    BY <1>1, <2>1 DEF Agreeing, Busy
  <2>6. g \notin disturbed => Met(g)'
    <3>1. CASE g = f
        BY <1>1, <1>2, <2>1, <2>5, <3>1 DEF Agreeing, Met, Applying, Live
    <3>2. CASE g # f
        <4>1. Agrees(rows[g], g)' <=> Agrees(rows[g], g)
            BY <1>1, <3>2 DEF Agrees, Live, HasText, NotRetried
        <4> QED
            BY <1>1, <2>1, <3>2, <4>1 DEF Agreeing, Met, Applying
    <3> QED
        BY <3>1, <3>2
  <2> QED
    BY <1>1, <2>1, <2>2, <2>3, <2>4, <2>5, <2>6 DEF Agreeing
<1> QED
    BY <1>1, <1>3 DEF AgreeInv

LEMMA EndsAgree ==
    ASSUME TypeOK, NamesInv, AgreeInv,
           Finish \/ Crash \/ Interrupt \/ \E f \in File : WorkerDies(f)
    PROVE  AgreeInv'
<1>1. /\ pc' = "idle" /\ UNCHANGED <<disk, past, text, disturbed>>
      /\ (saved' = saved /\ rows' = saved) \/ (saved' = rows /\ rows' = rows)
      /\ \A f \in File : work'[f].step = "none"
    BY DEF Finish, Crash, Interrupt, WorkerDies, Leaves, tree, Idle, NamesInv, NameInv
<1>2. faults'.extract = faults.extract
    BY DEF Finish, Crash, Interrupt, WorkerDies, Fault, TypeOK
<1>3. ASSUME NEW f \in File PROVE Agreeing(f)'
  <2>1. Agreeing(f)
    BY DEF AgreeInv
  <2>2. RowRight(saved[f], f)' /\ RowRight(rows[f], f)'
    BY <1>1, <1>2, <2>1 DEF Agreeing, RowRight, HasText
  <2>3. TaskRight(work[f], f)' /\ AtRest(work[f], f)' /\ Met(f)'
    BY <1>1 DEF TaskRight, AtRest, Met, Applying
  <2> QED
    BY <1>1, <2>1, <2>2, <2>3 DEF Agreeing
<1> QED
    BY <1>1, <1>3 DEF AgreeInv

(* New contents are none that a row or a task speaks of. *)
LEMMA EditAgrees ==
    ASSUME TypeOK, AgreeInv, MayRevert = FALSE, NEW f \in File, Edit(f) PROVE AgreeInv'
<1>1. /\ UNCHANGED <<text, saved, rows, pc, queue, work, seen, current, out, faults>>
      /\ disturbed' = disturbed \cup {f}
    BY DEF Edit
<1>2. PICK c \in Content \cup {"absent"} :
          /\ c \notin past[f] /\ disk' = [disk EXCEPT ![f] = c]
          /\ past' = [past EXCEPT ![f] = @ \cup ({c} \ {"absent"})]
    BY DEF Edit
<1>3. /\ disk'[f] = c /\ past'[f] = past[f] \cup ({c} \ {"absent"}) /\ c # "none"
      /\ \A g \in File : g # f => disk'[g] = disk[g] /\ past'[g] = past[g]
    BY <1>2, ContentAssumption DEF TypeOK
<1>4. ASSUME NEW g \in File PROVE Agreeing(g)'
  <2>1. Agreeing(g)
    BY DEF AgreeInv
  <2>2. CASE g = f
    <3>1. RowRight(saved[g], g)' /\ RowRight(rows[g], g)'
        BY <1>1, <1>2, <1>3, <2>1, <2>2 DEF Agreeing, RowRight, HasText
    <3>2. Outdated(g)'
        BY <1>1, <1>2, <1>3, <2>1, <2>2 DEF Agreeing, RowRight, Outdated, HasText
    <3>3. TaskRight(work[g], g)'
        BY <1>1, <1>2, <1>3, <2>1, <2>2, <3>2 DEF Agreeing, TaskRight
    <3> QED
        BY <1>1, <1>3, <2>1, <2>2, <3>1, <3>3 DEF Agreeing, Busy
  <2>3. CASE g # f
    <3>1. RowRight(saved[g], g)' /\ RowRight(rows[g], g)'
        BY <1>1, <1>3, <2>1, <2>3 DEF Agreeing, RowRight, HasText
    <3>2. TaskRight(work[g], g)'
        BY <1>1, <1>3, <2>1, <2>3 DEF Agreeing, TaskRight, Outdated, HasText
    <3>3. g \notin disturbed => AtRest(work[g], g)' /\ Met(g)'
        BY <1>1, <1>3, <2>1, <2>3
           DEF Agreeing, AtRest, Met, Applying, Busy, Agrees, Live, HasText, NotRetried
    <3> QED
        BY <1>1, <1>3, <2>1, <2>3, <3>1, <3>2, <3>3 DEF Agreeing, Busy
  <2> QED
    BY <2>2, <2>3
<1> QED
    BY <1>1, <1>4 DEF AgreeInv

LEMMA AgreeInductive ==
    ASSUME IInv, NamesInv, OwnersInv, AgreeInv,
           MayReturn = FALSE, MaxUnlistable = 0, MayRevert = FALSE, [Next]_vars
    PROVE  AgreeInv'
<1>1. TypeOK /\ OwnersInv'
    BY OwnersInductive DEF IInv
<1>2. ~StartUnlistable
  <2>1. faults["unlistable"] \in Nat
    BY <1>1 DEF TypeOK
  <2> QED
    BY <2>1 DEF StartUnlistable, Fault
<1>3. CASE WorkerStep
    BY <1>1, <1>3, WorkersAgree, EndsAgree DEF WorkerStep
<1>4. CASE MainStep
    BY <1>1, <1>4, FinalizersAgree, WritingAgrees, MarkingAgrees, LoopEndAgrees, EndsAgree
       DEF MainStep
<1>5. CASE Start \/ Crash \/ Interrupt
    BY <1>1, <1>5, StartAgrees, EndsAgree
<1>6. CASE \E f \in File : CannotRead(f) \/ ExtractFails(f) \/ Edit(f)
    BY <1>1, <1>6, WorkersAgree, EditAgrees
<1>7. CASE UNCHANGED vars
    BY <1>7 DEF vars, AgreeInv, Agreeing, RowRight, TaskRight, Outdated, AtRest, Met, Agrees,
                Applying, Busy, Live, HasText, NotRetried
<1> QED
    BY <1>2, <1>3, <1>4, <1>5, <1>6, <1>7 DEF Next

-----------------------------------------------------------------------------
(* Theorems. *)

(* Every variable keeps its type. *)
THEOREM TypeCorrect == Spec => []TypeOK
  BY Invariance, PTL DEF IInv

(* A committed row that promises text has a text file, whenever a run was     *)
(* killed, left, or its worker pool broke (ingest/pipeline.py:291-298).       *)
THEOREM TextIsThere == Spec => []TextExists
<1>1. IInv => TextExists
  BY DEF IInv, TextExists, TextBehind, HasFile
<1> QED
  BY <1>1, Invariance, PTL

(* An extracted file keeps the name of its text from run to run, whichever   *)
(* files come and go and however runs end (ingest/pipeline.py:82-95).        *)
THEOREM NamesAreKept == Spec => NameKept
<1>1. Init => NamesInv
    BY DEF Init, NamesInv, NameInv, Waiting, OwnPath, SamePath, HasText, KnowsPrior, NoRow,
           Idle
<1>2. IInv /\ NamesInv /\ [Next]_vars =>
        /\ NamesInv'
        /\ [\A f \in File : HasText(saved[f]) /\ HasText(saved'[f])
                                => saved'[f].path = saved[f].path]_vars
    BY NamesInductive DEF NamesStay, SamePath
<1> QED
    BY <1>1, <1>2, Invariance, PTL DEF Spec, NameKept

(* No two files share a text file, whatever order results arrive in and     *)
(* however runs end, as long as every run lists the directory and no file   *)
(* comes back once it was removed (ingest/pipeline.py:63-75).               *)
THEOREM OneOwnerKept ==
    ASSUME MayReturn = FALSE, MaxUnlistable = 0 PROVE Spec => []OneOwner
<1>1. Init => NamesInv
    BY DEF Init, NamesInv, NameInv, Waiting, OwnPath, SamePath, HasText, KnowsPrior, NoRow,
           Idle
<1>2. Init => OwnersInv
    BY DEF Init, OwnersInv, OwnerInv, Applying, RowOwned, HasText, OneOwnerOf, NoRow, Idle
<1>3. IInv /\ NamesInv /\ [Next]_vars => NamesInv'
    BY NamesInductive
<1>4. IInv /\ NamesInv /\ OwnersInv /\ [Next]_vars => OwnersInv'
    BY OwnersInductive
<1>5. OwnersInv => OneOwner
    BY DEF OwnersInv, OneOwnerOf, OneOwner
<1> QED
    BY <1>1, <1>2, <1>3, <1>4, <1>5, Invariance, PTL DEF Spec

(* A completed run leaves every file at rest reflected in its row and text,   *)
(* in whatever order results arrive and whatever became of earlier runs, as   *)
(* long as every run lists the directory and no file comes back or goes back  *)
(* to contents it has had (ingest/pipeline.py:245, 291-298).                  *)
THEOREM CleanRunsAgree ==
    ASSUME MayReturn = FALSE, MaxUnlistable = 0, MayRevert = FALSE
    PROVE  Spec => CleanRunAgrees
<1>1. Init => NamesInv
    BY DEF Init, NamesInv, NameInv, Waiting, OwnPath, SamePath, HasText, KnowsPrior, NoRow,
           Idle
<1>2. Init => OwnersInv
    BY DEF Init, OwnersInv, OwnerInv, Applying, RowOwned, HasText, OneOwnerOf, NoRow, Idle
<1>3. Init => AgreeInv
    BY ContentAssumption
       DEF Init, AgreeInv, Agreeing, RowRight, TaskRight, AtRest, Met, Applying, HasText,
           NoRow, Idle
<1>4. IInv /\ NamesInv /\ [Next]_vars => NamesInv'
    BY NamesInductive
<1>5. IInv /\ NamesInv /\ OwnersInv /\ [Next]_vars => OwnersInv'
    BY OwnersInductive
<1>6. IInv /\ NamesInv /\ OwnersInv /\ AgreeInv /\ [Next]_vars => AgreeInv'
    BY AgreeInductive
<1>7. IInv /\ AgreeInv =>
        [RunEnds => \A f \in File \ disturbed : Reflects(saved'[f], f, disk[f])]_vars
  <2> SUFFICES ASSUME IInv, AgreeInv, RunEnds, NEW f \in File \ disturbed
               PROVE  Reflects(rows[f], f, disk[f])
    BY DEF RunEnds
  <2>1. Agrees(rows[f], f)
    <3>1. Met(f) /\ pc = "stale" /\ queue = {}
        BY DEF AgreeInv, Agreeing, RunEnds
    <3>2. disk[f] = "absent" => disk[f] \notin Empty \cup Bad \cup Extractable
        BY ContentAssumption DEF Extractable
    <3> QED
        BY <3>1, <3>2 DEF Met, Agrees
  <2>2. /\ disk[f] \in Empty => disk[f] \notin Bad \cup Extractable
        /\ disk[f] \in Bad => disk[f] \notin Extractable
        /\ disk[f] = "absent" => disk[f] \notin Empty \cup Bad \cup Extractable
    BY ContentAssumption DEF Extractable
  <2> QED
    BY <2>1, <2>2 DEF Reflects, Agrees
<1> QED
    BY <1>1, <1>2, <1>3, <1>4, <1>5, <1>6, <1>7, Invariance, PTL DEF Spec, CleanRunAgrees
=============================================================================

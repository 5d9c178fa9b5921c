--------------------------- MODULE ChunkingProofs ---------------------------
(***************************************************************************)
(* Safety of Chunking for every set of files, every splitting of contents, *)
(* every commit batch and every number of aborted runs.                    *)
(***************************************************************************)
EXTENDS Chunking, TLAPS

(* Live rows of a file are of one version and distinct positions. *)
Consistent(R) ==
    \A f \in File : \A r, s \in LiveOf(R, f) :
        r.hash = s.hash /\ (r.part = s.part => r = s)

Waiting == queue \cup DOMAIN results  \* files the main process has not applied

(* While new rows are inserted, the file's live rows are those inserted so  *)
(* far.                                                                     *)
InsertOK ==
    pc = "insert" =>
        /\ doc[current] \in Hash
        /\ current \notin Waiting
        /\ \A r \in LiveOf(rows, current) : r.hash = doc[current] /\ r.part \notin todo

(* Files of the loop are eligible, submitted once, and their rows in the    *)
(* transaction are the committed ones until they are applied.               *)
LoopOK ==
    pc \in {"loop", "insert"} =>
        /\ Waiting \subseteq Eligible
        /\ queue \cap DOMAIN results = {}
        /\ \A r \in rows \cup saved :
              r.file \in Waiting => r \in rows /\ r \in saved

(* Nobody is about to rewrite rows that are current. *)
CurrentOK ==
    pc # "idle" =>
        \A f \in File :
            /\ \A r \in LiveOf(saved, f) : r.hash = doc[f] =>
                  r \in rows /\ ~(pc = "insert" /\ current = f)
            /\ pc \in {"loop", "insert"} /\ f \in DOMAIN results /\ results[f] = "chunked"
                  => \A r \in LiveOf(rows, f) : r.hash # doc[f]

(* The inductive invariant. *)
CInv ==
    /\ TypeOK
    /\ Consistent(saved)
    /\ Consistent(rows)
    /\ InsertOK
    /\ LoopOK
    /\ CurrentOK
    /\ pc = "idle" => rows = saved
    /\ pc = "stale" => queue \subseteq {f \in File : doc[f] = "deleted"}
-----------------------------------------------------------------------------
(* Only the status changes. *)
LEMMA WithStatusRow ==
    ASSUME NEW r \in Row, NEW s \in {"pending", "embedded", "deleted"}
    PROVE  /\ WithStatus(r, s) \in Row
           /\ WithStatus(r, s).st = s
           /\ WithStatus(r, s).file = r.file
           /\ WithStatus(r, s).hash = r.hash
           /\ WithStatus(r, s).part = r.part
BY DEF WithStatus, Row

(* Soft-deleting a file's rows leaves rows, takes its live ones away and no *)
(* other.                                                                   *)
LEMMA MarkDeletedRows ==
    ASSUME NEW R \in SUBSET Row, NEW f \in File
    PROVE  MarkDeleted(R, f) \subseteq Row
BY WithStatusRow DEF MarkDeleted

LEMMA MarkDeletedLive ==
    ASSUME NEW R \in SUBSET Row, NEW f \in File, NEW r
    PROVE  r \in MarkDeleted(R, f) /\ IsLive(r)
               <=> r \in R /\ IsLive(r) /\ r.file # f
BY WithStatusRow DEF MarkDeleted, IsLive

LEMMA MarkDeletedKeeps ==
    ASSUME NEW R \in SUBSET Row, NEW f \in File, NEW r, r.file # f
    PROVE  r \in MarkDeleted(R, f) <=> r \in R
BY WithStatusRow DEF MarkDeleted

LEMMA MarkDeletedConsistent ==
    ASSUME NEW R \in SUBSET Row, NEW f \in File, Consistent(R)
    PROVE  Consistent(MarkDeleted(R, f))
BY MarkDeletedLive DEF Consistent, LiveOf

LEMMA CInvInit == Init => CInv
BY ContentAssumption
   DEF Init, CInv, TypeOK, Consistent, LiveOf, InsertOK, LoopOK, CurrentOK,
       Ineligible

(* A worker hands in its result: the file moves from the queue to results. *)
LEMMA WorkerStep ==
    ASSUME CInv, NEW f \in File, CanSubmit(f), NEW o \in Outcomes,
           o = "chunked" => ~IsUnchanged(f), Returns(f, o),
           readErrors' \subseteq File,
           faults' \in [{"crashes", "interrupts", "reads"} -> Nat]
    PROVE  CInv'
<1> USE DEF CanSubmit, Returns
<1>1. /\ DOMAIN results' = DOMAIN results \cup {f}
      /\ results'[f] = o
      /\ \A g \in DOMAIN results : g # f => results'[g] = results[g]
    OBVIOUS
<1>2. TypeOK'
    BY <1>1 DEF CInv, TypeOK
<1>3. Waiting' = Waiting
    BY <1>1 DEF Waiting
<1>4. Consistent(saved)' /\ Consistent(rows)' /\ InsertOK'
    BY <1>3 DEF CInv, Consistent, LiveOf, InsertOK
<1>5. LoopOK'
    BY <1>1, <1>3 DEF CInv, LoopOK, Eligible
<1>6. CurrentOK'
    <2>1. ASSUME NEW r \in LiveOf(rows, f), r.hash = doc[f]
          PROVE  IsUnchanged(f)
        <3>1. r \in LiveOf(saved, f)
            BY <2>1 DEF CInv, LoopOK, LiveOf, Waiting
        <3> QED
            BY <2>1, <3>1 DEF CInv, Consistent, IsUnchanged, LiveHashes
    <2> QED
        BY <1>1, <2>1 DEF CInv, CurrentOK, LiveOf
<1> QED
    BY <1>2, <1>3, <1>4, <1>5, <1>6 DEF CInv

(* The main process takes a result that changes no row. *)
LEMMA ApplyOtherStep ==
    ASSUME CInv, NEW f \in File, ApplyOther(f)
    PROVE  CInv'
<1> USE DEF ApplyOther
<1>1. /\ DOMAIN results' = DOMAIN results \ {f}
      /\ \A g \in DOMAIN results' : results'[g] = results[g]
    BY DEF Take
<1>2. /\ saved' = rows \/ saved' = saved
      /\ sinceCommit' \in Nat
    BY DEF CountFile, CInv, TypeOK
<1>3. TypeOK'
    BY <1>1, <1>2 DEF CInv, TypeOK
<1>4. Waiting' \subseteq Waiting
    BY <1>1 DEF Waiting
<1>5. Consistent(saved)' /\ Consistent(rows)' /\ InsertOK'
    BY <1>2 DEF CInv, Consistent, LiveOf, InsertOK
<1>6. LoopOK'
    BY <1>1, <1>2, <1>4 DEF CInv, LoopOK, Eligible
<1>7. CurrentOK'
    BY <1>1, <1>2 DEF CInv, CurrentOK, LiveOf
<1> QED
    BY <1>3, <1>5, <1>6, <1>7 DEF CInv

(* The prior rows of a file are soft-deleted to make room for its new ones. *)
LEMMA ApplyChunkedStep ==
    ASSUME CInv, NEW f \in File, ApplyChunked(f)
    PROVE  CInv'
<1> USE DEF ApplyChunked
<1>1. /\ DOMAIN results' = DOMAIN results \ {f}
      /\ \A g \in DOMAIN results' : results'[g] = results[g]
    BY DEF Take
<1>2. /\ f \notin Waiting'
      /\ Waiting' \subseteq Waiting
      /\ f \in Eligible
      /\ doc[f] \in Hash
    BY <1>1 DEF CInv, LoopOK, Waiting, Eligible
<1>3. rows \in SUBSET Row
    BY DEF CInv, TypeOK
<1>4. TypeOK'
    BY <1>1, <1>2, <1>3, MarkDeletedRows, ContentAssumption DEF CInv, TypeOK
<1>5. Consistent(saved)' /\ Consistent(rows)'
    BY <1>3, MarkDeletedConsistent DEF CInv, Consistent, LiveOf
<1>6. InsertOK'
    BY <1>2, <1>3, MarkDeletedLive DEF InsertOK, LiveOf
<1>7. LoopOK'
    BY <1>1, <1>2, <1>3, MarkDeletedKeeps DEF CInv, LoopOK, Eligible
<1>8. CurrentOK'
    <2>1. \A r \in LiveOf(rows, f) : r.hash # doc[f]
        BY DEF CInv, CurrentOK
    <2>2. \A r \in LiveOf(saved, f) : r.hash # doc[f]
        BY <2>1 DEF CInv, CurrentOK, LiveOf
    <2>3. \A g \in File : \A r \in LiveOf(saved, g) :
              g # f => (r \in rows <=> r \in rows')
        BY <1>3, MarkDeletedKeeps DEF LiveOf
    <2>4. \A g \in File : LiveOf(rows', g) \subseteq LiveOf(rows, g)
        BY <1>3, MarkDeletedLive DEF LiveOf
    <2> QED
        BY <1>1, <2>2, <2>3, <2>4 DEF CInv, CurrentOK, LiveOf
<1> QED
    BY <1>4, <1>5, <1>6, <1>7, <1>8 DEF CInv

LEMMA MarkStaleStep ==
    ASSUME CInv, NEW f \in File, MarkStale(f)
    PROVE  CInv'
<1> USE DEF MarkStale
<1>1. rows \in SUBSET Row /\ doc[f] \notin Hash
    BY ContentAssumption DEF CInv, TypeOK, Ineligible
<1>2. TypeOK'
    BY <1>1, MarkDeletedRows DEF CInv, TypeOK
<1>3. Consistent(saved)' /\ Consistent(rows)'
    BY <1>1, MarkDeletedConsistent DEF CInv, Consistent, LiveOf
<1>4. CurrentOK'
    <2>1. \A r \in LiveOf(saved, f) : r.hash # doc[f]
        BY <1>1 DEF CInv, TypeOK, LiveOf, Row
    <2>2. \A g \in File : \A r \in LiveOf(saved, g) :
              g # f => (r \in rows <=> r \in rows')
        BY <1>1, MarkDeletedKeeps DEF LiveOf
    <2> QED
        BY <2>1, <2>2 DEF CInv, CurrentOK, LiveOf
<1> QED
    BY <1>2, <1>3, <1>4 DEF CInv, InsertOK, LoopOK

(* One new row, at a position that has no live row yet. *)
LEMMA InsertStep ==
    ASSUME CInv, InsertChunk
    PROVE  CInv'
<1>1. PICK p \in todo, s \in 0..Cardinality(rows) :
          /\ rows' = rows \cup {[file |-> current, hash |-> doc[current],
                                 part |-> p, salt |-> s, st |-> "pending"]}
          /\ todo' = todo \ {p}
    BY DEF InsertChunk
<1> DEFINE new == [file |-> current, hash |-> doc[current],
                   part |-> p, salt |-> s, st |-> "pending"]
<1>2. /\ pc = "insert" /\ pc' = "insert"
      /\ UNCHANGED <<doc, saved, queue, results, current, sinceCommit,
                     readErrors, edits, faults>>
    BY DEF InsertChunk
<1>3. /\ doc[current] \in Hash
      /\ current \in File \ Waiting
      /\ p \in Nat
    BY <1>2 DEF CInv, InsertOK, TypeOK
<1>4. \A g \in File : LiveOf(rows', g) \subseteq
          LiveOf(rows, g) \cup (IF g = current THEN {new} ELSE {})
    BY <1>1 DEF LiveOf
<1>5. TypeOK'
    <2>1. s \in Nat
        OBVIOUS
    <2>2. new \in Row
        BY <1>3, <2>1 DEF Row
    <2> QED
        BY <1>1, <1>2, <2>2 DEF CInv, TypeOK
<1>6. Consistent(saved)' /\ InsertOK'
    BY <1>1, <1>2, <1>3, <1>4 DEF CInv, Consistent, InsertOK, LiveOf, Waiting
<1>7. Consistent(rows)'
    BY <1>2, <1>3, <1>4 DEF CInv, Consistent, InsertOK
<1>8. LoopOK'
    BY <1>1, <1>2, <1>3 DEF CInv, LoopOK, Waiting, Eligible
<1>9. CurrentOK'
    BY <1>1, <1>2, <1>3, <1>4 DEF CInv, CurrentOK, LiveOf, Waiting
<1> QED
    BY <1>2, <1>5, <1>6, <1>7, <1>8, <1>9 DEF CInv

LEMMA FileInsertedStep ==
    ASSUME CInv, FileInserted
    PROVE  CInv'
<1> USE DEF FileInserted
<1>1. /\ saved' = rows \/ saved' = saved
      /\ sinceCommit' \in Nat
    BY DEF CountFile, CInv, TypeOK
<1>2. TypeOK'
    BY <1>1 DEF CInv, TypeOK
<1>3. Consistent(saved)' /\ Consistent(rows)' /\ InsertOK'
    BY <1>1 DEF CInv, Consistent, LiveOf, InsertOK
<1>4. LoopOK'
    BY <1>1 DEF CInv, LoopOK, Eligible, Waiting
<1>5. CurrentOK'
    BY <1>1 DEF CInv, CurrentOK, LiveOf
<1> QED
    BY <1>2, <1>3, <1>4, <1>5 DEF CInv

(* What becomes of a row that is not purged. *)
Indexed(q, emb) == IF q \in emb THEN WithStatus(q, "embedded") ELSE q

(* Embedding keeps every row live, purging takes rows that were not. *)
LEMMA IndexStageStep ==
    ASSUME CInv, IndexStage
    PROVE  CInv'
<1>1. PICK emb \in SUBSET {r \in saved : r.st = "pending"},
           gone \in SUBSET {r \in saved : r.st = "deleted"} :
        saved' = (saved \ (emb \cup gone))
                 \cup {WithStatus(r, "embedded") : r \in emb}
    BY DEF IndexStage
<1>2. \A r \in saved' : \E q \in saved : r = Indexed(q, emb)
    BY <1>1 DEF Indexed
<1>3. \A q \in saved :
          /\ Indexed(q, emb) \in Row
          /\ Indexed(q, emb).file = q.file
          /\ Indexed(q, emb).hash = q.hash
          /\ Indexed(q, emb).part = q.part
          /\ IsLive(Indexed(q, emb)) => IsLive(q)
    BY WithStatusRow DEF CInv, TypeOK, IsLive, Indexed
<1>4. TypeOK'
    BY <1>2, <1>3 DEF IndexStage, CInv, TypeOK
<1>5. Consistent(saved')
    <2> SUFFICES ASSUME NEW f \in File,
                        NEW r \in LiveOf(saved', f), NEW s \in LiveOf(saved', f)
                 PROVE  r.hash = s.hash /\ (r.part = s.part => r = s)
        BY DEF Consistent
    <2>1. PICK q \in saved : r = Indexed(q, emb)
        BY <1>2 DEF LiveOf
    <2>2. PICK t \in saved : s = Indexed(t, emb)
        BY <1>2 DEF LiveOf
    <2>3. q \in LiveOf(saved, f) /\ t \in LiveOf(saved, f)
        BY <1>3, <2>1, <2>2 DEF LiveOf
    <2>4. q.hash = t.hash /\ (q.part = t.part => q = t)
        BY <2>3 DEF CInv, Consistent
    <2> QED
        BY <1>3, <2>1, <2>2, <2>4
<1>6. Consistent(saved)' /\ Consistent(rows)'
    BY <1>5 DEF IndexStage, Consistent, LiveOf
<1> QED
    BY <1>4, <1>6 DEF IndexStage, CInv, InsertOK, LoopOK, CurrentOK

LEMMA CInvStep == CInv /\ [Next]_vars => CInv'
<1> SUFFICES ASSUME CInv, [Next]_vars PROVE CInv'
    OBVIOUS
<1>1. CASE (\E f \in File : \/ Worker(f) \/ WorkerCannotRead(f)
                             \/ ApplyOther(f) \/ ApplyChunked(f) \/ MarkStale(f))
    <2>1. ASSUME NEW f \in File, Worker(f) PROVE CInv'
        BY <2>1, WorkerStep DEF Worker, CInv, TypeOK, Split, Outcomes
    <2>2. ASSUME NEW f \in File, WorkerCannotRead(f) PROVE CInv'
        BY <2>2, WorkerStep DEF WorkerCannotRead, CInv, TypeOK, Outcomes
    <2> QED
        BY <1>1, <2>1, <2>2, ApplyOtherStep, ApplyChunkedStep, MarkStaleStep
<1>2. CASE InsertChunk \/ FileInserted \/ IndexStage
    BY <1>2, InsertStep, FileInsertedStep, IndexStageStep
<1> USE ContentAssumption
    DEF CInv, TypeOK, Ineligible, Consistent, LiveOf, InsertOK, LoopOK,
        CurrentOK, Waiting, Eligible
<1>3. CASE Start
    BY <1>3 DEF Start
<1>4. CASE LoopEnds
    BY <1>4 DEF LoopEnds
<1>5. CASE Finish
    BY <1>5 DEF Finish, Leaves
<1>6. CASE Crash
    BY <1>6 DEF Crash, Leaves
<1>7. CASE Interrupt
    BY <1>7 DEF Interrupt, Leaves
<1>8. CASE IngestStage
    BY <1>8 DEF IngestStage
<1>9. CASE UNCHANGED vars
    BY <1>9 DEF vars
<1> QED
    BY ONLY [Next]_vars, <1>1, <1>2, <1>3, <1>4, <1>5, <1>6, <1>7, <1>8, <1>9
       DEF Next, RunStep

LEMMA CInvInvariant == Spec => []CInv
BY CInvInit, CInvStep, PTL DEF Spec

-----------------------------------------------------------------------------
(* Whole files. As long as no exception has left a run, whatever is         *)
(* committed, or would be at the next commit, is all of a version of each   *)
(* file; but for the file at hand, of which what is not to do is there.     *)

Whole(R, f) == \A r \in LiveOf(R, f) : LiveParts(R, f) = Parts[r.hash]

(* All of the file's content is live and nothing else. *)
Covers(R, f) ==
    LiveHashes(R, f) \subseteq {doc[f]} /\ LiveParts(R, f) = Parts[doc[f]]

AtHand(f) == pc = "insert" /\ current = f

HalfDone == pc = "insert" =>
    todo \subseteq Parts[doc[current]]
    /\ LiveParts(rows, current) = Parts[doc[current]] \ todo

(* What a result says of its file. *)
ResultsOK ==
    pc \in {"loop", "insert"} => \A f \in DOMAIN results :
        /\ results[f] = "unchanged" => LiveHashes(rows, f) = {doc[f]}
        /\ results[f] \notin {"unchanged", "chunked"} => ~Splittable(f)

(* A file the main process is done with is as ingest left it. *)
AppliedOK ==
    /\ pc # "idle" => \A f \in File :
            Splittable(f) /\ (pc = "stale" \/ f \notin Waiting) /\ ~AtHand(f)
                => Covers(rows, f)
    /\ pc = "stale" => \A f \in File :
            doc[f] = "deleted" /\ f \notin queue => LiveOf(rows, f) = {}

WholeInv ==
    /\ \A f \in File : Whole(saved, f) /\ (AtHand(f) \/ Whole(rows, f))
    /\ HalfDone
    /\ ResultsOK
    /\ AppliedOK

WInv == Partial \/ WholeInv

(* Which rows of a file are live, whatever their salts and statuses. *)
SameLive(R, S, f) ==
    \A h, p : (\E r \in LiveOf(R, f) : r.hash = h /\ r.part = p)
          <=> (\E r \in LiveOf(S, f) : r.hash = h /\ r.part = p)

LEMMA SameLiveSame ==
    ASSUME NEW R, NEW S, NEW f, SameLive(R, S, f)
    PROVE  /\ LiveHashes(R, f) = LiveHashes(S, f)
           /\ LiveParts(R, f) = LiveParts(S, f)
           /\ Whole(R, f) => Whole(S, f)
           /\ Covers(R, f) => Covers(S, f)
<1>1. LiveHashes(R, f) = LiveHashes(S, f) /\ LiveParts(R, f) = LiveParts(S, f)
    <2>1. \A r \in LiveOf(R, f) : \E s \in LiveOf(S, f) : s.hash = r.hash /\ s.part = r.part
        BY DEF SameLive
    <2>2. \A s \in LiveOf(S, f) : \E r \in LiveOf(R, f) : r.hash = s.hash /\ r.part = s.part
        BY DEF SameLive
    <2> QED
        BY <2>1, <2>2 DEF LiveHashes, LiveParts
<1>2. Whole(R, f) => Whole(S, f)
    <2> SUFFICES ASSUME Whole(R, f), NEW s \in LiveOf(S, f)
                 PROVE  LiveParts(S, f) = Parts[s.hash]
        BY DEF Whole
    <2>1. PICK r \in LiveOf(R, f) : r.hash = s.hash
        BY DEF SameLive
    <2> QED
        BY <1>1, <2>1 DEF Whole
<1> QED
    BY <1>1, <1>2 DEF Covers

(* A file of one version, all of it live, is covered. *)
LEMMA UnchangedCovers ==
    ASSUME NEW R, NEW f, Whole(R, f), LiveHashes(R, f) = {doc[f]}
    PROVE  Covers(R, f)
<1>1. PICK r \in LiveOf(R, f) : r.hash = doc[f]
    BY DEF LiveHashes
<1> QED
    BY <1>1 DEF Covers, Whole

LEMMA CoversWhole == ASSUME NEW R, NEW f, Covers(R, f) PROVE Whole(R, f)
BY DEF Covers, Whole, LiveHashes

LEMMA WInvInit == Init => WholeInv
BY DEF Init, WholeInv, Whole, AtHand, LiveOf, HalfDone, ResultsOK, AppliedOK

LEMMA WorkerKeepsWhole ==
    ASSUME CInv, WholeInv, NEW f \in File, CanSubmit(f), NEW o \in Outcomes,
           o = "unchanged" => IsUnchanged(f), Returns(f, o),
           readErrors \subseteq readErrors',
           o \notin {"unchanged", "chunked"} => ~Splittable(f)'
    PROVE  WholeInv'
<1> USE DEF CanSubmit, Returns
<1>1. /\ DOMAIN results' = DOMAIN results \cup {f}
      /\ results'[f] = o
      /\ \A g \in DOMAIN results : g # f => results'[g] = results[g]
      /\ Waiting' = Waiting
    BY DEF Waiting
<1>2. \A g \in File : Splittable(g)' => Splittable(g)
    BY DEF Splittable
<1>3. IsUnchanged(f) => LiveHashes(rows, f) = {doc[f]}
    <2>1. LiveOf(saved, f) = LiveOf(rows, f)
        BY DEF CInv, LoopOK, LiveOf, Waiting
    <2> QED
        BY <2>1 DEF IsUnchanged, LiveHashes
<1>4. ResultsOK'
    BY <1>1, <1>2, <1>3 DEF WholeInv, ResultsOK, LiveHashes, LiveOf, CInv, TypeOK
<1>5. AppliedOK'
    BY <1>1, <1>2 DEF WholeInv, AppliedOK, AtHand, Covers, LiveHashes, LiveParts, LiveOf
<1> QED
    BY <1>4, <1>5 DEF WholeInv, Whole, AtHand, HalfDone, LiveParts, LiveOf

LEMMA ApplyOtherKeepsWhole ==
    ASSUME CInv, WholeInv, NEW f \in File, ApplyOther(f)
    PROVE  WholeInv'
<1> USE DEF ApplyOther
<1>1. /\ DOMAIN results' = DOMAIN results \ {f}
      /\ \A g \in DOMAIN results' : results'[g] = results[g]
      /\ Waiting \subseteq Waiting' \cup {f}
    BY DEF Take, Waiting
<1>2. saved' = rows \/ saved' = saved
    BY DEF CountFile
<1>3. Splittable(f) => Covers(rows, f)
    <2>1. Splittable(f) => LiveHashes(rows, f) = {doc[f]}
        BY DEF WholeInv, ResultsOK
    <2> QED
        BY <2>1, UnchangedCovers DEF WholeInv, AtHand
<1>4. AppliedOK'
    BY <1>1, <1>3
    DEF WholeInv, AppliedOK, AtHand, Splittable, Covers, LiveHashes, LiveParts, LiveOf
<1>5. ResultsOK'
    BY <1>1 DEF WholeInv, ResultsOK, Splittable, LiveHashes, LiveOf
<1>6. \A g \in File : Whole(saved, g)' /\ Whole(rows, g)'
    <2>1. \A g \in File : Whole(rows, g) /\ Whole(saved, g)
        BY DEF WholeInv, AtHand
    <2>2. \A g \in File : Whole(rows, g)'
        BY <2>1 DEF Whole, LiveParts, LiveOf
    <2>3. \A g \in File : Whole(saved, g)'
        BY <1>2, <2>1 DEF Whole, LiveParts, LiveOf
    <2> QED
        BY <2>2, <2>3
<1> QED
    BY <1>4, <1>5, <1>6 DEF WholeInv, HalfDone

(* Soft-deleting a file's rows leaves those of the others alone. *)
LEMMA MarkDeletedOthers ==
    ASSUME NEW R \in SUBSET Row, NEW f \in File, NEW g
    PROVE  LiveOf(MarkDeleted(R, f), g) = IF g = f THEN {} ELSE LiveOf(R, g)
BY MarkDeletedLive DEF LiveOf

LEMMA ApplyChunkedKeepsWhole ==
    ASSUME CInv, WholeInv, NEW f \in File, ApplyChunked(f)
    PROVE  WholeInv'
<1> USE DEF ApplyChunked
<1>1. /\ DOMAIN results' = DOMAIN results \ {f}
      /\ \A g \in DOMAIN results' : results'[g] = results[g]
      /\ Waiting \subseteq Waiting' \cup {f}
    BY DEF Take, Waiting
<1>2. \A g : LiveOf(rows', g) = IF g = f THEN {} ELSE LiveOf(rows, g)
    <2>1. rows \in SUBSET Row
        BY DEF CInv, TypeOK
    <2> QED
        BY <2>1, MarkDeletedOthers
<1>3. HalfDone'
    BY <1>2 DEF HalfDone, LiveParts
<1>4. AppliedOK'
    BY <1>1, <1>2 DEF WholeInv, AppliedOK, AtHand, Splittable, Covers, LiveHashes, LiveParts
<1>5. ResultsOK'
    BY <1>1, <1>2 DEF WholeInv, ResultsOK, Splittable, LiveHashes
<1>6. ASSUME NEW g \in File PROVE Whole(saved, g)' /\ (AtHand(g)' \/ Whole(rows, g)')
    <2>1. Whole(rows, g) /\ Whole(saved, g)
        BY DEF WholeInv, AtHand
    <2>2. Whole(saved, g)'
        BY <2>1 DEF Whole, LiveParts, LiveOf
    <2>3. g # f => Whole(rows, g)'
        BY <1>2, <2>1 DEF Whole, LiveParts
    <2> QED
        BY <2>2, <2>3 DEF AtHand
<1> QED
    BY <1>3, <1>4, <1>5, <1>6 DEF WholeInv

LEMMA InsertKeepsWhole == ASSUME CInv, WholeInv, InsertChunk PROVE WholeInv'
<1>1. PICK p \in todo, s \in 0..Cardinality(rows) :
          /\ rows' = rows \cup {[file |-> current, hash |-> doc[current],
                                 part |-> p, salt |-> s, st |-> "pending"]}
          /\ todo' = todo \ {p}
    BY DEF InsertChunk
<1> DEFINE new == [file |-> current, hash |-> doc[current],
                   part |-> p, salt |-> s, st |-> "pending"]
<1>2. /\ pc = "insert" /\ pc' = "insert"
      /\ UNCHANGED <<doc, saved, queue, results, current, readErrors>>
    BY DEF InsertChunk
<1>3. /\ new.file = current /\ new.part = p /\ IsLive(new)
      /\ rows' = rows \cup {new}
    BY <1>1 DEF IsLive
<1> HIDE DEF new
<1>4. \A g \in File : g # current => LiveOf(rows', g) = LiveOf(rows, g)
    BY <1>3 DEF LiveOf
<1>5. LiveParts(rows', current) = LiveParts(rows, current) \cup {p}
    BY <1>3 DEF LiveParts, LiveOf
<1>6. HalfDone'
    BY <1>1, <1>2, <1>5 DEF WholeInv, HalfDone
<1>7. current \notin DOMAIN results /\ DOMAIN results \subseteq File
    BY <1>2 DEF CInv, InsertOK, Waiting, TypeOK
<1>8. ResultsOK'
    BY <1>2, <1>4, <1>7 DEF WholeInv, ResultsOK, Splittable, LiveHashes
<1>9. AppliedOK'
    BY <1>2, <1>4
    DEF WholeInv, AppliedOK, AtHand, Splittable, Covers, LiveHashes, LiveParts, Waiting
<1>10. \A g \in File : Whole(saved, g)' /\ (AtHand(g)' \/ Whole(rows, g)')
    BY <1>2, <1>4 DEF WholeInv, Whole, AtHand, LiveParts, LiveOf
<1> QED
    BY <1>6, <1>8, <1>9, <1>10 DEF WholeInv

LEMMA FileInsertedKeepsWhole == ASSUME CInv, WholeInv, FileInserted PROVE WholeInv'
<1>1. /\ pc = "insert" /\ pc' = "loop" /\ todo = {}
      /\ UNCHANGED <<doc, rows, queue, results, current, todo, readErrors>>
      /\ saved' = rows \/ saved' = saved
    BY DEF FileInserted, CountFile
<1>2. Covers(rows, current)
    <2>1. LiveParts(rows, current) = Parts[doc[current]]
        BY <1>1 DEF WholeInv, HalfDone
    <2>2. LiveHashes(rows, current) \subseteq {doc[current]}
        BY <1>1 DEF CInv, InsertOK, LiveHashes
    <2> QED
        BY <2>1, <2>2 DEF Covers
<1>3. \A g \in File : Whole(rows, g)
    BY <1>2, CoversWhole DEF WholeInv, AtHand
<1>4. AppliedOK'
    BY <1>1, <1>2
    DEF WholeInv, AppliedOK, AtHand, Splittable, Covers, LiveHashes, LiveParts, LiveOf,
        Waiting
<1>5. \A g \in File : Whole(saved, g)' /\ Whole(rows, g)'
    <2>1. \A g \in File : Whole(saved, g)
        BY DEF WholeInv
    <2> QED
        BY <1>1, <1>3, <2>1 DEF Whole, LiveParts, LiveOf
<1>6. ResultsOK' /\ HalfDone'
    BY <1>1 DEF WholeInv, HalfDone, ResultsOK, Splittable, LiveHashes, LiveOf
<1> QED
    BY <1>4, <1>5, <1>6 DEF WholeInv

LEMMA LoopEndKeepsWhole == ASSUME CInv, WholeInv, LoopEnds PROVE WholeInv'
<1>1. /\ pc = "loop" /\ pc' = "stale" /\ Waiting = {} /\ saved' = rows
      /\ queue' = {f \in File : doc[f] = "deleted"}
      /\ UNCHANGED <<doc, rows, readErrors>>
    BY DEF LoopEnds, Waiting
<1>2. AppliedOK'
    BY <1>1 DEF WholeInv, AppliedOK, AtHand, Splittable, Covers, LiveHashes, LiveParts, LiveOf
<1> QED
    BY <1>1, <1>2 DEF WholeInv, Whole, AtHand, HalfDone, ResultsOK, LiveParts, LiveOf

LEMMA MarkStaleKeepsWhole ==
    ASSUME CInv, WholeInv, NEW f \in File, MarkStale(f) PROVE WholeInv'
<1>1. /\ pc = "stale" /\ pc' = "stale" /\ queue' = queue \ {f} /\ doc[f] = "deleted"
      /\ UNCHANGED <<doc, saved, current, readErrors>>
    BY DEF MarkStale, CInv
<1>2. \A g : LiveOf(rows', g) = IF g = f THEN {} ELSE LiveOf(rows, g)
    <2>1. rows \in SUBSET Row
        BY DEF CInv, TypeOK
    <2> QED
        BY <2>1, MarkDeletedOthers DEF MarkStale
<1>3. ~Splittable(f)
    BY <1>1, ContentAssumption DEF Splittable, Ineligible
<1>4. AppliedOK'
    BY <1>1, <1>2, <1>3
    DEF WholeInv, AppliedOK, AtHand, Splittable, Covers, LiveHashes, LiveParts
<1>5. \A g \in File : Whole(saved, g)' /\ (AtHand(g)' \/ Whole(rows, g)')
    BY <1>1, <1>2 DEF WholeInv, Whole, AtHand, LiveParts, LiveOf
<1> QED
    BY <1>1, <1>4, <1>5 DEF WholeInv, HalfDone, ResultsOK

(* Embedding and purging change no file's live passages. *)
LEMMA IndexStageKeepsWhole == ASSUME CInv, WholeInv, IndexStage PROVE WholeInv'
<1>1. PICK emb \in SUBSET {r \in saved : r.st = "pending"},
           gone \in SUBSET {r \in saved : r.st = "deleted"} :
        saved' = (saved \ (emb \cup gone))
                 \cup {WithStatus(r, "embedded") : r \in emb}
    BY DEF IndexStage
<1>2. pc = "idle" /\ pc' = "idle" /\ rows' = saved'
    BY DEF IndexStage
<1>3. saved \subseteq Row
    BY DEF CInv, TypeOK
<1>4. \A f \in File : SameLive(saved, saved', f)
    <2> SUFFICES ASSUME NEW f \in File, NEW h, NEW p
                 PROVE  (\E r \in LiveOf(saved, f) : r.hash = h /\ r.part = p)
                    <=> (\E r \in LiveOf(saved', f) : r.hash = h /\ r.part = p)
        BY DEF SameLive
    <2>1. ASSUME NEW r \in LiveOf(saved, f), r.hash = h, r.part = p
          PROVE  \E s \in LiveOf(saved', f) : s.hash = h /\ s.part = p
        <3>1. CASE r \in emb
            <4> DEFINE s == WithStatus(r, "embedded")
            <4>1. s \in saved'
                BY <1>1, <3>1
            <4>2. s.file = f /\ IsLive(s) /\ s.hash = h /\ s.part = p
                BY <1>3, <2>1, WithStatusRow DEF LiveOf, IsLive
            <4> QED
                BY <4>1, <4>2 DEF LiveOf
        <3>2. CASE r \notin emb
            <4>1. r \in saved'
                BY <1>1, <3>2 DEF LiveOf, IsLive
            <4> QED
                BY <2>1, <4>1 DEF LiveOf
        <3> QED
            BY <3>1, <3>2
    <2>2. ASSUME NEW s \in LiveOf(saved', f), s.hash = h, s.part = p
          PROVE  \E r \in LiveOf(saved, f) : r.hash = h /\ r.part = p
        <3>1. CASE s \in saved
            BY <2>2, <3>1 DEF LiveOf
        <3>2. CASE s \notin saved
            <4>1. PICK r \in emb : s = WithStatus(r, "embedded")
                BY <1>1, <3>2 DEF LiveOf
            <4>2. r \in saved /\ r.st = "pending"
                OBVIOUS
            <4>3. r.file = f /\ r.hash = h /\ r.part = p
                BY <1>3, <2>2, <4>1, <4>2, WithStatusRow DEF LiveOf
            <4> QED
                BY <4>2, <4>3 DEF LiveOf, IsLive
        <3> QED
            BY <3>1, <3>2
    <2> QED
        BY <2>1, <2>2
<1>5. \A f \in File : Whole(saved, f)'
    <2>1. \A f \in File : Whole(saved, f) => Whole(saved', f)
        BY <1>4, SameLiveSame
    <2> QED
        BY <2>1 DEF WholeInv, Whole, LiveParts, LiveOf
<1> QED
    BY <1>2, <1>5 DEF WholeInv, Whole, LiveParts, LiveOf, AtHand, HalfDone, ResultsOK, AppliedOK

(* A run begins or ends, one way or another, or ingest commits. *)
LEMMA RunsKeepWhole ==
    ASSUME CInv, WholeInv, Start \/ Finish \/ Crash \/ IngestStage
    PROVE  WholeInv'
<1>1. CASE Start
  <2>1. /\ pc' = "loop" /\ queue' = Eligible /\ DOMAIN results' = {}
        /\ UNCHANGED <<doc, saved, rows, current, todo>> /\ pc = "idle"
    BY <1>1 DEF Start
  <2>2. AppliedOK' /\ ResultsOK' /\ HalfDone'
    BY <2>1 DEF AppliedOK, ResultsOK, HalfDone, Waiting, Eligible, Splittable
  <2>3. \A f \in File : Whole(saved, f)' /\ Whole(rows, f)'
    BY <2>1 DEF WholeInv, AtHand, Whole, LiveParts, LiveOf
  <2> QED
    BY <2>2, <2>3 DEF WholeInv
<1>2. CASE Finish \/ Crash \/ IngestStage
  <2>1. pc' = "idle"
    BY <1>2 DEF Finish, Crash, IngestStage, Leaves
  <2>2. \/ saved' = saved /\ rows' = saved
        \/ pc # "insert" /\ saved' \in {saved, rows} /\ rows' = rows
    BY <1>2 DEF Finish, Crash, IngestStage
  <2>3. \A f \in File : Whole(saved, f)' /\ Whole(rows, f)'
    BY <2>2 DEF WholeInv, AtHand, Whole, LiveParts, LiveOf
  <2> QED
    BY <2>1, <2>3 DEF WholeInv, HalfDone, ResultsOK, AppliedOK
<1> QED
    BY <1>1, <1>2

LEMMA WInvStep == ASSUME CInv, WInv, [Next]_vars PROVE WInv'
<1>1. CASE Partial
    <2>1. Interrupt => faults'.interrupts = faults.interrupts + 1
        BY DEF Interrupt, CInv, TypeOK
    <2>2. Partial'
        BY <1>1, <2>1
        DEF Partial, CInv, TypeOK, Next, RunStep, Start, Worker, WorkerCannotRead, ApplyOther,
            ApplyChunked, MarkStale, InsertChunk, FileInserted, LoopEnds, Finish, Crash,
            Interrupt, IngestStage, IndexStage, vars
    <2> QED
        BY <2>2 DEF WInv
<1>2. CASE WholeInv /\ Interrupt
    <2>1. faults'.interrupts = faults.interrupts + 1 /\ faults.interrupts \in Nat
        BY <1>2 DEF Interrupt, CInv, TypeOK
    <2> QED
        BY <2>1 DEF WInv, Partial
<1>3. CASE WholeInv /\ \E f \in File : Worker(f) \/ WorkerCannotRead(f)
    <2>1. ASSUME NEW f \in File, Worker(f) PROVE WholeInv'
        <3> DEFINE o == IF IsUnchanged(f) THEN "unchanged" ELSE Split(f)
        <3>1. /\ o \in Outcomes
              /\ o = "unchanged" => IsUnchanged(f)
              /\ o \notin {"unchanged", "chunked"} => doc[f] \in Blank \cup Bad
            BY DEF Split, Outcomes
        <3>2. CanSubmit(f) /\ Returns(f, o) /\ readErrors' = readErrors
            BY <2>1 DEF Worker
        <3>3. o \notin {"unchanged", "chunked"} => ~Splittable(f)'
            BY <3>1, <3>2 DEF Splittable, Returns
        <3> HIDE DEF o
        <3> QED
            BY <1>3, <3>1, <3>2, <3>3, WorkerKeepsWhole
    <2>2. ASSUME NEW f \in File, WorkerCannotRead(f) PROVE WholeInv'
        <3>1. /\ CanSubmit(f) /\ Returns(f, "read_error") /\ "read_error" \in Outcomes
              /\ readErrors \subseteq readErrors' /\ ~Splittable(f)'
            BY <2>2 DEF WorkerCannotRead, Outcomes, Splittable
        <3> QED
            BY <1>3, <3>1, WorkerKeepsWhole
    <2> QED
        BY <1>3, <2>1, <2>2 DEF WInv
<1>4. CASE WholeInv /\ \E f \in File : ApplyOther(f) \/ ApplyChunked(f) \/ MarkStale(f)
    BY <1>4, ApplyOtherKeepsWhole, ApplyChunkedKeepsWhole, MarkStaleKeepsWhole DEF WInv
<1>5. CASE WholeInv /\ (InsertChunk \/ FileInserted \/ LoopEnds \/ IndexStage)
    BY <1>5, InsertKeepsWhole, FileInsertedKeepsWhole, LoopEndKeepsWhole,
       IndexStageKeepsWhole DEF WInv
<1>6. CASE WholeInv /\ (Start \/ Finish \/ Crash \/ IngestStage)
    BY <1>6, RunsKeepWhole DEF WInv
<1>7. CASE WholeInv /\ UNCHANGED vars
    BY <1>7
    DEF vars, WInv, WholeInv, Whole, AtHand, HalfDone, ResultsOK, AppliedOK, Covers, Splittable,
        Waiting, LiveParts, LiveHashes, LiveOf
<1> QED
    BY <1>1, <1>2, <1>3, <1>4, <1>5, <1>6, <1>7 DEF WInv, Next, RunStep

LEMMA WInvInvariant == Spec => []WInv
<1>1. Init => WInv
    BY WInvInit DEF WInv
<1>2. CInv /\ WInv /\ [Next]_vars => WInv'
    BY WInvStep
<1> QED
    BY <1>1, <1>2, CInvInvariant, PTL DEF Spec

-----------------------------------------------------------------------------
(* Theorems. *)

(* Every variable keeps its type. *)
THEOREM TypeCorrect == Spec => []TypeOK
<1>1. CInv => TypeOK
    BY DEF CInv
<1> QED
    BY <1>1, CInvInvariant, PTL

(* The live rows of a file are of one version, each passage once, also when  *)
(* an exception commits half of them.                                        *)
THEOREM LiveRowsAlwaysAgree == Spec => []LiveRowsAgree
<1>1. CInv => LiveRowsAgree
    BY DEF CInv, Consistent, LiveRowsAgree
<1> QED
    BY <1>1, CInvInvariant, PTL

(* A run leaves the committed rows of current content as they are. *)
THEOREM CurrentIsKept == Spec => CurrentKept
<1>1. CInv /\ [Next]_vars =>
        [pc # "idle" => \A f \in File : \A r \in LiveOf(saved, f) :
                            r.hash = doc[f] => r \in saved']_vars
    <2> SUFFICES ASSUME CInv, [Next]_vars, pc # "idle",
                        NEW f \in File, NEW r \in LiveOf(saved, f), r.hash = doc[f]
                 PROVE  r \in saved'
        OBVIOUS
    <2>1. r \in rows /\ r \in saved
        BY DEF CInv, CurrentOK, LiveOf
    <2>2. saved' = rows \/ saved' = saved
        BY DEF Next, RunStep, vars, Start, Worker, WorkerCannotRead, Returns,
               ApplyOther, ApplyChunked, MarkStale, InsertChunk, FileInserted,
               CountFile, LoopEnds, Finish, Crash, Interrupt, Leaves, IngestStage,
               IndexStage
    <2> QED
        BY <2>1, <2>2
<1> QED
    BY <1>1, CInvInvariant, PTL DEF Spec, CurrentKept

(* A killed run, or none, leaves all of one version of each file committed; *)
(* only an exception that leaves a run can break a file.                    *)
THEOREM FilesStayWhole == Spec => []WholeFiles
<1>1. WInv => WholeFiles
    BY DEF WInv, WholeInv, Whole, WholeFiles
<1> QED
    BY <1>1, WInvInvariant, PTL

(* A run that ends has caught up with every file that could be read and     *)
(* split, and with every removed one, whatever runs were killed before it.  *)
THEOREM CleanRunsComplete == Spec => CleanRunComplete
<1>1. WInv /\ [Next]_vars => [RunEnds => Partial \/ Populated]_vars
    <2> SUFFICES ASSUME WholeInv, RunEnds PROVE Populated
        BY DEF WInv
    <2> USE DEF RunEnds
    <2>1. ASSUME NEW f \in File, Splittable(f) PROVE Covers(rows, f)
        BY <2>1 DEF WholeInv, AppliedOK, AtHand
    <2>2. ASSUME NEW f \in File, doc[f] = "deleted" PROVE LiveOf(rows, f) = {}
        BY <2>2 DEF WholeInv, AppliedOK
    <2> QED
        BY <2>1, <2>2 DEF Populated, Covers
<1> QED
    BY <1>1, WInvInvariant, PTL DEF Spec, CleanRunComplete
=============================================================================

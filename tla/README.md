# Verification of hybrid_rag

hybrid_rag keeps a private document collection searchable: a nightly job turns a
tree of source files into text, text into chunks, chunks into two search stores, and a
query engine answers questions from those stores at any time. This directory holds TLA+
modules of the parts that carry that promise, TLC configurations that check them on small
instances, and TLAPS proofs of their main safety properties for all instances.

Contents: 1 the system, 2 the modules, 3 the runs, 4 the proofs, 5 where code and documents
disagree, 6 what is not modelled, 7 the plan.

## 1. The system

```
 source tree --ingest--> extracted_text/ + files table --chunk--> chunks table
                                                                     |  index
 operator console <-- logs        questions --query engine--> LanceDB + FTS5
        ^                              |
        +--- maintenance.log, query logs, agent log copies
```

| Part (source) | State it keeps | Operations | What makes it correct |
|---|---|---|---|
| Maintenance run (`run_maintenance.sh`) | the lock on fd 200, `$STATUS`, `logs/maintenance.log`, a report mail | take the lock or be blocked; ingest, chunk, index in that order; end line; mail | one stage at a time; no stage after a failed one; OK only if all succeeded; every run reports; the lock comes free |
| Ingest stage (`ingest/`) | `files` table of `manifest.db`, `extracted_text/`, a registry of Markdown names, a pool of workers | walk, hash, extract, name and write the text, upsert, mark files no longer seen deleted | a row that promises text has it; no two rows share a text file; names are stable; after a completed run table and disk agree; changes and removals are noticed |
| Chunk stage (`chunking/`) | `chunks` table, a pool of workers | compare hashes, split, soft-delete old rows, insert new ones, soft-delete those of removed files | live chunks of a file are of one version, each once, all of them; unchanged files are left alone |
| Index stage (`indexing/`) | LanceDB table, FTS5 table, `embedding_status` | embed pending chunks batch by batch, add to both stores, mark; remove deleted chunks from both, purge | embedded chunks are in both stores; nothing is in a store without its row; deleted stays deleted; exit 0 means nothing is left over |
| Manifest (`ingest/manifest.py`) | `manifest.db` (WAL, one writer) | the SQL of the stages, `commit`, `close` | a killed run leaves committed batches only; `close()` commits what is pending, also after an exception |
| Query engine (`query/engine.py` and what it imports) | none of its own | embed, dense search, relevance gate, keyword search, fusion, generation | cites what the collection holds; misses nothing that is there; refuses only what it does not hold |
| Extractors (`ingest/classify.py`, `ingest/extractors/`, `convert_to_md.sh`) | none | text of a file, or the reason there is none | every word comes through, but for the lines the script drops; no text without a reader that vouches for it |
| Splitter (`chunking/splitters.py`) | none | spans of a text: paragraphs, sentences, sections, sheets | nothing lost; chunks small; a line of a sheet stays with that sheet's title and the line below it |
| Query servers, CLI | none | adapters around `answer_query` | - |
| Query logs and their reader (`structured_log.py`, `logging_setup.py`, `readers/query_log.py`) | a text log opened once per process, a JSONL log opened per record | append both; join the two logs of one day | a query is lost or counted twice only where two files of two clocks make it so |
| Agent log pull, matcher (`pull_agent_logs.sh`, `readers/agent_log.py`) | copies of a remote log | append what is new; match the agent's starts with queries | no copied line is lost or held twice; no start that was answered is reported as unanswered |
| Operator console (`console/`) | an explorer lock | read stores and logs; explore one question; warn | the lock comes free on every way out; what it says of production is true; what it warns of has happened |

How they interact: the stages never call each other. Each commits to `manifest.db` and the next reads
what is committed; the maintenance lock keeps two stages from running at once. The query engine reads
LanceDB and FTS5 without any lock, while the index stage writes both. The console reads the logs line by
line and knows their format only through regular expressions.

What is hard here: two stores without a common transaction; processes killed between two writes;
exceptions that leave a context manager whose `close()` commits; workers that read committed rows while the
main process holds uncommitted ones; results that arrive in any order; files that change between two reads;
a lock that is inherited by children; log lines of several writers in one file; two logs of one event, cut at a
second; copies of a file that is being written, that restarts under its own name, and that a killed pull leaves half
appended; a lock with a way out for each failure. `PROJECT.json` lists these hazards line by line.

## 2. The modules

| Module | Models | State | Actions |
|---|---|---|---|
| `SearchLeg` | the abstract promise of a search store: it publishes wanted chunks, withdraws unwanted ones, nothing else | `wanted`, `found` | `Publish`, `Withdraw`, `Rechunk` |
| `Indexing` | `indexing/pipeline.py:run`, `run_index.py` | committed and transactional views of status and FTS5 (`savedStatus`/`status`, `savedFts`/`fts`), LanceDB rows per id (`lance`), the batch and cursor, the exit code | one per statement that changes a store: `ReadPending`, `EmbedOk`/`EmbedFailed`, `AddRows`, `FtsInsert`, `MarkEmbedded`, `CommitBatch`, `ReadDeleted`, `LanceDelete`, `FtsDelete`, `Purge`, `CommitCleanup`, `Finish`; around it `Crash` (rollback), `Interrupt` (commit by `close()`), `ChunkStage`, `OllamaToggles` |
| `Chunking` | `chunking/pipeline.py:run`, `run_chunk.py` | committed and transactional chunk rows with salted ids, work not submitted, results not applied, the file being inserted | `Worker`, `WorkerCannotRead`, `Take` of a result, `ApplyChunked`/`ApplyOther`, `InsertChunk`, `FileInserted`, `LoopEnds`, `MarkStale`, `Finish`, `Crash`, `Interrupt`; between runs `IngestStage`, `IndexStage` |
| `Ingest` | `ingest/pipeline.py:run`, `ingest/walker.py`, `run_ingest.py` | the tree, text files, committed and transactional rows, tasks, the name registry, `seen_file_ids` | `Start`, `StartUnlistable`, `Submit`, `Hash`, `CannotRead`, `Extract`, `ExtractFails`, `WorkerDies`, `FinalizeRow`, `WriteText`, `FinalizeText`, `LoopEnds`, `MarkDeleted`, `Finish`, `Crash`, `Interrupt`; people `Edit` at any time |
| `Maintenance` | `run_maintenance.sh` | for each invocation where the script is, its child, orphaned pool workers, stage results; the log | `Begin`, `TakeLock`/`Blocked`, `WriteStart`, `Launch`, `StageOk`/`StageFailed`, `ChainDone`, `End`, mailing, `ChildExits`, `KillScript`, `KillStage` |
| `MaintenanceLog` | `console/readers/maintenance_log.py`, the maintenance warning of `console/health.py` | none: a fold over `log` of `Maintenance`, and what the header concludes from it | - |
| `Splitter` | `chunking/splitters.py` | none: operators on texts, which are sequences of the letters the splitters tell apart; pieces of a text are sets of spans, and one packing serves paragraphs and rows | - |
| `Extraction` | `ingest/classify.py`, `ingest/extractors/`, `convert_to_md.sh`, `ingest/pipeline.py:_worker_task` | none: operators on what is behind a file | - |
| `Document` | one file through both stages | the file, its category, status, text and chunks | `Classify`, `Extract`, `Split` |
| `QueryLog` | `query/structured_log.py`, `query/logging_setup.py`, the log calls of `answer_query`, `readers/query_log.py:read_day`, `console/queries.py:load` | the clock, the day each process named its text log after, each query's place, the lines and records of each day, torn logs | `StartProcess`, `Ask`, `WriteLine`, `WriteRecord`, `RecordFails`, `Kill`, `Tick` |
| `AgentLog` | `scripts/pull_agent_logs.sh`, `readers/agent_log.py`; extends `QueryLog` | the remote log in halves of lines, the copies by fingerprint, the pull under way | `ToolStarts`, `LineEnds`, `Arrives`, `Reboot`, `Fetch`, `Store`, `PullKilled`, interleaved with those of `QueryLog` |
| `Explorer` | `console/explorer.py`, `explore_query` of `console/api.py`, `retrieve(full=True)`; extends `Fusion` | the lock, where each window's request is, what retrieval returned, what it was told | `Receive`, `Enter`, `Embed`, `EmbedFails`, `Search`, `Raises`, `Explain` |
| `Fusion` | `query/fusion.py`, `query/relevance.py` | none: operators | - |
| `Query` | `query/engine.py`, `dense.py`, `sparse.py`; extends `Indexing` | where each request is, the rows of both legs, its outcome; history of what was live, waiting, steady meanwhile | `Ask`, `Embed`, `EmbedFails`, `SearchDense`, `SearchSparse`, `Raises`, `Generate`, `GenerateFails`, `Refuse`, `GeneralKnowledge`, `Return`, interleaved with every action of `Indexing` |
| `*MC` | constants of the small instances | | |
| `*Proofs` | theorems | | |

Composition: `Query` runs on top of `Indexing`; `MaintenanceLog` reads the log of `Maintenance`; `Document` puts
`Extraction` and `Splitter` one behind the other; `AgentLog` asks the queries that `QueryLog` logs, and its matcher reads both
logs; `Indexing` is
shown to implement `SearchLeg` twice, with different mappings (`Dense`, `Sparse`). The stages appear in each
other's modules only as what they commit between two runs (`ChunkStage` in `Indexing`, `IngestStage` and
`IndexStage` in `Chunking`), which `OneStageAtATime` of `Maintenance` justifies.

Conventions. `saved...` is what is committed, the plain name what the writing connection sees. Definitions whose
comment begins with "Slip:" are plausible mistakes in the definition after them; no specification uses them. They
serve to confirm that each property can fail.

How letters, logs and copies are abstracted. A text of `Splitter` has ink, `stop`, white space and lines that begin with
`##`, `## Sheet:` or `---`; no splitter looks at anything else. What is behind a file in `Extraction` says what its library and its
tool do and which paragraphs, rows, words and confidences they return. A line of notes shows in its first letter what `convert_to_md.sh` may take it for, and a
`mark` stands for what the script writes before a line it formats. A log line stands for what it says of its query; times are the seconds the logs are
stamped with, and the time between taking a duration and writing the line with it is not told apart. What becomes of a query is chosen in `Ask`, since nothing looks at it
before it is logged. A torn record is less than the whole object. A line of the agent's log has two halves with
the newline in the second, its fingerprint is the first line itself, and one remote file is followed, since
each is treated by itself. The lock on `.pull.lock` makes the pull one at a time, and is modelled by `pulling`.

## 3. The runs

| Run | Instance | Shows |
|---|---|---|
| `IndexingRuns` | 3 chunks, batch 2, delete batch 1, one chunk Ollama always refuses, 1 kill, 1 exception | embedded means searchable (`EmbeddedSearchable`), no orphans, few duplicates, no resurrection, what exit code 0 means, the vector leg implements `SearchLeg`; deleted chunks leave, pending ones are handled |
| `ChunkingRuns` | 2 files, contents of two chunks, one chunk, blank, unsplittable; 3 edits, 1 unreadable text, 1 kill, 1 exception | live rows of one version and each once (`LiveRowsAgree`), whole files, unchanged kept, a completed run catches up, removals and changes arrive in the end |
| `ChunkingPartial` | 1 file, 2 contents, 1 exception | violation of `TableFullyPopulated` (5.1) |
| `MaintenanceRuns` | 2 invocations, 2 kills | exclusion, honest OK, everything reported, the console's reading of the log (`ReaderIsRight`) and its warning (`HealthIsRight`), the lock freed |
| `MaintenanceLong` | 2 invocations | violation of `EndedRunsHaveResult` (5.2) |
| `IngestSafety` | 2 Markdown files that want one name, 2 contents, 2 edits, 1 transient failure, 1 failed read, 1 abort | text exists, one owner per text, table agrees with disk after a completed run |
| `IngestLiveness` | 2 files, 2 contents and one that kills the worker, 2 edits, removal and return, an unlistable directory | changes are extracted, and removals noticed as long as no file in the tree kills its worker |
| `IngestReturn` | 2 files, removal and return | violation of `OneOwner` (5.3) |
| `QueryRuns` | 1 request at a time, 2 chunks, 2 questions, limits 2 and 1, top 1, 1 kill | sources are current, what stays is found, refusals are justified, both legs first |
| `DocumentRuns` | target 8, overlap 3, least section 5; every text of up to 5 plain or 4 Markdown pieces, notes of up to 3 lines of 15 kinds, workbooks of up to 4 rows, cells with a line break among them, and a second sheet, scans of up to 2 words or pages, 1 kind of trouble or several on files of every kind | nothing lost from file to chunks but what the conversion of notes drops, chunks bounded and going forward, sheets apart and, as long as no cell has a line break, rows whole under their column names, what is searchable is vouched for |
| `LogsRuns` | 2 queries, 1 server, 2 outcomes, days of 2 seconds, 3 seconds, 1 fault, 1 reboot | exactly when a query is lost or counted twice, copies that only grow, pulls that are complete, no false alarm of the matcher |
| `ExplorerRuns` | 2 windows, near and far chunks, demo and fallback on and off | the lock held exactly while somebody is inside; the explorer's account of production |

Why these bounds are enough to mean something. A batch of two out of three chunks gives a full batch, a part
batch and a cursor that has to move; a delete batch of one makes the cleanup loop go round. One kill plus one
exception reach every mixture of half-written stores, since each is cleaned up or built upon by runs without
limit. Two files and a commit every two results give a commit with one file applied and one in flight; two chunks per
content are the least that can be half inserted. Two Markdown files are the least that can collide. Two
files are also the least of which one can be removed beside one that kills its worker. Contents that cannot be extracted or have size zero are in no run of
`Ingest`, where they would cost a second file or edit; the theorems about it cover them. Two
invocations are the least that overlap, and two kills take a script and its stage. Two chunks and limits of
two and one make a limit bind, with and without the duplicate row a killed run leaves. A target of eight letters is shorter than the
long word (hard cut), longer than a packed pair, and the overlap of three carries exactly one short word; a section of five and less is
merged. Three lines of notes are the least that put something between a date and the section it heads. Two queries over three seconds and two days give a line and a record on either side of a second and of midnight, with a
record that is lost before, at and after the first one of its day; one reboot gives two incarnations of one remote name. Two windows
are the least that compete. Counters (`crashes`,
`interrupts`, `edits`, `kills`, `faults`, `reboots`, `clock`) are bounded in the guards of the actions that count them;
the bounds are the constants `Max...`. Nothing else is bounded: runs repeat for ever.

Fairness, and why the code has it.
- `WF(Start)`: cron starts the stages every night.
- `WF(RunStep)` of a stage, `WF(WorkerStep)`, `WF(MainStep)`: a live process goes on. Its only waits are
  for Ollama (`embed_timeout_seconds`, `generation_timeout_seconds`), for subprocess conversions (timeouts in the
  extractors) and for local files.
- `WF(Script(r))`, `WF(ChildExits(r))`: a live script takes its next step and its stages end. That the mail command ends is an
  assumption about the mailer: the script gives it no timeout.
- Nothing is assumed of Ollama, people, kills or failures. `PendingHandled` states its condition instead: Ollama stays up
  from some moment on and no chunk it refuses is pending.

`Document`, `QueryLog`, `AgentLog` and `Explorer` have safety properties only, and no fairness.

Deadlock is checked in every run but two: a `Document` is done after three steps, and in `LogsRuns` time, queries, faults and
reboots run out. `Maintenance` has a finite number of invocations, and `Over` says that after the last the system may rest.

`WholeFiles`, `CleanRunComplete` and `ChangeChunked` are stated for histories without an exception (`Partial`), because with
one they are false: `ChunkingPartial` shows it. `LockFreed` leaves out orphaned pool workers for the same reason, `ChangeExtracted` and `RemovedNoticedUnlessPoisoned` files that kill their worker, and the second half of `SheetsApart`
cells with a line break; what is false without these exceptions is in section 5.
`IngestSafety` has neither returning files nor reverted contents: 5.3 and the list below it say why. `HealthIsRight` speaks of failures
of less than a minute, since longer ones are not read (5.2).

## 4. The proofs

Checked by TLAPS for every value of the constants that satisfies the named `ASSUME`s: any finite set of chunks,
any set of files, contents, runs, requests, any batch size, any number of kills and exceptions.

**Indexing** (`QueryProofs`, which begins with the stores that queries read). `TypeCorrect`, `EmbeddedIsSearchable`, `NothingOrphaned`, `CopiesBounded`, with or without the
maintenance lock; under the lock (`Exclusive`) `DeletedStaysDeleted`, `CleanExitIsComplete`, and the two refinements
`DenseLegImplemented` and `SparseLegImplemented` (the run checks the first). The invariant `IInv` strengthens the properties by three facts:
`ViewOK`, the transactional view differs from the committed one only on the batch of an open transaction;
`BatchOK`, what is known of the rows of the batch at each place of the run; `CopiesOK`, a chunk that may still be added
has copies from aborted runs only. Without `ViewOK` an exception's commit could do anything; without `BatchOK` the mark
could precede the stores. `LockedInv` adds what the lock gives: the batch is still pending when it is marked, and every pending chunk
behind the cursor failed in this run.

**Chunking** (`ChunkingProofs`). `TypeCorrect`, `LiveRowsAlwaysAgree`, `CurrentIsKept`, `FilesStayWhole`, `CleanRunsComplete`. `CInv` says that both committed and
transactional rows are consistent (because `close()` may commit the latter at any moment), that while a file is inserted its live
rows are those inserted so far (`InsertOK`), that rows of files not yet applied are the committed ones, so that a worker's
comparison is still right when its result is applied (`LoopOK`), and that nobody is about to rewrite current rows (`CurrentOK`).
The last two theorems are about histories in which no exception left a run in mid-insert (`WInv` is `Partial \/ WholeInv`): committed rows are then
whole; so are the uncommitted ones but for the file at hand, of which exactly what is not to do is missing (`HalfDone`); a result says what
is true of its file (`ResultsOK`); and a file that has been dealt with has all of its content and nothing else (`AppliedOK`),
which at the end of the run is every file. That chunks change only their status meanwhile is no harm: `SameLive` says so once for all of these parts.

**Maintenance** (`MaintenanceProofs`). `TypeCorrect`, `StagesExclude`, `ChainFailsFast`, `OkReportIsTrue`, for any number of
invocations and kills. Its `IInv` says that one run at most holds the lock (`OneHolder`) and ties a script's
place to its child and stage results (`RunInv`).

**Maintenance log** (`MaintenanceProofs`). `ReaderShowsRuns`, `HeaderIsRight`. `parse_runs` is a fold over the log. `ReadOneMore` unrolls it: a log that
is one line longer is read as the shorter one was, and then that line. With it `LogInv` can be inductive: what has been read is true of
the runs it names, each run that got the lock is there once, and the one that is under way is the one the reader holds open (`Told`), so that its next line is
taken for its own; every end line the reader understands has been heard (`EndsHeard`). Both hold of every line order the script allows,
because a killed run's missing end line leaves its run open only until the next start line, and a blocked run writes nothing the reader looks at.

**Ingest** (`IngestProofs`). `TypeCorrect`, `TextIsThere`, `NamesAreKept`, `OneOwnerKept`, `CleanRunsAgree`. The text must be behind committed rows, uncommitted rows and finished tasks that
reuse a row alike, because a reuse hands on a path that was read earlier. For the names `NamesInv` adds that a run deals with a file once: until it does, the file's row is the committed one, and
the prior name a worker found there is still the row's when its result is applied (`KnowsPrior`, `OutOK`). The files
of this theorem may be removed, come back and fail. `OneOwnerKept` assumes that no removed file comes back and that every run lists
the directory (`MayReturn = FALSE`, `MaxUnlistable = 0`): otherwise the name of a deleted row is given away and taken back (5.3).
`OwnersInv` says that a file whose row is deleted is gone for good, that while results are applied the registry
has the owner of every Markdown name in a row, committed or not (`Registered`), and that a file with a row which the run neither has
met nor will meet is gone. `RegistryTellsApart` concludes that two rows never share a name.
`CleanRunsAgree` assumes in addition that no file returns to an earlier content (`MayRevert = FALSE`): 5.3 and the list below it have the counterexamples.
`AgreeInv` holds of every file: the hash of a row, committed or not, or of a result is of a content the file has had, and if
it is of the one the file has now, so is the text (`RowRight`, `TaskRight`). Contents do not return, so what was true of a hash when it was read is
true whenever that hash is the file's again. Of files at rest it adds that a task has read what is there
(`AtRest`) and that a file the run has met agrees with the disk (`Met`).

**Query** (`QueryProofs`). `QueryTypeCorrect`, `SourcesAreCurrent`, `SteadyIsFound`, `RefusalIsJustified`, `BothLegsComeFirst`, for any number of requests at once and
without the lock. `QInv` joins `IInv` of Indexing, which gives "a store has a row for a chunk only if
the chunk has a manifest row" and "embedded means in both stores", with `RowsCitable`: while a request is served, every
chunk with a manifest row has been live since it was asked or was deleted already then.
For refusals `GateInv` says that whoever is turned away had too few near chunks among the steady ones, when the gate looked and ever after, because steady
chunks only become fewer: the dense leg has every near one of them, or is full and has nothing but near rows, which are enough for the gate.
`BothLegsComeFirst` is arithmetic: two shares of a rank outweigh one as long as both limits are below k + 2 (two last places against one first;
20 and 60 as configured), and fewer than `TopK` chunks beat a chunk of both legs if fewer beat one of a single leg. `FusedInv` says that an answer's
sources are those of its rows.

**Query logs** (`LogsProofs`, over the composed specification). `NothingLostUnexplained`,
`NothingTwiceUnexplained`, for any number of queries and processes, any length of a day, any number of faults. `LogInv` says where a line and a record can be: the line in the file of a day
no later than the query began on, the record in the file of its own second's day (`LinesRight`, `RecordsRight`); that there is at most one of each, and
none before the query has come to the place that writes it. That a record in a day's set is read (`RecordsAreRead`), which lines are (`LinesAreRead`), and that nothing else
is, reduces both theorems to it.

**Agent log** (`LogsProofs`). `CopiesOnlyGrow`, `PullsAreComplete`, `NoStartAccused`, for any number of reboots and kills. `AgentInv` says that
every log (the remote one, what a pull has fetched, each copy) starts with a line or half of one (`Shape`); that two logs which speak
of the same call are of the same life of the agent's machine and start alike (`OneOrigin`); that within one life the remote log continues
what was fetched, and what was fetched continues the copies (`LaterContinues`); and that a copy is named after its own first line (`Named`). That no line is in two copies follows from the names; that a pull
reads everything follows because a copy under the fingerprint of what was fetched is a prefix of it or longer.
`NoStartAccused` is about the matcher, which is greedy: each start takes the nearest call left. `TakeOne` exchanges: if the
starts to come can be given a call each, they still can after the first took one, since whoever was to have that call is given the first
one's, which lies in between and is therefore in time. `AllMatched` carries this along the starts in their order; that they can be
put in order is `OrderOfStarts`, for which `FewStarted` says that there are finitely many.

**Documents** (`DocumentProofs`). `SearchableIsVouched`, for all files, whatever their library or tool does. `IInv` ties the status of a file to what is behind it
(`Backed`), at every stage of its way; `ExtractBacked` proves it extractor by extractor. For scans, `BelowOnAverage` says that words each below
a limit have a sum below it, and `SureWord` concludes that a scan as sure as its status claims has a word as sure. It assumes
that both limits of confidence are positive (70 and 40 as configured): with a limit of 0 a scan without any confidence passes.

**Texts** (`SplitterProofs`). `PlainTextSplits`, `MarkdownSplits`, `WorkbookSplits`, for every text of any length and every target, overlap
and least section. The argument follows the splitters. Paragraphs, sentences and hard cuts each turn a span into pieces that are apart,
inside it, and have all of its ink (`Tiles`, from `PiecesTile` and `HardCutTiles`); pieces of pieces are again such pieces (`TilesOfTiles`), and
in their order they make a chain (`InOrderChains`). Packing needs an invariant over the pieces taken so far (`Packed`): the finished
groups and the open one cover them without a gap, each group fits or is one piece, and the next one begins inside the last or right
behind it, with no more than the overlap in both (`Grouped`). `PackSplits` turns groups of pieces into spans of the text: between two pieces there is no ink, so the ink of
a chunk is that of its pieces. For Markdown, sections divide the body (`Divides`), a merge of neighbours still does (`MergedDivides`), and what splits each part splits the whole
(`SplitsInParts`). For sheets the same packing runs on lines, each of which counts with its newline, in the room that the head leaves; lines
of a sheet lie one newline apart (`Ruled`), the head is the two that come before them (`Rowed`), so the sum that packing limits is the size of what is written (`TotalOfLines`, `RowsPacked`).
`WorkbookSplits` says of a text that begins with a title that each chunk is within one sheet, the sheets being cut where a title begins a line.

**From file to chunks** (`DocumentProofs`). `NothingIsLost`, `ChunksStaySmall`, `LinesStayApart`, for every file, and `TextInk` on the way. `TextInv` is the inductive invariant: whatever has a text status
has the text its worker returned, and a file that is done has the chunks of that text. `TextInk` says of each extractor that behind its front matter the ink of
the text is the ink of the paragraphs, pages, scanned words or sheets, in order: titles and separators that extraction adds are white or
belong to the source's ink, and an empty row that is dropped has none. For notes that `convert_to_md.sh` rewrites, ink means words: the notation of the notes
and of Markdown and the dates repeated in headings do not count (`MuteOf`), and the source is the title and then every line but those that `LeftOut` names (header lines and whatever else
begins with a hyphen and has two more, rules, lines that begin with a weekday, sections that repeat the title). `WrittenSays` has this of one line, `BodySays` of all
of them, `NotesSay` of the whole. `LinesStayApart` speaks of lines: the head of a chunk is the line of its sheet's title and the one below it, and what follows are whole
lines of that sheet. That lines are rows holds for cells without line breaks only, and is model-checked only (`SheetsApart` joins both). It rests on lemmas about how ink is read out of a text that is put together from parts (`OnlyFlattens`, `FlattenFlatten`,
`SideBySide`). `NothingIsLost` joins it with the splitters' theorems. Each of the three has one hypothesis. No cell of an `.xls` looks like the title of a sheet, for the first two:
the text of an `.xls` has no titles of its own, so `chunk_spreadsheet` would begin the first chunk at such a cell and drop what is
before it, and take what follows for a sheet, which may be one chunk of any size (the last list of section 5). No cell of an `.xlsx` does, for the third: in the middle of a line it would stand in a chunk of the sheet around it,
under that one's title. Both are counterexamples TLC finds when such cells are put among the files.

**Explorer** (`ExplorerProofs`). `TypeCorrect`, `LockTellsTruth`, `ExplorerMirrors`, for any number of windows, results, distances
and thresholds. The lock theorem is inductive with the type invariant alone; the other needs that what a caller was told
stays beside the result it was told of, until he asks again.

Induction over data. The library's induction theorems take an operator and cannot be used here. Where a fold or a sum had to be reasoned about, the
proofs use its least counterexample in a set that is given explicitly (`WFMin` with `NatLessThanWellFounded` or with proper subsets): of
positions of the log, of prefixes of the starts, of sets of words. For the splitters this is done once: `Induction` and `InductionFrom` are about a set of numbers, and
`Recursion` says that a function defined along an interval by a step exists and takes that step everywhere; sums, packing, merging
and `FlattenSeq` are instances of it. This is also why the modules build such values from sets and recursive functions
(`Only` and `Ascending` instead of selecting and sorting): the prover knows nothing of `SelectSeq` and `SortSeq`.

What the proofs assume of constants, beside their types: in `Chunking` and `Ingest`, kinds of contents that exclude each other; in `Query` a positive `Scale` of
the weights; in `AgentLog`, that queries and the matcher's window are natural numbers; in `Document`, that paragraphs are sequences of letters, that a scan is a sequence of pages, each a sequence of
words with a text and a whole number of confidence, that a workbook is a sequence of sheets of rows, at least one sheet for an `.xls`, and that a library does one of three things; in `Splitter`, that
the overlap is not more than the target, which is not zero. Each is a named `ASSUME` that TLC evaluates.
Hypotheses of single theorems are named above, with the reason.

Only model-checked: liveness (TLAPS has no support for it here), that is `DeletedRemoved`, `PendingHandled`, `RemovedWithdrawn`, `ChangeChunked`, `EveryRunReports`,
`LockFreed`, `ChangeExtracted`, `RemovedNoticedUnlessPoisoned`; and of `SheetsApart` that lines are rows (`RowsWhole`). Otherwise every property of a passing run, invariant or about steps, has its theorem. Only
proved: `TypeOK` and `QueryTypeOK`, `SparseLeg`, `FailFast`, `NameKept`.

## 5. Where code and documents disagree

Shown by a violation run:

1. `ChunkingPartial`: an exception between two `insert_chunk` calls commits part of a file (`manifest.py:155-157`); later runs
   see its hash and call the file unchanged, for ever.
2. `MaintenanceLong`: the reader's end pattern wants `in <digits>s`; from a minute on the script writes `1m03s`, so such a run is shown as still running.
3. `IngestReturn`: a file that returns takes back an output name given away meanwhile.

Refuted by TLC as well when put in a configuration; the properties are kept in the modules:

- `RemovedNoticed` (`Ingest`, the instance of `IngestLiveness`): a file whose content kills its worker ends every run at
  `fut.result()` (`ingest/pipeline.py:358`), so a removed file beside it is never noticed, against "Failures on one file must never abort the whole
  run" (`Doc/step-1-requirements.md:145`). `RemovedNoticedUnlessPoisoned`, which the run checks, says that nothing else keeps a removal from being noticed.
- `LockReleased` (`Maintenance`, `MaxKills = 1`): pool workers of a killed stage inherit the lock's descriptor (`run_maintenance.sh:85`) and keep it, against
  "released automatically if the holder dies" (lines 83-84).
- `OutdatedReplaced` (`Chunking`, with a blank content): a changed file whose text is blank keeps the chunks of its old text (`chunking/pipeline.py:90`), against
  `Doc/step-3-requirements.md:112`.
- `RowsWhole` (`Document`, the instance of `DocumentRuns`): a line break in a cell (`office.py:78-79` keeps it) makes two lines of a row. `chunk_spreadsheet` then repeats a part of
  the column names, or cuts a row between two chunks, against `Doc/step-3-requirements.md:66-68`.
- `IndentedListed` (`Document`, the same instance): an indented line of notes that begins with a hyphen and has two more, such as a list item with two hyphenated words, is dropped
  (`convert_to_md.sh:118`) instead of becoming a list item (lines 14 and 245).
- `CleanRunAgrees` with `MayRevert = TRUE`: an edit between hash and extraction (`ingest/pipeline.py:245`), then undone, leaves the wrong text under the right hash.
- `CountedOnce` (`QueryLog`): a server that outlives midnight writes its text lines to the old day's file and its records to the
  new one's, so a query counts twice; `query/logging_setup.py:1-3` says the log "rotates by calendar day".
- `HeaderRepeated` (`Document`): the text of an `.xls` has no `## Sheet:` line, so its chunks repeat no column names, against
  `Doc/step-3-requirements.md` section 3c and the comment at `splitters.py:158`.

Seen while modelling, modelled as the code does it, and not kept as runs of their own:

- A run killed after `add_rows` and before its commit leaves vectors that the next run adds again, against
  "no duplicate ever reaches either store" (`manifest.py:255-256`). `DuplicatesBounded` says how many.
- In fusion a duplicate row counts twice (`fusion.py:31`) although the docstring speaks of one rank per leg. `BothLegsFirst` is therefore
  claimed only while neither leg returns a chunk twice.
- The script writes `FAILED`, the reader looks for `failed` (`maintenance_log.py:14`): a failed stage is never shown.
- A directory that cannot be listed has its files marked deleted, and their names given away, until the next run (`walker.py:41-44`), against
  `Doc/step-1-requirements.md:90`.
- Markdown names go to files in the order tasks end (`ingest/pipeline.py:356`), not "by walk order" (`Doc/step-1-requirements.md:55`).
- `splitters.py:133-141` merges a short section with the ones after it, where its comment says "into the previous section"; and an
  oversized section may leave its heading in a chunk of its own, against `Doc/step-3-requirements.md` section 3b.
- An `.xls` with a cell that begins its row and looks like a sheet title (`## Sheet: ...`) loses the rows above that cell:
  `splitters.py:156-165` starts at the first title, and only the text of an `.xlsx` is sure to begin with one. `NothingIsLost` excludes such cells; see section 4.
- A sheet whose text ends with an empty line can have a last chunk of column names only; a sheet without rows is one chunk of any
  size; a chunk packed with overlap may repeat the whole of a short one before it.
- A PDF whose text layers together reach the minimum is never scanned, so words on its scanned pages are lost (`pdf.py:38`); `NothingLost`
  speaks of what the chosen way of reading returns.
- A line of prose in notes that begins with a weekday's name is taken for a date line and dropped (`convert_to_md.sh:128`; the comment at 126 gives a full date as the example). `NothingLost`
  names it among the lines that are left out.
- A failed run of a minute or more is never shown as failed by the header (5.2), and only the run that started last is looked at.
- A query whose text line is stamped a second before the first record of its day counts twice, and one whose record could not be written
  is lost once the day has a record (`query_log.py:94-95`): `TwiceOnlyAcrossTime` and `LostOnlyWithoutRecord` say that nothing else does it.

## 6. What is not modelled

- Power loss (`synchronous=NORMAL` may lose the last commits), text files torn in the middle of a write, a full disk. A kill loses the open
  transaction and nothing else.
- `--limit` runs, which skip the removal steps; a reboot between runs; a missing source root.
- Two index runs at once: the lock excludes them, and without it SQLite's write lock makes one fail. `Exclusive = FALSE` covers chunk and index runs at once (theorems only).
- In the ingest stage: directories (all files are in one), files of several kinds in one run. In `Extraction`: encodings, tags, what
  `convert_to_md.sh` adds to a line it formats (labels, emphasis, signs), ` # ` within a line becoming a dash, its `sed` failing on a malformed status line
  (the tool "exits"), a tab after a status word, tables of a `.docx` (its paragraphs and rows are `parts`), the
  decoding of a conversion's output.
- In the query engine: tables that do not exist before the first run (but in `Explorer`), rounding (weights are whole numbers, exact for the ranks in use), prompts and answers.
- In the maintenance script: report wording, `mktemp` failures, counts in the end line.
- In the logs: the durations inside a record, the statistics of `queries.py`, the attribution of models, turns and flags
  in `agent_log.py:analyze`, `--dry-run`, conflicting copies saved under a name that is not read, more than one remote file.
- In the console: the views of `failures.py`, `gold.py`, `api.py` that format what they read; liveness of services. They keep no state and
  change none.
- Query servers and CLI are adapters without state; the web UI, the triage script, configuration, test data and evaluation scripts hold no behaviour of the system.

## 7. The plan

Order of the modules: the stores first, since every other promise leans on them, then what feeds them, what chains the stages, and what reads.
All planned modules are written. What is left is one composition.

| Module | State | What is left |
|---|---|---|
| `Indexing`, `SearchLeg` | modelled, checked, proved | - |
| `Chunking` | modelled, checked, proved | - |
| `Maintenance`, `MaintenanceLog` | modelled, checked, proved | - |
| `Ingest` | modelled, checked, proved | - |
| `Query`, `Fusion` | modelled, checked, proved | - |
| `Splitter`, `Extraction`, `Document` | modelled, checked, proved | - |
| `QueryLog`, `AgentLog` | modelled, checked, proved | - |
| `Explorer` | modelled, checked, proved | - |
| `Freshness` | open | the stages' modules composed under the maintenance lock: a change of the tree reaches both legs |

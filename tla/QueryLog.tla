------------------------------ MODULE QueryLog ------------------------------
(***************************************************************************)
(* The two logs of the query engine and how the console joins them: the    *)
(* text log, opened once by each process (query/logging_setup.py), and the *)
(* JSONL log, opened anew for each record (query/structured_log.py); both  *)
(* are written by answer_query (query/engine.py) and read, day by day, by  *)
(* read_day (console/readers/query_log.py).  Time is counted in seconds,   *)
(* as the logs stamp it.  A line of a query stands for what it says of it. *)
(***************************************************************************)
EXTENDS Integers, FiniteSetsExt, SequencesExt

CONSTANTS
    Query, Proc,        \* Proc: the command line, the web server, the MCP server
    Outcome,            \* of "answered", "no_relevant", "general_knowledge", "error"
    DayLength, MaxTime, \* in seconds
    MaxFaults           \* writes that fail and processes that are killed

ASSUME LogAssumption == DayLength \in Nat \ {0} /\ MaxTime \in Nat

VARIABLES
    clock,
    opened,     \* of each process the day its text log is named after, or Down
    query,      \* of each query its process, place, beginning and outcome
    textLog,    \* of each day the lines in the text log of that name
    jsonLog,    \* of each day the records a reader can parse
    torn,       \* the days whose JSONL log ends within a record
    faults
logVars == <<clock, opened, query, textLog, jsonLog, torn, faults>>

Down == -1
Day(second) == second \div DayLength
Days == 0 .. Day(MaxTime)
NotAsked == [proc |-> "none", place |-> "new", begin |-> 0, outcome |-> "none"]

LogInit ==
    /\ clock = 0
    /\ opened = [p \in Proc |-> Down]
    /\ query = [q \in Query |-> NotAsked]
    /\ textLog = [d \in Days |-> {}]
    /\ jsonLog = [d \in Days |-> {}]
    /\ torn = {}
    /\ faults = 0

Tick ==
    /\ clock < MaxTime
    /\ clock' = clock + 1
    /\ UNCHANGED <<opened, query, textLog, jsonLog, torn, faults>>

(* setup_query_logging: the name of the file is fixed for the whole process. *)
StartProcess(p) ==
    /\ opened[p] = Down
    /\ opened' = [opened EXCEPT ![p] = Day(clock)]
    /\ UNCHANGED <<clock, query, textLog, jsonLog, torn, faults>>

Kill(p) ==
    /\ opened[p] # Down /\ faults < MaxFaults
    /\ opened' = [opened EXCEPT ![p] = Down]
    /\ query' = [q \in Query |->
                    IF query[q].proc = p /\ query[q].place # "done"
                    THEN [query[q] EXCEPT !.place = "gone"] ELSE query[q]]
    /\ faults' = faults + 1
    /\ UNCHANGED <<clock, textLog, jsonLog, torn>>

(* An answer is recorded before its text line, everything else after it.    *)
RecordFirst(outcome) == outcome = "answered"

(* What comes of a query is not looked at before it is logged, and is       *)
(* therefore chosen at once.                                                *)
Ask(q, p, outcome) ==
    /\ query[q] = NotAsked /\ opened[p] # Down
    /\ query' = [query EXCEPT ![q] =
            [proc |-> p, place |-> IF RecordFirst(outcome) THEN "record" ELSE "line",
             begin |-> clock, outcome |-> outcome]]
    /\ UNCHANGED <<clock, opened, textLog, jsonLog, torn, faults>>

Line(q) == [q |-> q, ts |-> clock, format |-> "text"]
Record(q) == [q |-> q, ts |-> clock, format |-> "jsonl"]

WriteLine(q) ==
    /\ query[q].place = "line"
    /\ textLog' = [textLog EXCEPT ![opened[query[q].proc]] = @ \cup {Line(q)}]
    /\ query' = [query EXCEPT ![q].place =
                    IF RecordFirst(query[q].outcome) THEN "done" ELSE "record"]
    /\ UNCHANGED <<clock, opened, jsonLog, torn, faults>>

RecordLeft(q) ==
    /\ query[q].place = "record"
    /\ query' = [query EXCEPT ![q].place =
                    IF RecordFirst(query[q].outcome) THEN "line" ELSE "done"]
    /\ UNCHANGED <<clock, opened, textLog>>

(* A record that is appended to a torn one is on the same line, and neither *)
(* can be read.                                                             *)
WriteRecord(q) ==
    /\ RecordLeft(q)
    /\ jsonLog' = [jsonLog EXCEPT ![Day(clock)] =
                    IF Day(clock) \in torn THEN @ ELSE @ \cup {Record(q)}]
    /\ torn' = torn \ {Day(clock)}
    /\ UNCHANGED faults

(* Nothing is written, or a part: a failure never affects the answer.       *)
RecordFails(q) ==
    /\ RecordLeft(q)
    /\ faults < MaxFaults /\ faults' = faults + 1
    /\ torn' \in {torn, torn \cup {Day(clock)}}
    /\ UNCHANGED jsonLog

(* Whatever happens on the server's side once a query is asked. *)
LogStep ==
    \/ Tick
    \/ \E p \in Proc : StartProcess(p) \/ Kill(p)
    \/ \E q \in Query : WriteLine(q) \/ WriteRecord(q) \/ RecordFails(q)

-----------------------------------------------------------------------------
(* The reader. *)

(* Slip: a day that has records takes nothing from the text log. *)
read_dayRecordsOnly(d) == IF jsonLog[d] = {} THEN textLog[d] ELSE jsonLog[d]

(* Slip: up to the first record, its second included. *)
read_dayInclusive(d) ==
    LET first == Min({r.ts : r \in jsonLog[d]})
    IN  IF jsonLog[d] = {} THEN textLog[d]
        ELSE {e \in textLog[d] : e.ts <= first} \cup jsonLog[d]

read_day(d) ==
    LET first == Min({r.ts : r \in jsonLog[d]})
    IN  IF jsonLog[d] = {} THEN textLog[d]
        ELSE {e \in textLog[d] : e.ts < first} \cup jsonLog[d]

(* queries.load over all days; read_day never gives one event to two days.  *)
Events == UNION {read_day(d) : d \in Days}
Counted(q) == {e \in Events : e.q = q}

(* Each line with the day of the file it is in. *)
LinesOf(q) ==
    {x \in Days \X UNION {textLog[d] : d \in Days} :
        x[2] \in textLog[x[1]] /\ x[2].q = q}
RecordsOf(q) == {r \in UNION {jsonLog[d] : d \in Days} : r.q = q}

(* A finished query is missing from the console's figures only if its       *)
(* record could not be written or read back, and the text log its line is   *)
(* in belongs to a day whose records begin no later than that line          *)
(* (read_day, log_query_event).                                             *)
LostOnlyWithoutRecord ==
    \A q \in Query : query[q].place = "done" /\ Counted(q) = {} =>
        /\ RecordsOf(q) = {}
        /\ \A x \in LinesOf(q) : \E r \in jsonLog[x[1]] : r.ts <= x[2].ts

(* A query counts twice only if its process was started on an earlier day   *)
(* than it wrote, so that its line is in that day's file, or if the clock   *)
(* went on between its line and its record; never because of other queries, *)
(* of processes that die or of records that are lost (read_day,             *)
(* setup_query_logging).                                                    *)
TwiceOnlyAcrossTime ==
    \A q \in Query : \A e, f \in Counted(q) : e # f =>
        \E x \in LinesOf(q), r \in RecordsOf(q) :
            x[1] # Day(x[2].ts) \/ x[2].ts < r.ts

(* "the log rotates by calendar day" (query/logging_setup.py:1-3): a query  *)
(* whose line and record are of one second is counted once.  It is counted  *)
(* twice when its process outlived the day its file is named after.         *)
CountedOnce ==
    \A q \in Query : \A x \in LinesOf(q), r \in RecordsOf(q) :
        x[2].ts = r.ts => Cardinality(Counted(q)) = 1
=============================================================================

----------------------------- MODULE LogsProofs -----------------------------
(***************************************************************************)
(* Theorems about AgentLog and the QueryLog it extends, for any number of  *)
(* calls, server processes, reboots and faults: what the query log's       *)
(* reader may lose or count twice, that pulling loses and doubles nothing, *)
(* and that the matcher accuses no call that was answered in time.         *)
(***************************************************************************)
EXTENDS AgentLog, FiniteSetTheorems, SequenceTheorems, WellFoundedInduction, TLAPS

(* The query log: an invariant of both its files. *)

Entry(format) == [q : Query, ts : Nat, format : {format}]

LogTypeOK ==
    /\ clock \in 0 .. MaxTime
    /\ opened \in [Proc -> Days \cup {Down}]
    /\ query \in [Query -> [proc : Proc \cup {"none"},
                            place : {"new", "line", "record", "done", "gone"},
                            begin : Nat, outcome : Outcome \cup {"none"}]]
    /\ textLog \in [Days -> SUBSET Entry("text")]
    /\ jsonLog \in [Days -> SUBSET Entry("jsonl")]

(* A query that is under way has a process, whose text log was opened no    *)
(* later than the query began.                                              *)
UnderWay(q) ==
    query[q].place \in {"line", "record"} =>
        /\ query[q].proc \in Proc
        /\ opened[query[q].proc] \in Days
        /\ opened[query[q].proc] <= Day(query[q].begin)
        /\ query[q].begin <= clock

NoLineYet(q) ==
    \/ query[q].place \in {"new", "line"}
    \/ query[q].place = "record" /\ RecordFirst(query[q].outcome)
NoRecordYet(q) ==
    \/ query[q].place \in {"new", "record"}
    \/ query[q].place = "line" /\ ~RecordFirst(query[q].outcome)

OpenedBefore == \A p \in Proc : opened[p] <= Day(clock)

LinesRight ==
    /\ \A d \in Days : \A e \in textLog[d] :
            ~NoLineYet(e.q) /\ d <= Day(query[e.q].begin)
    /\ \A c, d \in Days : \A e \in textLog[c], f \in textLog[d] : e.q = f.q => e = f

RecordsRight ==
    /\ \A d \in Days : \A r \in jsonLog[d] :
            /\ ~NoRecordYet(r.q)
            /\ query[r.q].begin <= r.ts /\ r.ts <= clock /\ d = Day(r.ts)
    /\ \A c, d \in Days : \A r \in jsonLog[c], s \in jsonLog[d] : r.q = s.q => r = s

(* Min is defined on the times of a day's records. *)
HasFirst(d) == jsonLog[d] # {} => \E r \in jsonLog[d] : \A s \in jsonLog[d] : r.ts <= s.ts

LogInv ==
    /\ LogTypeOK
    /\ OpenedBefore
    /\ \A q \in Query : UnderWay(q)
    /\ LinesRight
    /\ RecordsRight
    /\ \A d \in Days : HasFirst(d)

-----------------------------------------------------------------------------
(* Time goes on by the day. *)
LEMMA DayMonotonic ==
    ASSUME NEW a \in Nat, NEW b \in Nat, a <= b
    PROVE  Day(a) \in Nat /\ Day(b) \in Nat /\ Day(a) <= Day(b)
<1> DEFINE m == Day(a)
           n == Day(b)
<1>1. DayLength \in Nat /\ DayLength > 0
    BY LogAssumption
<1>2. m \in Nat /\ n \in Nat
    BY <1>1 DEF Day
<1>3. DayLength * m <= a /\ b < DayLength * (n + 1)
    BY <1>1 DEF Day
<1> HIDE DEF m, n
<1>4. ASSUME n + 1 <= m PROVE FALSE
  <2>1. DayLength * (n + 1) <= DayLength * m
    BY <1>1, <1>2, <1>4
  <2> QED
    BY <1>1, <1>2, <1>3, <2>1
<1>5. m <= n
    BY <1>2, <1>4
<1> QED
    BY <1>2, <1>5 DEF m, n

LEMMA ToDay == ASSUME LogTypeOK PROVE clock \in Nat /\ Day(clock) \in Days
<1>1. clock \in Nat /\ MaxTime \in Nat /\ clock <= MaxTime
    BY LogAssumption DEF LogTypeOK
<1>2. Day(clock) \in Nat /\ Day(MaxTime) \in Nat /\ Day(clock) <= Day(MaxTime)
    BY <1>1, DayMonotonic
<1> QED
    BY <1>1, <1>2 DEF Days

-----------------------------------------------------------------------------
LEMMA LogInvInit == LogInit => LogInv
<1> SUFFICES ASSUME LogInit PROVE LogInv
    OBVIOUS
<1>1. LogTypeOK
    BY LogAssumption DEF LogInit, LogTypeOK, NotAsked
<1>2. \A q \in Query : UnderWay(q)
    BY DEF LogInit, UnderWay, NotAsked
<1>3. OpenedBefore
    BY <1>1, ToDay DEF LogInit, OpenedBefore, Days, Down
<1> QED
    BY <1>1, <1>2, <1>3 DEF LogInit, LogInv, LinesRight, RecordsRight, HasFirst

LEMMA LogTypeStep ==
    ASSUME LogInv,
           \/ LogStep
           \/ \E q \in Query, p \in Proc, outcome \in Outcome : Ask(q, p, outcome)
           \/ UNCHANGED <<clock, opened, query, textLog, jsonLog>>
    PROVE  LogTypeOK'
<1> USE DEF LogInv, LogTypeOK, Entry
<1>1. CASE Tick
    BY <1>1, LogAssumption DEF Tick
<1>2. ASSUME NEW p \in Proc, StartProcess(p) PROVE LogTypeOK'
    BY <1>2, ToDay DEF StartProcess
<1>3. ASSUME NEW p \in Proc, Kill(p) PROVE LogTypeOK'
    BY <1>3 DEF Kill
<1>4. ASSUME NEW q \in Query, NEW p \in Proc, NEW outcome \in Outcome, Ask(q, p, outcome)
      PROVE  LogTypeOK'
    BY <1>4, ToDay DEF Ask
<1>5. ASSUME NEW q \in Query, WriteLine(q) PROVE LogTypeOK'
    BY <1>5 DEF WriteLine, Line, UnderWay
<1>6. ASSUME NEW q \in Query, WriteRecord(q) PROVE LogTypeOK'
    BY <1>6, ToDay DEF WriteRecord, RecordLeft, Record
<1>7. ASSUME NEW q \in Query, RecordFails(q) PROVE LogTypeOK'
    BY <1>7 DEF RecordFails, RecordLeft
<1>8. CASE UNCHANGED <<clock, opened, query, textLog, jsonLog>>
    BY <1>8
<1> QED
    BY <1>1, <1>2, <1>3, <1>4, <1>5, <1>6, <1>7, <1>8 DEF LogStep

(* Steps after which the logs are what they were. *)
LEMMA LogsKept ==
    ASSUME LogInv, LogTypeOK', textLog' = textLog, jsonLog' = jsonLog, clock <= clock',
           \A q \in Query :
                /\ NoLineYet(q)' => NoLineYet(q)
                /\ NoRecordYet(q)' => NoRecordYet(q)
                /\ \/ NoLineYet(q) /\ NoRecordYet(q)
                   \/ query'[q].begin = query[q].begin
    PROVE  LinesRight' /\ RecordsRight' /\ \A d \in Days : HasFirst(d)'
<1>0. /\ \A d \in Days : \A e \in textLog[d] : e.q \in Query
      /\ \A d \in Days : \A r \in jsonLog[d] : r.q \in Query /\ r.ts \in Nat
      /\ clock \in Int /\ clock' \in Int
    BY DEF LogInv, LogTypeOK, Entry
<1>1. LinesRight'
  <2>1. ASSUME NEW d \in Days, NEW e \in textLog[d]
        PROVE  ~NoLineYet(e.q)' /\ d <= Day(query'[e.q].begin)
    <3>1. e.q \in Query /\ ~NoLineYet(e.q) /\ d <= Day(query[e.q].begin)
        BY <1>0, <2>1 DEF LogInv, LinesRight
    <3> QED
        BY <3>1 DEF NoLineYet, NoRecordYet
  <2> QED
    BY <2>1 DEF LogInv, LinesRight, Day
<1>2. RecordsRight'
  <2>1. ASSUME NEW d \in Days, NEW r \in jsonLog[d]
        PROVE  /\ ~NoRecordYet(r.q)'
               /\ query'[r.q].begin <= r.ts /\ r.ts <= clock' /\ d = Day(r.ts)
    <3>1. /\ r.q \in Query /\ ~NoRecordYet(r.q) /\ r.ts \in Nat
          /\ query[r.q].begin <= r.ts /\ r.ts <= clock /\ d = Day(r.ts)
        BY <1>0, <2>1 DEF LogInv, RecordsRight
    <3> QED
        BY <1>0, <3>1 DEF NoLineYet, NoRecordYet
  <2> QED
    BY <2>1 DEF LogInv, RecordsRight, Day
<1> QED
    BY <1>1, <1>2 DEF LogInv, HasFirst

(* One step of the server's side, or of a query that arrives. *)
LEMMA WriteLineKeeps ==
    ASSUME LogInv, LogTypeOK', NEW q \in Query, WriteLine(q)
    PROVE  LogInv'
<1> DEFINE today == opened[query[q].proc]
<1>1. /\ query[q].place = "line" /\ today \in Days /\ today <= Day(query[q].begin)
      /\ textLog' = [textLog EXCEPT ![today] = @ \cup {Line(q)}]
      /\ Line(q).q = q
    BY DEF LogInv, UnderWay, WriteLine, Line
<1>2. /\ query'[q].place = (IF RecordFirst(query[q].outcome) THEN "done" ELSE "record")
      /\ \A p \in Query : /\ p # q => query'[p] = query[p]
                          /\ query'[p].begin = query[p].begin
                          /\ query'[p].outcome = query[p].outcome
    BY DEF LogInv, LogTypeOK, WriteLine
<1>3. UNCHANGED <<clock, opened, jsonLog>>
    BY DEF WriteLine
<1>4. \A p \in Query : UnderWay(p)'
    BY <1>1, <1>2, <1>3 DEF LogInv, LogTypeOK, UnderWay, Day, WriteLine
<1>5. \A d \in Days : \A e \in textLog[d] : e.q \in Query /\ e.q # q
    BY <1>1 DEF LogInv, LogTypeOK, Entry, LinesRight, NoLineYet
<1>6. \A d \in Days : \A e \in textLog'[d] : e \in textLog[d] \/ (d = today /\ e = Line(q))
    BY <1>1 DEF LogInv, LogTypeOK
<1>7. LinesRight'
  <2>1. ASSUME NEW d \in Days, NEW e \in textLog'[d]
        PROVE  ~NoLineYet(e.q)' /\ d <= Day(query'[e.q].begin)
    <3>1. CASE e \in textLog[d]
        BY <1>2, <1>5, <3>1 DEF LogInv, LinesRight, NoLineYet
    <3>2. CASE d = today /\ e = Line(q)
        BY <1>1, <1>2, <3>2 DEF NoLineYet
    <3> QED
        BY <1>6, <2>1, <3>1, <3>2
  <2>2. ASSUME NEW c \in Days, NEW d \in Days, NEW e \in textLog'[c],
               NEW f \in textLog'[d], e.q = f.q
        PROVE  e = f
    <3>1. Line(q).q = q
        BY <1>1
    <3>2. \/ e \in textLog[c] /\ f \in textLog[d]
          \/ e.q = q /\ f.q = q
        BY <1>5, <1>6, <2>2, <3>1
    <3>3. CASE e \in textLog[c] /\ f \in textLog[d]
        BY <2>2, <3>3 DEF LogInv, LinesRight
    <3>4. CASE e.q = q /\ f.q = q
        BY <1>5, <1>6, <2>2, <3>4
    <3> QED
        BY <3>2, <3>3, <3>4
  <2> QED
    BY <2>1, <2>2 DEF LinesRight, Day
<1>8. RecordsRight'
  <2>1. ASSUME NEW d \in Days, NEW r \in jsonLog'[d]
        PROVE  /\ ~NoRecordYet(r.q)'
               /\ query'[r.q].begin <= r.ts /\ r.ts <= clock' /\ d = Day(r.ts)
    <3>1. /\ r \in jsonLog[d] /\ r.q \in Query /\ ~NoRecordYet(r.q)
          /\ query[r.q].begin <= r.ts /\ r.ts <= clock /\ d = Day(r.ts)
        BY <1>3, <2>1 DEF LogInv, LogTypeOK, Entry, RecordsRight
    <3> QED
        BY <1>1, <1>2, <1>3, <3>1 DEF NoRecordYet
  <2> QED
    BY <1>3, <2>1 DEF LogInv, RecordsRight, Day
<1>9. OpenedBefore'
    BY <1>3 DEF LogInv, OpenedBefore, Day
<1> QED
    BY <1>3, <1>4, <1>7, <1>8, <1>9 DEF LogInv, HasFirst

LEMMA WriteRecordKeeps ==
    ASSUME LogInv, LogTypeOK', NEW q \in Query, WriteRecord(q)
    PROVE  LogInv'
<1> DEFINE today == Day(clock)
<1>1. /\ query[q].place = "record" /\ today \in Days /\ clock \in Nat
      /\ Record(q).q = q /\ Record(q).ts = clock
      /\ query[q].begin <= clock
    BY ToDay DEF LogInv, UnderWay, WriteRecord, RecordLeft, Record
<1>2. /\ query'[q].place = (IF RecordFirst(query[q].outcome) THEN "line" ELSE "done")
      /\ \A p \in Query : /\ p # q => query'[p] = query[p]
                          /\ query'[p].begin = query[p].begin
                          /\ query'[p].outcome = query[p].outcome
                          /\ query'[p].proc = query[p].proc
    BY DEF LogInv, LogTypeOK, WriteRecord, RecordLeft
<1>3. UNCHANGED <<clock, opened, textLog>>
    BY DEF WriteRecord, RecordLeft
<1>4. \A p \in Query : UnderWay(p)'
    BY <1>1, <1>2, <1>3 DEF LogInv, UnderWay, Day
<1>5. \A d \in Days : \A r \in jsonLog[d] : /\ r.q \in Query /\ r.q # q
                                            /\ r.ts \in Nat /\ r.ts <= clock
    BY <1>1 DEF LogInv, LogTypeOK, Entry, RecordsRight, NoRecordYet
<1>6. \A d \in Days : \/ jsonLog'[d] = jsonLog[d]
                      \/ d = today /\ jsonLog'[d] = jsonLog[d] \cup {Record(q)}
    BY <1>1 DEF LogInv, LogTypeOK, WriteRecord
<1>7. LinesRight'
  <2>1. ASSUME NEW d \in Days, NEW e \in textLog'[d]
        PROVE  ~NoLineYet(e.q)' /\ d <= Day(query'[e.q].begin)
    <3>1. e.q \in Query /\ ~NoLineYet(e.q) /\ d <= Day(query[e.q].begin)
        BY <1>3, <2>1 DEF LogInv, LogTypeOK, Entry, LinesRight
    <3> QED
        BY <1>1, <1>2, <3>1 DEF NoLineYet
  <2> QED
    BY <1>3, <2>1 DEF LogInv, LinesRight, Day
<1>8. RecordsRight'
  <2>1. ASSUME NEW d \in Days, NEW r \in jsonLog'[d]
        PROVE  /\ ~NoRecordYet(r.q)'
               /\ query'[r.q].begin <= r.ts /\ r.ts <= clock' /\ d = Day(r.ts)
    <3>1. CASE r \in jsonLog[d]
        BY <1>2, <1>3, <1>5, <3>1 DEF LogInv, RecordsRight, NoRecordYet
    <3>2. CASE d = today /\ r = Record(q)
        BY <1>1, <1>2, <1>3, <3>2 DEF NoRecordYet
    <3> QED
        BY <1>6, <2>1, <3>1, <3>2
  <2>2. ASSUME NEW c \in Days, NEW d \in Days, NEW r \in jsonLog'[c],
               NEW s \in jsonLog'[d], r.q = s.q
        PROVE  r = s
    BY <1>1, <1>5, <1>6, <2>2 DEF LogInv, RecordsRight
  <2> QED
    BY <2>1, <2>2 DEF RecordsRight, Day
<1>9. ASSUME NEW d \in Days PROVE HasFirst(d)'
  <2>1. CASE jsonLog'[d] = jsonLog[d]
    BY <2>1 DEF LogInv, HasFirst
  <2>2. CASE jsonLog'[d] = jsonLog[d] \cup {Record(q)}
    BY <1>1, <1>5, <2>2 DEF LogInv, HasFirst
  <2> QED
    BY <1>6, <2>1, <2>2
<1>10. OpenedBefore'
    BY <1>3 DEF LogInv, OpenedBefore, Day
<1> QED
    BY <1>4, <1>7, <1>8, <1>9, <1>10 DEF LogInv

LEMMA AskKeeps ==
    ASSUME LogInv, LogTypeOK',
           NEW q \in Query, NEW p \in Proc, NEW outcome \in Outcome, Ask(q, p, outcome)
    PROVE  LogInv'
<1>1. /\ query[q].place = "new" /\ opened[p] \in Days
      /\ query' = [query EXCEPT ![q] =
            [proc |-> p, place |-> IF RecordFirst(outcome) THEN "record" ELSE "line",
             begin |-> clock, outcome |-> outcome]]
      /\ UNCHANGED <<clock, opened, textLog, jsonLog>>
    BY DEF LogInv, LogTypeOK, Ask, NotAsked
<1>2. \A r \in Query : UnderWay(r)'
  <2>1. opened[p] <= Day(clock)
    BY <1>1 DEF LogInv, OpenedBefore
  <2>2. ASSUME NEW r \in Query, r # q PROVE UnderWay(r)'
    BY <1>1, <2>2 DEF LogInv, UnderWay, Day
  <2>3. UnderWay(q)'
    BY <1>1, <2>1, ToDay DEF LogInv, LogTypeOK, UnderWay, Day
  <2> QED
    BY <2>2, <2>3
<1>3. OpenedBefore'
    BY <1>1 DEF LogInv, OpenedBefore, Day
<1>4. \A r \in Query : /\ NoLineYet(r)' => NoLineYet(r)
                       /\ NoRecordYet(r)' => NoRecordYet(r)
                       /\ \/ NoLineYet(r) /\ NoRecordYet(r)
                          \/ query'[r].begin = query[r].begin
    BY <1>1 DEF LogInv, LogTypeOK, NoLineYet, NoRecordYet
<1>5. clock <= clock'
    BY <1>1, ToDay DEF LogInv
<1> QED
    BY <1>1, <1>2, <1>3, <1>4, <1>5, LogsKept DEF LogInv

LEMMA LogInvStep ==
    ASSUME LogInv,
           \/ LogStep
           \/ \E q \in Query, p \in Proc, outcome \in Outcome : Ask(q, p, outcome)
           \/ UNCHANGED <<clock, opened, query, textLog, jsonLog>>
    PROVE  LogInv'
<1>0. LogTypeOK /\ LogTypeOK'
    BY LogTypeStep DEF LogInv
<1>t. clock \in Nat /\ Day(clock) \in Days
    BY <1>0, ToDay
<1>1. CASE Tick
  <2>1. Day(clock) <= Day(clock + 1)
    BY <1>t, DayMonotonic
  <2>2. /\ \A q \in Query : UnderWay(q)'
        /\ OpenedBefore'
    <3>1. Day(clock) \in Int /\ Day(clock + 1) \in Int
        BY <1>t, DayMonotonic
    <3>2. \A p \in Proc : opened[p] \in Int
        BY <1>0 DEF LogTypeOK, Days, Down
    <3>3. OpenedBefore'
        BY <1>1, <2>1, <3>1, <3>2 DEF LogInv, OpenedBefore, Tick, Day
    <3> QED
        BY <1>t, <1>0, <1>1, <3>3 DEF LogInv, LogTypeOK, UnderWay, Tick, Day
  <2>3. clock <= clock'
    BY <1>t, <1>1 DEF Tick
  <2> QED
    BY <1>0, <1>1, <2>2, <2>3, LogsKept DEF LogInv, Tick, NoLineYet, NoRecordYet
<1>2. ASSUME NEW p \in Proc, StartProcess(p) PROVE LogInv'
  <2>1. \A q \in Query : UnderWay(q)'
    BY <1>0, <1>2 DEF LogInv, LogTypeOK, UnderWay, StartProcess, Down, Days, Day
  <2>2. OpenedBefore'
    BY <1>0, <1>t, <1>2 DEF LogInv, LogTypeOK, OpenedBefore, StartProcess, Days, Day
  <2> QED
    BY <1>0, <1>t, <1>2, <2>1, <2>2, LogsKept
       DEF LogInv, StartProcess, NoLineYet, NoRecordYet
<1>3. ASSUME NEW p \in Proc, Kill(p) PROVE LogInv'
  <2>1. \A q \in Query : \/ query'[q] = query[q] /\ query[q].proc # p
                         \/ query'[q] = query[q] /\ query[q].place = "done"
                         \/ query'[q] = [query[q] EXCEPT !.place = "gone"]
    BY <1>3 DEF Kill
  <2>2. /\ opened' = [opened EXCEPT ![p] = Down]
        /\ UNCHANGED <<clock, textLog, jsonLog>>
    BY <1>3 DEF Kill
  <2>3. \A q \in Query : /\ NoLineYet(q)' => NoLineYet(q)
                         /\ NoRecordYet(q)' => NoRecordYet(q)
                         /\ query'[q].begin = query[q].begin
    BY <1>0, <2>1 DEF LogTypeOK, NoLineYet, NoRecordYet
  <2>4. ASSUME NEW q \in Query PROVE UnderWay(q)'
    <3>1. CASE query'[q] = query[q] /\ query[q].proc # p
      <4>1. opened'[query[q].proc] = opened[query[q].proc] \/ query[q].proc \notin Proc
        BY <1>0, <2>2, <3>1 DEF LogTypeOK
      <4> QED
        BY <2>2, <3>1, <4>1 DEF LogInv, UnderWay, Day
    <3>2. CASE query'[q].place \in {"done", "gone"}
        BY <3>2 DEF UnderWay
    <3>3. query'[q] = [query[q] EXCEPT !.place = "gone"] => query'[q].place = "gone"
        BY <1>0 DEF LogTypeOK
    <3> QED
        BY <2>1, <3>1, <3>2, <3>3
  <2>5. OpenedBefore'
    <3>1. Down <= Day(clock)
        BY <1>t DEF Days, Down
    <3>2. \A r \in Proc : opened'[r] \in {opened[r], Down}
        BY <1>0, <2>2 DEF LogTypeOK
    <3>3. \A r \in Proc : opened'[r] <= Day(clock)
        BY <3>1, <3>2 DEF LogInv, OpenedBefore
    <3> QED
        BY <2>2, <3>3 DEF OpenedBefore, Day
  <2>6. LinesRight' /\ RecordsRight' /\ \A d \in Days : HasFirst(d)'
    <3>1. clock <= clock'
        BY <1>t, <2>2
    <3> QED
        BY <1>0, <2>2, <2>3, <3>1, LogsKept
  <2> QED
    BY <1>0, <2>4, <2>5, <2>6 DEF LogInv
<1>4. ASSUME NEW q \in Query, NEW p \in Proc, NEW outcome \in Outcome, Ask(q, p, outcome)
      PROVE  LogInv'
    BY <1>0, <1>4, AskKeeps
<1>5. ASSUME NEW q \in Query, WriteLine(q) PROVE LogInv'
    BY <1>0, <1>5, WriteLineKeeps
<1>6. ASSUME NEW q \in Query, WriteRecord(q) PROVE LogInv'
    BY <1>0, <1>6, WriteRecordKeeps
<1>7. ASSUME NEW q \in Query, RecordFails(q) PROVE LogInv'
  <2>1. /\ query[q].place = "record"
        /\ query'[q].place = (IF RecordFirst(query[q].outcome) THEN "line" ELSE "done")
        /\ \A p \in Query : /\ p # q => query'[p] = query[p]
                            /\ query'[p].begin = query[p].begin
                            /\ query'[p].outcome = query[p].outcome
                            /\ query'[p].proc = query[p].proc
        /\ UNCHANGED <<clock, opened, textLog, jsonLog>>
    BY <1>0, <1>7 DEF LogTypeOK, RecordFails, RecordLeft
  <2>2. \A p \in Query : UnderWay(p)'
    BY <2>1 DEF LogInv, UnderWay, Day
  <2>3. OpenedBefore'
    BY <2>1 DEF LogInv, OpenedBefore, Day
  <2>4. \A p \in Query : /\ NoLineYet(p)' => NoLineYet(p)
                         /\ NoRecordYet(p)' => NoRecordYet(p)
    BY <2>1 DEF NoLineYet, NoRecordYet
  <2> QED
    BY <1>0, <1>t, <2>1, <2>2, <2>3, <2>4, LogsKept DEF LogInv
<1>8. CASE UNCHANGED <<clock, opened, query, textLog, jsonLog>>
    BY <1>0, <1>t, <1>8, LogsKept
       DEF LogInv, UnderWay, OpenedBefore, NoLineYet, NoRecordYet, Day
<1> QED
    BY <1>1, <1>2, <1>3, <1>4, <1>5, <1>6, <1>7, <1>8 DEF LogStep

-----------------------------------------------------------------------------
(* What the reader finds on a day: all its records, and of the text log the *)
(* lines from before the first of them.                                     *)
LEMMA FirstOfDay ==
    ASSUME LogInv, NEW d \in Days, jsonLog[d] # {}
    PROVE  LET first == Min({r.ts : r \in jsonLog[d]})
           IN  /\ first \in {r.ts : r \in jsonLog[d]}
               /\ \A r \in jsonLog[d] : first <= r.ts
<1> DEFINE Times == {r.ts : r \in jsonLog[d]}
<1>1. \E x \in Times : \A y \in Times : x <= y
    BY DEF LogInv, HasFirst
<1>2. Min(Times) \in Times /\ \A y \in Times : Min(Times) <= y
    BY <1>1 DEF Min
<1> QED
    BY <1>2

LEMMA RecordsAreRead ==
    ASSUME NEW d \in Days, NEW r \in jsonLog[d] PROVE r \in Events
BY DEF Events, read_day

LEMMA LinesAreRead ==
    ASSUME LogInv, NEW d \in Days, NEW e \in textLog[d],
           \A r \in jsonLog[d] : ~(r.ts <= e.ts)
    PROVE  e \in Events
<1>1. CASE jsonLog[d] = {}
    BY <1>1 DEF Events, read_day
<1>2. CASE jsonLog[d] # {}
  <2> DEFINE first == Min({r.ts : r \in jsonLog[d]})
  <2>1. PICK r \in jsonLog[d] : first = r.ts
    BY <1>2, FirstOfDay
  <2>2. e.ts \in Nat /\ r.ts \in Nat
    BY <2>1 DEF LogInv, LogTypeOK, Entry
  <2>3. e.ts < first
    BY <2>1, <2>2
  <2>4. e \in read_day(d)
    BY <1>2, <2>3 DEF read_day
  <2> QED
    BY <2>4 DEF Events
<1> QED
    BY <1>1, <1>2

LEMMA NothingElseIsRead ==
    ASSUME LogInv, NEW e \in Events
    PROVE  \E d \in Days :
                \/ e \in jsonLog[d]
                \/ e \in textLog[d] /\ \A r \in jsonLog[d] : e.ts < r.ts
<1>1. PICK d \in Days : e \in read_day(d)
    BY DEF Events
<1>2. CASE jsonLog[d] = {}
    BY <1>1, <1>2 DEF read_day
<1>3. CASE jsonLog[d] # {} /\ e \notin jsonLog[d]
  <2> DEFINE first == Min({r.ts : r \in jsonLog[d]})
  <2>1. e \in textLog[d] /\ e.ts < first
    BY <1>1, <1>3 DEF read_day
  <2>2. first \in {r.ts : r \in jsonLog[d]} /\ \A r \in jsonLog[d] : first <= r.ts
    BY <1>3, FirstOfDay
  <2>3. e.ts \in Nat /\ first \in Nat /\ \A r \in jsonLog[d] : r.ts \in Nat
    BY <2>1, <2>2 DEF LogInv, LogTypeOK, Entry
  <2> HIDE DEF first
  <2>4. \A r \in jsonLog[d] : e.ts < r.ts
    BY <2>1, <2>2, <2>3
  <2> QED
    BY <2>1, <2>4
<1> QED
    BY <1>1, <1>2, <1>3

LEMMA LossExplained == LogInv => LostOnlyWithoutRecord
<1> SUFFICES ASSUME LogInv, NEW q \in Query, Counted(q) = {}
             PROVE  /\ RecordsOf(q) = {}
                    /\ \A x \in LinesOf(q) : \E r \in jsonLog[x[1]] : r.ts <= x[2].ts
    BY DEF LostOnlyWithoutRecord
<1>1. RecordsOf(q) = {}
    BY RecordsAreRead DEF RecordsOf, Counted
<1>2. ASSUME NEW x \in LinesOf(q), \A r \in jsonLog[x[1]] : ~(r.ts <= x[2].ts)
      PROVE  FALSE
  <2>1. x[1] \in Days /\ x[2] \in textLog[x[1]] /\ x[2].q = q
    BY <1>2 DEF LinesOf
  <2>2. x[2] \in Events
    BY <1>2, <2>1, LinesAreRead
  <2> QED
    BY <2>1, <2>2 DEF Counted
<1> QED
    BY <1>1, <1>2

(* The two events are the query's line and its record.  Were they of one    *)
(* day, the line would be from before the record; were the record of an     *)
(* earlier day, the process would have been started after the query began.  *)
LEMMA TwiceExplained == LogInv => TwiceOnlyAcrossTime
<1> SUFFICES ASSUME LogInv, NEW q \in Query, NEW e \in Counted(q), NEW f \in Counted(q),
                    e # f
             PROVE  \E x \in LinesOf(q), r \in RecordsOf(q) :
                        x[1] # Day(x[2].ts) \/ x[2].ts < r.ts
    BY DEF TwiceOnlyAcrossTime
<1>1. e \in Events /\ f \in Events /\ e.q = q /\ f.q = q
    BY DEF Counted
<1>2. ASSUME NEW c \in Days, NEW d \in Days, NEW l \in textLog[c], NEW r \in jsonLog[d],
             l.q = q, r.q = q, \A s \in jsonLog[c] : l.ts < s.ts
      PROVE  \E x \in LinesOf(q), s \in RecordsOf(q) :
                x[1] # Day(x[2].ts) \/ x[2].ts < s.ts
  <2>1. <<c, l>> \in LinesOf(q) /\ r \in RecordsOf(q)
    BY <1>2 DEF LinesOf, RecordsOf
  <2>2. l.ts \in Nat /\ r.ts \in Nat /\ query[q].begin \in Nat
    BY <1>2 DEF LogInv, LogTypeOK, Entry
  <2>3. c <= Day(query[q].begin) /\ query[q].begin <= r.ts /\ d = Day(r.ts)
    BY <1>2 DEF LogInv, LinesRight, RecordsRight
  <2>4. ASSUME c = Day(l.ts), ~(l.ts < r.ts) PROVE FALSE
    <3>1. Day(query[q].begin) <= d /\ d <= c
        BY <2>2, <2>3, <2>4, DayMonotonic
    <3>2. c \in Int /\ d \in Int /\ Day(query[q].begin) \in Int
        BY <2>2, <2>3, DayMonotonic, <1>2 DEF Days
    <3>3. c = d
        BY <2>3, <3>1, <3>2
    <3> QED
        BY <1>2, <2>2, <2>4, <3>3
  <2> QED
    BY <2>1, <2>4
<1>3. PICK c \in Days :
            \/ e \in jsonLog[c]
            \/ e \in textLog[c] /\ \A r \in jsonLog[c] : e.ts < r.ts
    BY <1>1, NothingElseIsRead
<1>4. PICK d \in Days :
            \/ f \in jsonLog[d]
            \/ f \in textLog[d] /\ \A r \in jsonLog[d] : f.ts < r.ts
    BY <1>1, NothingElseIsRead
<1>5. ~(e \in jsonLog[c] /\ f \in jsonLog[d]) /\ ~(e \in textLog[c] /\ f \in textLog[d])
    BY <1>1 DEF LogInv, LinesRight, RecordsRight
<1> QED
    BY <1>1, <1>2, <1>3, <1>4, <1>5

-----------------------------------------------------------------------------
(* The agent's log and its copies. *)

Piece == [q : Query, half : {1, 2}]

(* Every copy of the agent's log there is. *)
Copies == {local[fp] : fp \in DOMAIN local}
Logs == {remote, pulling.cur} \cup Copies

(* A log starts with a whole line, or half of one. *)
Shape(A) ==
    A # <<>> => A[1].half = 1 /\ (Len(A) > 1 => A[2] = Half(A[1].q, 2))

Known(A, times) == \A i \in DOMAIN A : times[A[i].q] # Never

(* A call is logged once, so that logs that speak of the same call are of   *)
(* the same life of the agent's machine and start alike.                    *)
OneOrigin(A, B) ==
    \A i \in DOMAIN A, j \in DOMAIN B : A[i].q = B[j].q => A[1] = B[1]

LogsRight ==
    /\ \A A \in Logs : A \in Seq(Piece) /\ Shape(A) /\ Known(A, started)
    /\ \A A, B \in Logs : OneOrigin(A, B)

Begins(A, B) == Len(A) <= Len(B) /\ \A i \in 1 .. Len(A) : A[i] = B[i]

SameStart(A, B) == A # <<>> /\ B # <<>> /\ A[1] = B[1]

(* Within one life a later copy continues an earlier one. *)
LaterContinues ==
    /\ \A A \in Logs : SameStart(A, remote) => Begins(A, remote)
    /\ \A A \in Copies : SameStart(A, pulling.cur) => Begins(A, pulling.cur)

Named == \A fp \in DOMAIN local : local[fp] # <<>> /\ fp = Fingerprint(local[fp])

AgentTypeOK ==
    /\ started \in [Query -> Int]
    /\ pulling \in [place : {"idle", "fetched"}, cur : Seq(Piece)]
    /\ pulling.place = "fetched" <=> pulling.cur # <<>>
    /\ pulling.place = "idle" => pulling = NoPull
    /\ faults \in Nat

AgentInv == AgentTypeOK /\ LogsRight /\ LaterContinues /\ Named

-----------------------------------------------------------------------------
(* A copy that begins another one is a prefix of it, and the other way.     *)
LEMMA PrefixPointwise ==
    ASSUME NEW A \in Seq(Piece), NEW B \in Seq(Piece)
    PROVE  IsPrefix(A, B) <=> Begins(A, B)
<1>1. ASSUME Len(A) <= Len(B)
      PROVE  /\ SubSeq(A, 1, Len(A)) = A
             /\ SubSeq(B, 1, Len(A)) \in Seq(Piece)
             /\ Len(SubSeq(B, 1, Len(A))) = Len(A)
             /\ \A i \in 1 .. Len(A) : SubSeq(B, 1, Len(A))[i] = B[i]
    BY <1>1
<1>2. ASSUME IsPrefix(A, B) PROVE Begins(A, B)
    BY <1>1, <1>2 DEF IsPrefix, Begins
<1>3. ASSUME Begins(A, B) PROVE IsPrefix(A, B)
  <2>1. A = SubSeq(B, 1, Len(A))
    BY <1>1, <1>3, SeqEqual DEF Begins
  <2> QED
    BY <1>1, <1>3, <2>1 DEF Begins, IsPrefix
<1> QED
    BY <1>2, <1>3

LEMMA SameBeginning ==
    ASSUME NEW A \in Seq(Piece), NEW B \in Seq(Piece), Begins(A, B), Len(A) = Len(B)
    PROVE  A = B
BY SeqEqual DEF Begins

LEMMA NoneOneMore ==
    ASSUME NEW A \in Seq(Piece) PROVE A = <<>> \/ Len(A) = 1 \/ Len(A) > 1
<1> DEFINE n == Len(A)
<1>1. n \in Nat /\ (n = 0 => A = <<>>)
    BY EmptySeq
<1> HIDE DEF n
<1>2. n = 0 \/ n = 1 \/ n > 1
    BY <1>1
<1> QED
    BY <1>1, <1>2 DEF n

(* A first part of a log is as good as the log. *)
LEMMA FirstPart ==
    ASSUME NEW A \in Seq(Piece), NEW n \in 1 .. Len(A)
    PROVE  LET P == SubSeq(A, 1, n)
           IN  /\ P \in Seq(Piece) /\ Len(P) = n /\ P # <<>>
               /\ \A i \in 1 .. n : P[i] = A[i]
               /\ DOMAIN P = 1 .. n /\ 1 .. n \subseteq DOMAIN A
               /\ Begins(P, A)
BY DEF Begins

-----------------------------------------------------------------------------
LEMMA AgentInvInit == AgentInit => AgentInv
<1> SUFFICES ASSUME AgentInit PROVE AgentInv
    OBVIOUS
<1>1. Logs = {<<>>} /\ Copies = {} /\ DOMAIN local = {}
    BY DEF AgentInit, NoPull, Logs, Copies
<1> QED
    BY <1>1 DEF AgentInit, LogInit, AgentInv, AgentTypeOK, LogsRight, LaterContinues, Named,
                NoPull, Never, Shape, Known, OneOrigin, SameStart

(* Logs stay right while there are only beginnings of what there was.       *)
LEMMA BeginningsRight ==
    ASSUME LogsRight, started' = started,
           \A A \in Logs' : A \in Seq(Piece) /\ \E B \in Logs : Begins(A, B)
    PROVE  LogsRight'
<1>1. ASSUME NEW A \in Logs' PROVE A \in Seq(Piece) /\ Shape(A) /\ Known(A, started')
  <2>1. PICK B \in Logs : Begins(A, B)
    BY <1>1
  <2>2. A \in Seq(Piece) /\ B \in Seq(Piece) /\ Shape(B) /\ Known(B, started)
    BY <1>1 DEF LogsRight
  <2> QED
    BY <2>1, <2>2 DEF Begins, Shape, Known
<1>2. ASSUME NEW A \in Logs', NEW B \in Logs', NEW i \in DOMAIN A, NEW j \in DOMAIN B,
             A[i].q = B[j].q
      PROVE  A[1] = B[1]
  <2>1. PICK C \in Logs, D \in Logs : Begins(A, C) /\ Begins(B, D)
    BY <1>2
  <2>2. /\ A \in Seq(Piece) /\ B \in Seq(Piece) /\ C \in Seq(Piece) /\ D \in Seq(Piece)
        /\ OneOrigin(C, D)
    BY <1>2 DEF LogsRight
  <2>3. /\ i \in DOMAIN C /\ j \in DOMAIN D /\ A[i] = C[i] /\ B[j] = D[j]
        /\ A[1] = C[1] /\ B[1] = D[1]
    <3>1. /\ DOMAIN A = 1 .. Len(A) /\ DOMAIN B = 1 .. Len(B)
          /\ DOMAIN C = 1 .. Len(C) /\ DOMAIN D = 1 .. Len(D)
          /\ Len(A) \in Nat /\ Len(B) \in Nat /\ Len(C) \in Nat /\ Len(D) \in Nat
        BY <2>2
    <3>2. 1 \in 1 .. Len(A) /\ 1 \in 1 .. Len(B)
        BY <1>2, <3>1
    <3> QED
        BY <1>2, <2>1, <3>1, <3>2 DEF Begins
  <2> QED
    BY <1>2, <2>2, <2>3 DEF OneOrigin
<1> QED
    BY <1>1, <1>2 DEF LogsRight, OneOrigin, Shape

LEMMA BeginsItself == ASSUME NEW A \in Seq(Piece) PROVE Begins(A, A)
BY DEF Begins

(* The remote log goes on by one piece, which begins the log, or speaks of  *)
(* a new call, or ends the line of the last one.                            *)
LEMMA RemoteGrows ==
    ASSUME AgentInv, NEW x \in Piece, remote' = Append(remote, x),
           UNCHANGED <<local, pulling, faults>>, started' \in [Query -> Int],
           \A q \in Query : started[q] # Never => started'[q] # Never,
           started'[x.q] # Never,
           \/ started[x.q] = Never
           \/ remote # <<>> /\ x.q = remote[Len(remote)].q,
           remote = <<>> => x.half = 1,
           Len(remote) = 1 => x = Half(remote[1].q, 2)
    PROVE  AgentInv'
<1>1. /\ remote \in Seq(Piece) /\ remote' \in Seq(Piece)
      /\ Len(remote') = Len(remote) + 1 /\ remote'[Len(remote')] = x
      /\ \A i \in 1 .. Len(remote) : remote'[i] = remote[i]
    BY DEF AgentInv, LogsRight, Logs
<1>2. Copies' = Copies /\ \A A \in Logs' : A = remote' \/ A \in Logs
    BY DEF Copies, Logs
<1>3. /\ remote \in Logs
      /\ \A A \in Logs : A \in Seq(Piece) /\ Shape(A) /\ Known(A, started)
      /\ \A A, B \in Logs : OneOrigin(A, B)
    BY DEF AgentInv, LogsRight, Logs
<1>4. ASSUME NEW A \in Logs PROVE Known(A, started')
  <2>1. ASSUME NEW i \in DOMAIN A PROVE A[i].q \in Query
    <3>1. A \in Seq(Piece)
        BY <1>3
    <3>2. A[i] \in Piece
        BY <2>1, <3>1
    <3> QED
        BY <3>2 DEF Piece
  <2> QED
    BY <1>3, <2>1 DEF Known, Never
<1>5. Shape(remote') /\ Known(remote', started')
  <2>1. Shape(remote')
    <3>1. CASE remote = <<>>
        BY <1>1, <3>1 DEF Shape
    <3>2. CASE Len(remote) = 1
        BY <1>1, <1>3, <3>2 DEF Shape
    <3>3. CASE Len(remote) > 1
        BY <1>1, <1>3, <3>3 DEF Shape
    <3>4. remote = <<>> \/ Len(remote) = 1 \/ Len(remote) > 1
        BY <1>1, NoneOneMore
    <3> QED
        BY <3>1, <3>2, <3>3, <3>4
  <2>2. Known(remote', started')
    BY <1>1, <1>3, <1>4 DEF Known, Never
  <2> QED
    BY <2>1, <2>2
(* What a log says of the call of x, the remote log said before.            *)
<1>6. ASSUME NEW A \in Logs, NEW i \in DOMAIN A, NEW j \in DOMAIN remote',
             A[i].q = remote'[j].q
      PROVE  A[1] = remote'[1]
  <2>1. CASE j \in DOMAIN remote
    BY <1>1, <1>3, <1>6, <2>1 DEF OneOrigin
  <2>2. CASE j = Len(remote')
    <3>1. A[i].q = x.q /\ started[x.q] # Never
        BY <1>1, <1>3, <1>6, <2>2 DEF Known
    <3>2. remote # <<>> /\ Len(remote) \in DOMAIN remote /\ A[i].q = remote[Len(remote)].q
        BY <1>1, <3>1
    <3> QED
        BY <1>1, <1>3, <1>6, <3>2 DEF OneOrigin
  <2> QED
    BY <1>1, <2>1, <2>2
<1>7. LogsRight'
  <2>1. \A A \in Logs' : A \in Seq(Piece) /\ Shape(A) /\ Known(A, started')
    BY <1>1, <1>2, <1>3, <1>4, <1>5
  <2>2. ASSUME NEW A \in Logs', NEW B \in Logs' PROVE OneOrigin(A, B)
    <3>1. CASE A \in Logs /\ B \in Logs
        BY <1>3, <3>1
    <3>2. CASE A \in Logs /\ B = remote'
        BY <1>6, <3>2 DEF OneOrigin
    <3>3. CASE A = remote' /\ B \in Logs
        BY <1>6, <3>3 DEF OneOrigin
    <3>4. CASE A = remote' /\ B = remote'
        BY <3>4 DEF OneOrigin
    <3> QED
        BY <1>2, <3>1, <3>2, <3>3, <3>4
  <2> QED
    BY <2>1, <2>2 DEF LogsRight, OneOrigin, Shape
<1>8. ASSUME NEW A \in Logs', SameStart(A, remote') PROVE Begins(A, remote')
  <2>1. CASE A = remote'
    BY <1>1, <2>1, BeginsItself
  <2>2. CASE A \in Logs
    <3>1. 1 \in DOMAIN A /\ 1 \in DOMAIN remote' /\ A[1].q = remote'[1].q
        BY <1>1, <1>3, <1>8, <2>2 DEF SameStart
    <3>2. remote # <<>>
      <4>1. ASSUME remote = <<>> PROVE FALSE
        <5>1. remote'[1] = x /\ started[x.q] = Never
            BY <1>1, <4>1
        <5> QED
            BY <1>3, <2>2, <3>1, <5>1 DEF Known
      <4> QED
        BY <4>1
    <3>3. Begins(A, remote)
        BY <1>1, <1>8, <2>2, <3>2 DEF AgentInv, LaterContinues, SameStart
    <3> QED
        BY <1>1, <1>3, <2>2, <3>3 DEF Begins
  <2> QED
    BY <1>2, <1>8, <2>1, <2>2
<1>9. LaterContinues'
    BY <1>2, <1>8 DEF AgentInv, LaterContinues, SameStart, Begins
<1>10. AgentTypeOK' /\ Named'
    BY DEF AgentInv, AgentTypeOK, Named, Fingerprint, NoPull
<1> QED
    BY <1>7, <1>9, <1>10 DEF AgentInv

(* A pull that ends leaves the copies alone, or one of them is now a first  *)
(* part of what was fetched.                                                *)
LEMMA PullEnds ==
    ASSUME AgentInv, pulling.place = "fetched", pulling' = NoPull,
           UNCHANGED <<remote, started>>, faults' \in Nat,
           \/ UNCHANGED local
           \/ \E n \in 1 .. Len(pulling.cur) :
                /\ Fingerprint(SubSeq(pulling.cur, 1, n)) = Fingerprint(pulling.cur)
                /\ Keep(pulling.cur, SubSeq(pulling.cur, 1, n))
    PROVE  AgentInv'
<1> DEFINE cur == pulling.cur
           fp == Fingerprint(cur)
<1>1. /\ cur \in Seq(Piece) /\ cur \in Logs /\ remote \in Logs
      /\ \A A \in Logs : A \in Seq(Piece)
      /\ pulling'.cur = <<>>
    BY DEF AgentInv, AgentTypeOK, LogsRight, Logs, NoPull
<1>2. CASE UNCHANGED local
  <2>1. Copies' = Copies /\ \A A \in Logs' : A \in Logs \/ A = <<>>
    BY <1>1, <1>2 DEF Logs, Copies
  <2>2. LogsRight'
    <3>1. ASSUME NEW A \in Logs' PROVE A \in Seq(Piece) /\ \E B \in Logs : Begins(A, B)
      <4>1. CASE A \in Logs
        BY <1>1, <4>1, BeginsItself
      <4>2. CASE A = <<>>
        BY <1>1, <4>2 DEF Begins
      <4> QED
        BY <2>1, <4>1, <4>2
    <3> QED
        BY <3>1, BeginningsRight DEF AgentInv
  <2>3. LaterContinues'
    BY <1>1, <2>1 DEF AgentInv, LaterContinues, SameStart, Begins
  <2> QED
    BY <1>2, <2>2, <2>3 DEF AgentInv, AgentTypeOK, Named, NoPull, Fingerprint
<1>3. ASSUME NEW n \in 1 .. Len(cur), Fingerprint(SubSeq(cur, 1, n)) = fp,
             Keep(cur, SubSeq(cur, 1, n))
      PROVE  AgentInv'
  <2> DEFINE part == SubSeq(cur, 1, n)
  <2>1. /\ part \in Seq(Piece) /\ part # <<>> /\ Begins(part, cur)
        /\ part[1] = cur[1] /\ cur # <<>>
    <3>1. /\ part \in Seq(Piece) /\ part # <<>> /\ Begins(part, cur)
          /\ \A i \in 1 .. n : part[i] = cur[i]
        BY <1>1, <1>3, FirstPart
    <3>2. Len(cur) \in Nat /\ 1 \in 1 .. n /\ cur # <<>>
        BY <1>1, <1>3
    <3> QED
        BY <3>1, <3>2
  <2>2. /\ DOMAIN local' = DOMAIN local \cup {fp}
        /\ local'[fp] = part
        /\ \A g \in DOMAIN local : g # fp => local'[g] = local[g]
    BY <1>3 DEF Keep
  <2> HIDE DEF part, fp
  <2>3. \A A \in Copies' : A = part \/ A \in Copies
    BY <2>2 DEF Copies
  <2>4. \A A \in Logs' : A = part \/ A = <<>> \/ A \in Logs
    BY <1>1, <2>3 DEF Logs
  <2>5. LogsRight'
    <3>1. ASSUME NEW A \in Logs' PROVE A \in Seq(Piece) /\ \E B \in Logs : Begins(A, B)
      <4>1. CASE A \in Logs
        BY <1>1, <4>1, BeginsItself
      <4>2. CASE A = <<>>
        BY <1>1, <4>2 DEF Begins
      <4>3. CASE A = part
        BY <1>1, <2>1, <4>3
      <4> QED
        BY <2>4, <4>1, <4>2, <4>3
    <3> QED
        BY <3>1, BeginningsRight DEF AgentInv
  <2>6. ASSUME NEW A \in Logs', SameStart(A, remote) PROVE Begins(A, remote)
    <3>1. CASE A = part
      <4>1. Begins(cur, remote)
        BY <1>1, <2>1, <2>6, <3>1 DEF AgentInv, LaterContinues, SameStart
      <4> QED
        BY <1>1, <2>1, <3>1, <4>1 DEF Begins
    <3>2. CASE A \in Logs
        BY <2>6, <3>2 DEF AgentInv, LaterContinues
    <3> QED
        BY <2>4, <2>6, <3>1, <3>2 DEF SameStart
  <2>7. LaterContinues'
    BY <1>1, <2>6 DEF LaterContinues, SameStart, Begins
  <2>8. Named'
    BY <1>3, <2>1, <2>2 DEF AgentInv, Named, Fingerprint, part, fp
  <2> QED
    BY <2>5, <2>7, <2>8 DEF AgentInv, AgentTypeOK, NoPull
<1> QED
    BY <1>2, <1>3

(* A fetch copies the remote log, and a reboot empties it. *)
LEMMA FetchKeeps == ASSUME AgentInv, Fetch PROVE AgentInv'
<1>1. remote \in Seq(Piece) /\ remote \in Logs
    BY DEF AgentInv, LogsRight, Logs
<1>2. Copies' = Copies /\ Logs' \subseteq Logs /\ Copies \subseteq Logs
    BY DEF Fetch, Logs, Copies
<1>3. LogsRight'
    BY <1>2 DEF AgentInv, LogsRight, Fetch
<1>4. LaterContinues'
    BY <1>2 DEF AgentInv, LaterContinues, Fetch
<1>5. AgentTypeOK'
    BY <1>1 DEF AgentInv, AgentTypeOK, Fetch, logVars
<1> QED
    BY <1>3, <1>4, <1>5 DEF AgentInv, Named, Fetch, Fingerprint

LEMMA RebootKeeps == ASSUME AgentInv, Reboot PROVE AgentInv'
<1>1. Copies' = Copies /\ \A A \in Logs' : A \in Logs \/ A = <<>>
    BY DEF Reboot, Logs, Copies
<1>2. LogsRight'
  <2>1. ASSUME NEW A \in Logs' PROVE A \in Seq(Piece) /\ \E B \in Logs : Begins(A, B)
    <3>1. CASE A \in Logs
        BY <3>1, BeginsItself DEF AgentInv, LogsRight
    <3>2. CASE A = <<>>
      <4>1. remote \in Logs /\ remote \in Seq(Piece)
        BY DEF AgentInv, LogsRight, Logs
      <4> QED
        BY <3>2, <4>1 DEF Begins
    <3> QED
        BY <1>1, <3>1, <3>2
  <2> QED
    BY <2>1, BeginningsRight DEF AgentInv, Reboot
<1>3. LaterContinues'
    BY <1>1 DEF AgentInv, LaterContinues, SameStart, Reboot
<1> QED
    BY <1>2, <1>3 DEF AgentInv, AgentTypeOK, Named, Reboot, logVars, Fingerprint, NoPull

(* The agent writes. *)
LEMMA ToolStartsKeeps ==
    ASSUME AgentInv, LogTypeOK, NEW q \in Query, ToolStarts(q) PROVE AgentInv'
<1>1. remote \in Seq(Piece) /\ Shape(remote) /\ clock \in Nat
    BY ToDay DEF AgentInv, LogsRight, Logs
<1>2. Len(remote) # 1
    BY <1>1 DEF ToolStarts, MidLine, Last, Shape
<1>3. Half(q, 1) \in Piece /\ Half(q, 1).q = q /\ Half(q, 1).half = 1
    BY DEF Half, Piece
<1>4. /\ started' \in [Query -> Int] /\ started'[q] # Never
      /\ \A p \in Query : started[p] # Never => started'[p] # Never
    BY <1>1 DEF AgentInv, AgentTypeOK, ToolStarts, Never
<1> QED
    BY <1>2, <1>3, <1>4, RemoteGrows DEF ToolStarts, logVars

LEMMA LineEndsKeeps == ASSUME AgentInv, LineEnds PROVE AgentInv'
<1> DEFINE x == Half(Last(remote).q, 2)
<1>1. remote \in Seq(Piece) /\ remote # <<>> /\ Known(remote, started)
    BY DEF AgentInv, LogsRight, Logs, LineEnds, MidLine
<1>2. /\ Len(remote) \in DOMAIN remote /\ Last(remote) = remote[Len(remote)]
      /\ remote[Len(remote)] \in Piece
    BY <1>1 DEF Last
<1>3. x \in Piece /\ x.q = remote[Len(remote)].q /\ started[x.q] # Never
    BY <1>1, <1>2 DEF Half, Piece, Known
<1>4. Len(remote) = 1 => x = Half(remote[1].q, 2)
    BY <1>2
<1>5. remote' = Append(remote, x) /\ started' = started /\ UNCHANGED <<local, pulling, faults>>
    BY DEF LineEnds, logVars
<1> HIDE DEF x
<1> QED
    BY <1>1, <1>3, <1>4, <1>5, RemoteGrows DEF AgentInv, AgentTypeOK

-----------------------------------------------------------------------------
LEMMA FirstLine ==
    ASSUME NEW A \in Seq(Piece), A # <<>>
    PROVE  /\ Fingerprint(A) \in Seq(Piece)
           /\ Len(Fingerprint(A)) = IF Len(A) > 1 THEN 2 ELSE 1
           /\ Fingerprint(A)[1] = A[1]
           /\ Len(A) > 1 => Fingerprint(A)[2] = A[2]
<1>1. Len(A) \in Nat /\ (Len(A) = 1 \/ Len(A) > 1)
    BY NoneOneMore
<1>2. CASE Len(A) > 1
  <2>1. 2 \in 1 .. Len(A) /\ Fingerprint(A) = SubSeq(A, 1, 2)
    BY <1>1, <1>2 DEF Fingerprint
  <2>2. /\ SubSeq(A, 1, 2) \in Seq(Piece) /\ Len(SubSeq(A, 1, 2)) = 2
        /\ \A i \in 1 .. 2 : SubSeq(A, 1, 2)[i] = A[i]
    BY <2>1, FirstPart
  <2> QED
    BY <1>2, <2>1, <2>2
<1>3. CASE Len(A) = 1
  <2>1. 1 \in 1 .. Len(A) /\ Fingerprint(A) = SubSeq(A, 1, 1)
    BY <1>3 DEF Fingerprint
  <2>2. /\ SubSeq(A, 1, 1) \in Seq(Piece) /\ Len(SubSeq(A, 1, 1)) = 1
        /\ \A i \in 1 .. 1 : SubSeq(A, 1, 1)[i] = A[i]
    BY <2>1, FirstPart
  <2> QED
    BY <1>3, <2>1, <2>2
<1> QED
    BY <1>1, <1>2, <1>3

LEMMA SameFirstLine ==
    ASSUME NEW A \in Seq(Piece), NEW B \in Seq(Piece), A # <<>>, B # <<>>,
           A[1] = B[1], (Len(A) > 1) = (Len(B) > 1), Len(A) > 1 => A[2] = B[2]
    PROVE  Fingerprint(A) = Fingerprint(B)
<1> DEFINE f == Fingerprint(A)
           g == Fingerprint(B)
<1>1. f \in Seq(Piece) /\ g \in Seq(Piece) /\ Len(f) = Len(g)
    BY FirstLine
<1>2. \A i \in 1 .. Len(f) : f[i] = g[i]
    BY FirstLine
<1> HIDE DEF f, g
<1>3. f = g
    BY <1>1, <1>2, SeqEqual
<1> QED
    BY <1>3 DEF f, g

(* What a copy of the fetched log is, when there is one. *)
LEMMA CopyOfFetched ==
    ASSUME AgentInv, pulling.place = "fetched", ~IsNew(pulling.cur)
    PROVE  LET A == Copy(pulling.cur)
           IN  /\ A \in Seq(Piece) /\ A # <<>> /\ Begins(A, pulling.cur)
               /\ Fingerprint(A) = Fingerprint(pulling.cur)
<1> DEFINE cur == pulling.cur
           A == Copy(cur)
<1>1. Fingerprint(cur) \in DOMAIN local /\ A = local[Fingerprint(cur)]
    BY DEF IsNew, Copy
<1>2. A \in Copies /\ A \in Logs /\ cur \in Logs
    BY <1>1 DEF Copies, Logs
<1>3. A # <<>> /\ Fingerprint(A) = Fingerprint(cur)
    BY <1>1 DEF AgentInv, Named
<1>4. A \in Seq(Piece) /\ cur \in Seq(Piece) /\ cur # <<>>
    BY <1>2 DEF AgentInv, LogsRight, AgentTypeOK
<1>5. A[1] = cur[1]
    BY <1>3, <1>4, FirstLine
<1>6. Begins(A, cur)
    BY <1>2, <1>3, <1>4, <1>5 DEF AgentInv, LaterContinues, SameStart
<1> QED
    BY <1>3, <1>4, <1>6

(* A part of the fetched log that is as long as the copy has its name.      *)
LEMMA SameName ==
    ASSUME NEW A \in Seq(Piece), NEW B \in Seq(Piece), A # <<>>, B # <<>>,
           Fingerprint(A) = Fingerprint(B), NEW n \in Len(A) .. Len(B)
    PROVE  n \in 1 .. Len(B) /\ Fingerprint(SubSeq(B, 1, n)) = Fingerprint(B)
<1>1. Len(A) \in Nat /\ Len(B) \in Nat /\ Len(A) > 0 /\ Len(B) > 0
    BY EmptySeq
<1>2. n \in 1 .. Len(B)
    BY <1>1
<1> DEFINE P == SubSeq(B, 1, n)
<1>3. /\ P \in Seq(Piece) /\ Len(P) = n /\ P # <<>>
      /\ \A i \in 1 .. n : P[i] = B[i]
    BY <1>2, FirstPart
<1>4. (Len(A) > 1) = (Len(B) > 1)
    BY FirstLine
<1>5. (n > 1) = (Len(B) > 1)
    BY <1>1, <1>2, <1>4
<1> HIDE DEF P
<1>6. P[1] = B[1] /\ (n > 1 => P[2] = B[2])
    BY <1>2, <1>3
<1>7. Fingerprint(P) = Fingerprint(B)
    BY <1>3, <1>5, <1>6, SameFirstLine
<1> QED
    BY <1>2, <1>7 DEF P

LEMMA WholeLog ==
    ASSUME NEW A \in Seq(Piece), A # <<>>
    PROVE  Len(A) \in 1 .. Len(A) /\ SubSeq(A, 1, Len(A)) = A
<1>1. Len(A) \in Nat /\ Len(A) > 0
    BY EmptySeq
<1> QED
    BY <1>1

LEMMA StoreKeeps == ASSUME AgentInv, Store PROVE AgentInv'
<1> DEFINE cur == pulling.cur
<1>1. cur \in Seq(Piece) /\ cur # <<>> /\ pulling.place = "fetched"
    BY DEF AgentInv, AgentTypeOK, Store
<1>2. Len(cur) \in 1 .. Len(cur) /\ SubSeq(cur, 1, Len(cur)) = cur
    BY <1>1, WholeLog
<1>3. \/ UNCHANGED local
      \/ \E n \in 1 .. Len(cur) :
            /\ Fingerprint(SubSeq(cur, 1, n)) = Fingerprint(cur)
            /\ Keep(cur, SubSeq(cur, 1, n))
  <2>1. CASE IsNew(cur) \/ HasGrown(cur)
    <3>1. Keep(cur, SubSeq(cur, 1, Len(cur)))
        BY <1>2, <2>1 DEF Store
    <3> QED
        BY <1>2, <3>1
  <2> QED
    BY <2>1 DEF Store
<1>4. pulling' = NoPull /\ UNCHANGED <<remote, started>> /\ faults' \in Nat
    BY DEF Store, logVars, AgentInv, AgentTypeOK
<1> QED
    BY <1>1, <1>3, <1>4, PullEnds

LEMMA PullKilledKeeps == ASSUME AgentInv, PullKilled PROVE AgentInv'
<1> DEFINE cur == pulling.cur
<1>1. cur \in Seq(Piece) /\ cur # <<>> /\ pulling.place = "fetched"
    BY DEF AgentInv, AgentTypeOK, PullKilled
<1>2. \/ UNCHANGED local
      \/ \E n \in 1 .. Len(cur) :
            /\ Fingerprint(SubSeq(cur, 1, n)) = Fingerprint(cur)
            /\ Keep(cur, SubSeq(cur, 1, n))
  <2>1. ASSUME HasGrown(cur), NEW n \in Len(Copy(cur)) .. Len(cur)
        PROVE  n \in 1 .. Len(cur) /\ Fingerprint(SubSeq(cur, 1, n)) = Fingerprint(cur)
    <3>1. /\ Copy(cur) \in Seq(Piece) /\ Copy(cur) # <<>>
          /\ Fingerprint(Copy(cur)) = Fingerprint(cur)
        BY <1>1, <2>1, CopyOfFetched DEF HasGrown
    <3> QED
        BY <1>1, <2>1, <3>1, SameName
  <2> QED
    BY <2>1 DEF PullKilled
<1>3. pulling' = NoPull /\ UNCHANGED <<remote, started>> /\ faults' \in Nat
    BY DEF PullKilled, AgentInv, AgentTypeOK
<1> QED
    BY <1>1, <1>2, <1>3, PullEnds

-----------------------------------------------------------------------------
LEMMA Inductive == ASSUME LogInv, AgentInv, [Next]_vars PROVE LogInv' /\ AgentInv'
<1>1. ASSUME UNCHANGED agentVars, faults' \in Nat PROVE AgentInv'
    BY <1>1 DEF AgentInv, AgentTypeOK, LogsRight, LaterContinues, Named, agentVars,
                Logs, Copies, Known, Fingerprint, NoPull
<1>2. CASE LogStep /\ UNCHANGED agentVars
  <2>1. faults' \in Nat
    BY <1>2 DEF AgentInv, AgentTypeOK, LogStep, Tick, StartProcess, Kill, WriteLine,
                WriteRecord, RecordLeft, RecordFails
  <2> QED
    BY <1>1, <1>2, <2>1, LogInvStep
<1>3. ASSUME NEW q \in Query, Arrives(q) PROVE LogInv' /\ AgentInv'
  <2>1. faults' \in Nat
    BY <1>3 DEF AgentInv, AgentTypeOK, Arrives, Ask
  <2> QED
    BY <1>1, <1>3, <2>1, LogInvStep DEF Arrives
<1>4. ASSUME \/ \E q \in Query : ToolStarts(q)
             \/ LineEnds \/ Reboot \/ Fetch \/ Store \/ PullKilled \/ UNCHANGED vars
      PROVE  LogInv'
  <2>1. UNCHANGED <<clock, opened, query, textLog, jsonLog>>
    BY <1>4 DEF ToolStarts, LineEnds, Reboot, Fetch, Store, PullKilled, logVars, vars
  <2> QED
    BY <2>1, LogInvStep
<1>5. ASSUME NEW q \in Query, ToolStarts(q) PROVE AgentInv'
    BY <1>5, ToolStartsKeeps DEF LogInv
<1>6. CASE UNCHANGED vars
    BY <1>1, <1>4, <1>6 DEF vars, agentVars, AgentInv, AgentTypeOK
<1> QED
    BY <1>2, <1>3, <1>4, <1>5, <1>6, LineEndsKeeps, RebootKeeps, FetchKeeps, StoreKeeps,
       PullKilledKeeps DEF Next

(* The copies grow, if they change at all. *)
LEMMA CopiesGrow ==
    ASSUME AgentInv, [Next]_vars
    PROVE  \A fp \in DOMAIN local : fp \in DOMAIN local' /\ IsPrefix(local[fp], local'[fp])
<1> DEFINE cur == pulling.cur
<1>1. \A fp \in DOMAIN local : local[fp] \in Seq(Piece)
    BY DEF AgentInv, LogsRight, Logs, Copies
<1>2. CASE UNCHANGED local
    BY <1>1, <1>2, BeginsItself, PrefixPointwise
<1>3. ASSUME pulling.place = "fetched", HasGrown(cur) \/ IsNew(cur),
             NEW n \in 1 .. Len(cur), Keep(cur, SubSeq(cur, 1, n)),
             HasGrown(cur) => n \in Len(Copy(cur)) .. Len(cur),
             NEW fp \in DOMAIN local
      PROVE  fp \in DOMAIN local' /\ IsPrefix(local[fp], local'[fp])
  <2> DEFINE part == SubSeq(cur, 1, n)
  <2>1. cur \in Seq(Piece) /\ part \in Seq(Piece) /\ Len(part) = n
        /\ \A i \in 1 .. n : part[i] = cur[i]
    <3>1. cur \in Seq(Piece)
        BY DEF AgentInv, AgentTypeOK
    <3> QED
        BY <1>3, <3>1, FirstPart
  <2>2. /\ fp \in DOMAIN local'
        /\ local'[fp] = IF fp = Fingerprint(cur) THEN part ELSE local[fp]
    BY <1>3 DEF Keep
  <2> HIDE DEF part
  <2>3. CASE fp = Fingerprint(cur)
    <3>1. HasGrown(cur) /\ local[fp] = Copy(cur)
        BY <1>3, <2>3 DEF IsNew, Copy
    <3>2. Begins(Copy(cur), cur) /\ Copy(cur) \in Seq(Piece)
        BY <1>3, <3>1, CopyOfFetched DEF HasGrown
    <3>3. Begins(Copy(cur), part)
        BY <1>3, <2>1, <3>1, <3>2 DEF Begins
    <3> QED
        BY <2>1, <2>2, <2>3, <3>1, <3>2, <3>3, PrefixPointwise
  <2>4. CASE fp # Fingerprint(cur)
    BY <1>1, <2>2, <2>4, BeginsItself, PrefixPointwise
  <2> QED
    BY <2>3, <2>4
<1>4. CASE Store /\ (IsNew(cur) \/ HasGrown(cur))
  <2>1. /\ cur \in Seq(Piece) /\ cur # <<>> /\ pulling.place = "fetched"
        /\ Keep(cur, cur)
    BY <1>4 DEF AgentInv, AgentTypeOK, Store
  <2>2. Len(cur) \in 1 .. Len(cur) /\ SubSeq(cur, 1, Len(cur)) = cur
    BY <2>1, WholeLog
  <2>3. HasGrown(cur) => Len(cur) \in Len(Copy(cur)) .. Len(cur)
    <3>1. HasGrown(cur) => Begins(Copy(cur), cur) /\ Copy(cur) \in Seq(Piece)
        BY <2>1, CopyOfFetched DEF HasGrown
    <3> QED
        BY <2>1, <3>1 DEF Begins
  <2> QED
    BY <1>3, <1>4, <2>1, <2>2, <2>3
<1>5. ASSUME pulling.place = "fetched", HasGrown(cur),
             NEW n \in Len(Copy(cur)) .. Len(cur), Keep(cur, SubSeq(cur, 1, n))
      PROVE  \A fp \in DOMAIN local : fp \in DOMAIN local' /\ IsPrefix(local[fp], local'[fp])
  <2>1. /\ Copy(cur) \in Seq(Piece) /\ Copy(cur) # <<>>
        /\ Fingerprint(Copy(cur)) = Fingerprint(cur) /\ cur \in Seq(Piece) /\ cur # <<>>
    BY <1>5, CopyOfFetched DEF HasGrown, AgentInv, AgentTypeOK
  <2>2. n \in 1 .. Len(cur)
    BY <1>5, <2>1, SameName
  <2> QED
    BY <1>3, <1>5, <2>2
<1>6. \/ UNCHANGED local
      \/ Store /\ (IsNew(cur) \/ HasGrown(cur))
      \/ PullKilled
  <2>1. CASE (LogStep /\ UNCHANGED agentVars) \/ UNCHANGED vars
    BY <2>1 DEF vars, agentVars
  <2>2. ASSUME NEW q \in Query, Arrives(q) \/ ToolStarts(q) PROVE UNCHANGED local
    BY <2>2 DEF Arrives, ToolStarts, agentVars
  <2>3. CASE LineEnds \/ Reboot \/ Fetch
    BY <2>3 DEF LineEnds, Reboot, Fetch
  <2>4. CASE Store
    BY <2>4 DEF Store
  <2> QED
    BY <2>1, <2>2, <2>3, <2>4 DEF Next
<1>7. CASE PullKilled
    BY <1>2, <1>5, <1>7 DEF PullKilled
<1> QED
    BY <1>2, <1>4, <1>6, <1>7

(* Copies of different names have no line in common. *)
LEMMA OnceByName == AgentInv => LineOnce
<1> SUFFICES ASSUME AgentInv, NEW f \in DOMAIN local, NEW g \in DOMAIN local,
                    NEW q \in WholeLine(local[f]), q \in WholeLine(local[g])
             PROVE  f = g
    BY DEF LineOnce
<1> DEFINE A == local[f]
           B == local[g]
<1>1. A \in Logs /\ B \in Logs
    BY DEF Logs, Copies
<1>2. /\ A \in Seq(Piece) /\ B \in Seq(Piece) /\ Shape(A) /\ Shape(B) /\ OneOrigin(A, B)
      /\ A # <<>> /\ B # <<>> /\ f = Fingerprint(A) /\ g = Fingerprint(B)
    BY <1>1 DEF AgentInv, LogsRight, Named
<1>3. PICK i \in DOMAIN A : A[i].q = q /\ A[i].half = 2
    BY DEF WholeLine, ToSet
<1>4. PICK j \in DOMAIN B : B[j].q = q /\ B[j].half = 2
    BY DEF WholeLine, ToSet
<1> HIDE DEF A, B
<1>5. A[1] = B[1]
    BY <1>2, <1>3, <1>4 DEF OneOrigin
<1>6. Len(A) > 1 /\ Len(B) > 1
  <2>1. A[1].half = 1 /\ B[1].half = 1
    BY <1>2 DEF Shape
  <2>2. /\ i # 1 /\ j # 1 /\ i \in 1 .. Len(A) /\ j \in 1 .. Len(B)
        /\ Len(A) \in Nat /\ Len(B) \in Nat
    BY <1>2, <1>3, <1>4, <2>1
  <2> QED
    BY <2>2
<1>7. A[2] = B[2]
    BY <1>2, <1>5, <1>6 DEF Shape
<1> QED
    BY <1>2, <1>5, <1>6, <1>7, SameFirstLine

LEMMA PullReads ==
    ASSUME AgentInv, LogInv, [Next]_vars,
           pulling.place = "fetched", pulling' = NoPull, UNCHANGED faults
    PROVE  WholeLine(pulling.cur) \subseteq ReadStarts'
<1> DEFINE cur == pulling.cur
<1>1. Store
  <2>1. pulling # NoPull
    BY DEF NoPull
  <2>2. faults' # faults + 1
    BY DEF AgentInv, AgentTypeOK
  <2> QED
    BY <2>1, <2>2 DEF Next, vars, agentVars, Arrives, ToolStarts, LineEnds, Reboot, Fetch,
                      PullKilled
<1>2. CASE IsNew(cur) \/ HasGrown(cur)
  <2>1. Fingerprint(cur) \in DOMAIN local' /\ local'[Fingerprint(cur)] = cur
    BY <1>1, <1>2 DEF Store, Keep
  <2> QED
    BY <2>1 DEF ReadStarts
<1>3. CASE ~IsNew(cur) /\ ~HasGrown(cur)
  <2>1. Copy(cur) \in Seq(Piece) /\ Begins(Copy(cur), cur) /\ cur \in Seq(Piece)
    BY <1>3, CopyOfFetched DEF AgentInv, AgentTypeOK
  <2>2. IsPrefix(Copy(cur), cur)
    BY <2>1, PrefixPointwise
  <2>3. Copy(cur) = cur
    BY <1>3, <2>2 DEF HasGrown, IsStrictPrefix
  <2>4. Fingerprint(cur) \in DOMAIN local' /\ local'[Fingerprint(cur)] = cur
    BY <1>1, <1>3, <2>3 DEF Store, IsNew, Copy
  <2> QED
    BY <2>4 DEF ReadStarts
<1> QED
    BY <1>2, <1>3

-----------------------------------------------------------------------------
(* The starts can be put in order: each to the place that the number of     *)
(* those before it tells.                                                   *)
LEMMA OrderOfStarts ==
    ASSUME NEW S \in SUBSET Query, IsFiniteSet(S), started \in [Query -> Int]
    PROVE  \E s \in [1 .. Cardinality(S) -> S] :
              \A i, j \in DOMAIN s : i < j => Before(s[i], s[j])
<1> DEFINE n == Cardinality(S)
           Below(x) == {y \in S : Before(y, x)}
           rank == [x \in S |-> Cardinality(Below(x)) + 1]
<1>1. n \in Nat
    BY FS_CardinalityType
<1>2. ASSUME NEW x \in S, NEW y \in S PROVE x = y \/ Before(x, y) \/ Before(y, x)
  <2>1. x \in Nat /\ y \in Nat /\ started[x] \in Int /\ started[y] \in Int
    BY AgentAssumption
  <2> QED
    BY <2>1 DEF Before
<1>3. ASSUME NEW x \in S PROVE ~Before(x, x)
  <2>1. x \in Nat /\ started[x] \in Int
    BY AgentAssumption
  <2> QED
    BY <2>1 DEF Before
<1>4. ASSUME NEW x \in S, NEW y \in S, NEW z \in S, Before(x, y), Before(y, z)
      PROVE  Before(x, z)
  <2>1. /\ x \in Nat /\ y \in Nat /\ z \in Nat
        /\ started[x] \in Int /\ started[y] \in Int /\ started[z] \in Int
    BY AgentAssumption
  <2> QED
    BY <1>4, <2>1 DEF Before
<1>5. ASSUME NEW x \in S
      PROVE  /\ IsFiniteSet(Below(x)) /\ Cardinality(Below(x)) \in Nat
             /\ Cardinality(Below(x)) < n
  <2>1. Below(x) \in SUBSET S /\ x \notin Below(x)
    BY <1>3
  <2>2. /\ IsFiniteSet(Below(x)) /\ Cardinality(Below(x)) <= n
        /\ (n = Cardinality(Below(x)) => S = Below(x))
    BY <2>1, FS_Subset
  <2>3. Cardinality(Below(x)) \in Nat
    BY <2>2, FS_CardinalityType
  <2> QED
    BY <1>1, <2>1, <2>2, <2>3
<1>6. ASSUME NEW x \in S, NEW y \in S, Before(x, y)
      PROVE  Cardinality(Below(x)) < Cardinality(Below(y))
  <2>1. Below(x) \in SUBSET Below(y) /\ x \in Below(y) /\ x \notin Below(x)
    BY <1>3, <1>4, <1>6
  <2>2. /\ Cardinality(Below(x)) <= Cardinality(Below(y))
        /\ (Cardinality(Below(y)) = Cardinality(Below(x)) => Below(y) = Below(x))
    BY <1>5, <2>1, FS_Subset
  <2>3. Cardinality(Below(x)) # Cardinality(Below(y))
    BY ONLY <2>1, <2>2
  <2>4. Cardinality(Below(x)) \in Nat /\ Cardinality(Below(y)) \in Nat
    BY <1>5
  <2> QED
    BY ONLY <2>2, <2>3, <2>4
<1> HIDE DEF Below
<1>7. ASSUME NEW x \in S
      PROVE  rank[x] = Cardinality(Below(x)) + 1 /\ rank[x] \in 1 .. n
  <2>1. rank[x] = Cardinality(Below(x)) + 1
    OBVIOUS
  <2> QED
    BY ONLY <1>1, <1>5, <2>1
<1>8. ASSUME NEW x \in S, NEW y \in S, Before(x, y) PROVE rank[x] < rank[y]
    BY ONLY <1>5, <1>6, <1>7, <1>8
<1>9. rank \in [S -> 1 .. n]
    BY <1>7
<1> HIDE DEF rank, n
<1>10. \A x, y \in S : rank[x] = rank[y] => x = y
  <2>1. \A x \in S : rank[x] \in Int
    BY ONLY <1>1, <1>7
  <2> QED
    BY <1>2, <1>8, <2>1
<1>11. rank \in Injection(S, 1 .. n)
    BY <1>9, <1>10 DEF Injection, IsInjective
<1>12. IsFiniteSet(1 .. n) /\ Cardinality(1 .. n) = n
  <2>1. 1 \in Int /\ n \in Int
    BY <1>1
  <2>2. /\ IsFiniteSet(1 .. n)
        /\ Cardinality(1 .. n) = IF 1 > n THEN 0 ELSE n - 1 + 1
    BY ONLY <2>1, FS_Interval
  <2> QED
    BY <1>1, <2>2
<1>13. rank \in Surjection(S, 1 .. n)
    BY <1>11, <1>12, FS_Injection DEF n
<1>14. \A i \in 1 .. n : \E x \in S : rank[x] = i
    BY <1>13 DEF Surjection
<1> DEFINE s == [i \in 1 .. n |-> CHOOSE x \in S : rank[x] = i]
<1>15. \A i \in 1 .. n : s[i] \in S /\ rank[s[i]] = i
    BY <1>14
<1>16. s \in [1 .. n -> S]
    BY <1>15
<1>17. ASSUME NEW i \in 1 .. n, NEW j \in 1 .. n, i < j PROVE Before(s[i], s[j])
  <2> HIDE DEF s
  <2>1. s[i] \in S /\ s[j] \in S /\ rank[s[i]] = i /\ rank[s[j]] = j
    BY <1>15
  <2>2. i \in Int /\ j \in Int
    BY ONLY <1>17, <1>1
  <2>3. s[i] # s[j]
    BY <2>1, <2>2, <1>17
  <2>4. ~Before(s[j], s[i])
    BY <1>8, <2>1, <2>2, <1>17
  <2> QED
    BY <1>2, <2>1, <2>3, <2>4
<1> QED
    BY <1>16, <1>17 DEF n

-----------------------------------------------------------------------------
(* One start is matched. *)

(* A call for each of these starts, and for no two the same. *)
Suits(f, starts) ==
    /\ \A u \in starts : CallStart(f[u]) - started[u] \in 0 .. Window
    /\ \A u, v \in starts : f[u] = f[v] => u = v

CallsTimed == \A e \in Events : e.q \in Query /\ CallStart(e) \in Int

Matching == [unused : SUBSET Events, lone : SUBSET Query]

(* The nearest call may be the one that was meant for a later start.  That  *)
(* one then takes the one that was meant for this: it lies in between.      *)
LEMMA TakeOne ==
    ASSUME started \in [Query -> Int], CallsTimed,
           NEW acc \in Matching, acc.lone = {}, NEW x \in Query,
           NEW later \in SUBSET Query, x \notin later,
           \A u \in later : started[x] <= started[u],
           NEW f \in [later \cup {x} -> acc.unused], Suits(f, later \cup {x})
    PROVE  /\ Take(acc, x) \in Matching /\ Take(acc, x).lone = {}
           /\ \E g \in [later -> Take(acc, x).unused] : Suits(g, later)
<1> DEFINE near == {e \in acc.unused : Distance(x, e) <= Window}
           best == CHOOSE e \in near : \A h \in near : Distance(x, e) <= Distance(x, h)
           times == {Distance(x, e) : e \in near}
<1>1. \A e \in acc.unused : CallStart(e) \in Int
    BY DEF CallsTimed, Matching
<1>2. started[x] \in Int /\ Window \in Nat /\ \A u \in later : started[u] \in Int
    BY AgentAssumption
<1>3. \A e \in acc.unused : Distance(x, e) \in Nat
    BY <1>1, <1>2 DEF Distance
<1>4. f[x] \in near
  <2>1. f[x] \in acc.unused /\ CallStart(f[x]) - started[x] \in 0 .. Window
    BY DEF Suits
  <2>2. Distance(x, f[x]) <= Window
    BY <1>1, <1>2, <2>1 DEF Distance
  <2> QED
    BY <2>1, <2>2
<1>5. \E e \in near : \A h \in near : Distance(x, e) <= Distance(x, h)
  <2>1. times \subseteq Nat /\ times # {}
    BY <1>3, <1>4
  <2>2. PICK d \in times : \A y \in times : <<y, d>> \notin OpToRel(<, Nat)
    BY <2>1, NatLessThanWellFounded, WFMin, Zenon
  <2>3. d \in Nat /\ \A y \in times : y \in Nat => ~ y < d
    BY <2>1, <2>2, Zenon DEF OpToRel
  <2>4. PICK e \in near : d = Distance(x, e)
    OBVIOUS
  <2>5. ASSUME NEW h \in near PROVE Distance(x, e) <= Distance(x, h)
    <3>1. Distance(x, h) \in times /\ Distance(x, h) \in Nat
        BY <1>3
    <3>2. ~ Distance(x, h) < d
        BY <2>3, <3>1
    <3> QED
        BY ONLY <2>3, <2>4, <3>1, <3>2
  <2> QED
    BY <2>5
<1>6. best \in near /\ \A h \in near : Distance(x, best) <= Distance(x, h)
    BY <1>5
<1>7. PICK b \in near : b = best /\ \A h \in near : Distance(x, b) <= Distance(x, h)
    BY <1>6
<1>8. Take(acc, x) = [acc EXCEPT !.unused = @ \ {b}]
    BY <1>4, <1>7 DEF Take
<1>9. PICK next : next = Take(acc, x)
    OBVIOUS
<1>10. next \in Matching /\ next.lone = {} /\ next.unused = acc.unused \ {b}
    BY <1>8, <1>9 DEF Matching
<1> HIDE DEF best
<1>11. CASE \E u \in later : f[u] = b
  <2>1. PICK u \in later : f[u] = b
    BY <1>11
  <2> DEFINE g == [v \in later |-> IF v = u THEN f[x] ELSE f[v]]
  <2>2. CallStart(f[x]) - started[u] \in 0 .. Window
    <3>1. /\ CallStart(b) - started[u] \in 0 .. Window
          /\ CallStart(f[x]) - started[x] \in 0 .. Window
        BY <2>1 DEF Suits
    <3>2. /\ CallStart(b) \in Int /\ CallStart(f[x]) \in Int
          /\ started[u] \in Int /\ started[x] <= started[u]
        BY <1>1, <1>2, <1>4, <1>7, <2>1
    <3>3. Distance(x, b) <= Distance(x, f[x])
        BY <1>4, <1>7
    <3>4. CallStart(b) <= CallStart(f[x])
        BY <1>2, <3>1, <3>2, <3>3 DEF Distance
    <3> QED
        BY ONLY <1>2, <3>1, <3>2, <3>4
  <2>3. f[x] # b /\ \A v \in later \ {u} : f[v] # b
    BY <2>1 DEF Suits
  <2>4. g \in [later -> next.unused]
    BY <1>10, <2>3
  <2>5. Suits(g, later)
    <3>1. \A v \in later : CallStart(g[v]) - started[v] \in 0 .. Window
        BY <2>2 DEF Suits
    <3>2. \A v, w \in later : g[v] = g[w] => v = w
        BY DEF Suits
    <3> QED
        BY <3>1, <3>2 DEF Suits
  <2> QED
    BY <1>9, <1>10, <2>4, <2>5
<1>12. CASE ~\E u \in later : f[u] = b
  <2> DEFINE g == [v \in later |-> f[v]]
  <2>1. g \in [later -> next.unused]
    BY <1>10, <1>12
  <2>2. Suits(g, later)
    BY DEF Suits
  <2> QED
    BY <1>9, <1>10, <2>1, <2>2
<1> QED
    BY <1>11, <1>12

(* One start more is matched. *)

Unmatched == [unused |-> Events, lone |-> {}]

Matched(starts) == FoldLeft(Take, Unmatched, starts)

IsFold(g, s) ==
    g = [T \in SUBSET DOMAIN s |->
            IF T = {} THEN Unmatched ELSE Take(g[T \ {Max(T)}], s[Max(T)])]

(* The starts can be gone through one after the other, in one way. *)
Foldable(s) ==
    /\ \E g : IsFold(g, s)
    /\ \A g, h : IsFold(g, s) /\ IsFold(h, s) => g[DOMAIN s] = h[DOMAIN s]

LEMMA MatchedFolds ==
    ASSUME NEW s, Foldable(s)
    PROVE  \E g : IsFold(g, s) /\ Matched(s) = g[DOMAIN s]
<1>1. IsFold(CHOOSE g : IsFold(g, s), s)
    BY DEF Foldable
<1>2. Matched(s) = (CHOOSE g : IsFold(g, s))[DOMAIN s]
    BY DEF Matched, FoldLeft, MapThenFoldSet, IsFold
<1> QED
    BY ONLY <1>1, <1>2

LEMMA NoneMatched ==
    ASSUME NEW s, DOMAIN s = {} PROVE Foldable(s) /\ Matched(s) = Unmatched
<1> DEFINE g == [T \in SUBSET DOMAIN s |-> Unmatched]
<1>2. IsFold(g, s)
    BY DEF IsFold
<1>3. ASSUME NEW h, IsFold(h, s) PROVE h[DOMAIN s] = Unmatched
    BY <1>3 DEF IsFold
<1>4. Foldable(s)
    BY <1>2, <1>3 DEF Foldable
<1> QED
    BY <1>3, <1>4, MatchedFolds

(* A set of positions that has any has a last one. *)
LEMMA LastPosition ==
    ASSUME NEW n \in Nat, NEW T \in SUBSET (1..n), T # {}
    PROVE  Max(T) \in T
<1> DEFINE below == {n - x : x \in T}
<1>0. \A x \in T : x \in Nat /\ n - x \in Nat
  <2> SUFFICES ASSUME NEW x \in T PROVE x \in Nat /\ n - x \in Nat
    OBVIOUS
  <2>1. x \in 1..n
    OBVIOUS
  <2> QED
    BY ONLY <2>1, n \in Nat
<1>1. below \subseteq Nat /\ below # {}
    BY ONLY <1>0, T # {}
<1>2. PICK b \in below : \A y \in below : <<y, b>> \notin OpToRel(<, Nat)
    BY <1>1, NatLessThanWellFounded, WFMin, Zenon
<1>3. b \in Nat /\ \A y \in below : y \in Nat => ~ y < b
    BY <1>1, <1>2, Zenon DEF OpToRel
<1>4. PICK x \in T : b = n - x
    OBVIOUS
<1>5. ASSUME NEW y \in T PROVE x >= y
  <2>1. n - y \in below /\ n - y \in Nat /\ x \in Nat /\ y \in Nat
    BY <1>0
  <2>2. ~ (n - y < b)
    BY ONLY <1>3, <2>1
  <2> QED
    BY ONLY <1>4, <2>1, <2>2, n \in Nat
<1> QED
    BY ONLY <1>4, <1>5 DEF Max

LEMMA MaxOfPrefix ==
    ASSUME NEW n \in Nat, NEW T \in SUBSET (1..(n + 1)), n + 1 \in T
    PROVE  Max(T) = n + 1
<1>1. \A y \in T : n + 1 >= y
    OBVIOUS
<1>2. \A x \in T : (\A y \in T : x >= y) => x = n + 1
    OBVIOUS
<1> QED
    BY ONLY <1>1, <1>2, n + 1 \in T DEF Max

LEMMA OneMoreMatched ==
    ASSUME NEW s, NEW n \in Nat, DOMAIN s = 1..n, Foldable(s), NEW t, NEW x,
           DOMAIN t = 1..(n + 1), \A i \in 1..n : t[i] = s[i], t[n + 1] = x
    PROVE  Foldable(t) /\ Matched(t) = Take(Matched(s), x)
<1> DEFINE all == 1..(n + 1)
<1>1. ASSUME NEW h, IsFold(h, t)
      PROVE  h[all] = Take(Matched(s), x)
  <2> DEFINE r == [T \in SUBSET (1..n) |-> h[T]]
  <2>1. IsFold(r, s)
    <3>1. ASSUME NEW T \in SUBSET (1..n), T # {}
          PROVE  h[T] = Take(r[T \ {Max(T)}], s[Max(T)])
        <4>1. T \in SUBSET DOMAIN t
            OBVIOUS
        <4>2. h[T] = Take(h[T \ {Max(T)}], t[Max(T)])
            BY <1>1, <3>1, <4>1 DEF IsFold
        <4>3. Max(T) \in T
            BY <3>1, LastPosition
        <4> QED
            BY <4>2, <4>3
    <3>2. h[{}] = Unmatched
        BY <1>1 DEF IsFold
    <3>3. r = [T \in SUBSET (1..n) |->
                  IF T = {} THEN Unmatched ELSE Take(r[T \ {Max(T)}], s[Max(T)])]
        BY ONLY <3>1, <3>2
    <3> QED
        BY <3>3 DEF IsFold
  <2>2. r[1..n] = Matched(s)
    BY <2>1, MatchedFolds DEF Foldable
  <2>3. Max(all) = n + 1 /\ all \ {n + 1} = 1..n /\ all # {} /\ all \in SUBSET DOMAIN t
    <3>1. Max(all) = n + 1
        BY MaxOfPrefix
    <3> QED
        BY <3>1
  <2>4. h[all] = Take(h[all \ {Max(all)}], t[Max(all)])
    BY <1>1, <2>3 DEF IsFold
  <2> QED
    BY <2>2, <2>3, <2>4
<1>2. \E h : IsFold(h, t)
  <2>1. PICK g : IsFold(g, s)
    BY DEF Foldable
  <2> DEFINE h == [T \in SUBSET all |-> IF n + 1 \in T THEN Take(g[T \ {n + 1}], x) ELSE g[T]]
  <2>2. ASSUME NEW T \in SUBSET all, n + 1 \in T
        PROVE  h[T] = Take(h[T \ {Max(T)}], t[Max(T)])
    BY <2>2, MaxOfPrefix
  <2>3. ASSUME NEW T \in SUBSET all, n + 1 \notin T, T # {}
        PROVE  h[T] = Take(h[T \ {Max(T)}], t[Max(T)])
    <3>1. T \in SUBSET (1..n)
        BY <2>3
    <3>2. Max(T) \in T
        BY <2>3, <3>1, LastPosition
    <3>3. g[T] = Take(g[T \ {Max(T)}], s[Max(T)])
        BY <2>1, <2>3, <3>1 DEF IsFold
    <3> QED
        BY <2>3, <3>1, <3>2, <3>3
  <2>4. h[{}] = Unmatched
    BY <2>1 DEF IsFold
  <2>5. h = [T \in SUBSET all |->
                IF T = {} THEN Unmatched ELSE Take(h[T \ {Max(T)}], t[Max(T)])]
    BY ONLY <2>2, <2>3, <2>4
  <2> QED
    BY <2>5 DEF IsFold
<1>3. Foldable(t)
    BY <1>1, <1>2 DEF Foldable
<1>4. Matched(t) = Take(Matched(s), x)
    BY <1>1, <1>3, MatchedFolds
<1> QED
    BY <1>3, <1>4

(* As long as each of the starts to come has a call of its own among those  *)
(* that are left, none is left alone.                                       *)
LEMMA AllMatched ==
    ASSUME started \in [Query -> Int], CallsTimed, NEW n \in Nat, NEW s \in [1 .. n -> Query],
           \A i, j \in 1 .. n : i < j => Before(s[i], s[j]),
           NEW f \in [{s[i] : i \in 1 .. n} -> Events], Suits(f, {s[i] : i \in 1 .. n})
    PROVE  Matched(s).lone = {}
<1> DEFINE P(k) == [i \in 1 .. k |-> s[i]]
           To(k) == {s[i] : i \in (k + 1) .. n}
           Good(k) == /\ Foldable(P(k)) /\ Matched(P(k)) \in Matching
                      /\ Matched(P(k)).lone = {}
                      /\ \E g \in [To(k) -> Matched(P(k)).unused] : Suits(g, To(k))
           Bad == {k \in 0 .. n : ~Good(k)}
<1>1. Good(0)
  <2>1. DOMAIN P(0) = {}
    OBVIOUS
  <2>2. Foldable(P(0)) /\ Matched(P(0)) = Unmatched
    BY <2>1, NoneMatched
  <2>3. To(0) = {s[i] : i \in 1 .. n}
    OBVIOUS
  <2>4. Unmatched \in Matching /\ Unmatched.lone = {} /\ Unmatched.unused = Events
    BY DEF Unmatched, Matching
  <2> QED
    BY <2>2, <2>3, <2>4
<1>2. ASSUME NEW k \in 0 .. n, k < n, Good(k) PROVE Good(k + 1)
  <2>1. k \in Nat /\ k + 1 \in 1 .. n
    BY <1>2
  <2>2. PICK x \in Query : x = s[k + 1]
    BY <2>1
  <2>3. PICK g \in [To(k) -> Matched(P(k)).unused] : Suits(g, To(k))
    BY <1>2
  <2>4. /\ DOMAIN P(k) = 1 .. k /\ DOMAIN P(k + 1) = 1 .. (k + 1)
        /\ \A i \in 1 .. k : P(k + 1)[i] = P(k)[i]
        /\ P(k + 1)[k + 1] = x
    BY <2>1, <2>2
  <2>5. Foldable(P(k + 1)) /\ Matched(P(k + 1)) = Take(Matched(P(k)), x)
    <3> HIDE DEF P
    <3> QED
        BY <1>2, <2>1, <2>4, OneMoreMatched
  <2>6. To(k) = To(k + 1) \cup {x}
    <3>1. (k + 1) .. n = (k + 2) .. n \cup {k + 1}
        BY <1>2, <2>1
    <3>2. k + 2 = (k + 1) + 1
        BY <2>1
    <3> QED
        BY <2>2, <3>1, <3>2
  <2>7. \A i \in (k + 2) .. n : i \in 1 .. n /\ k + 1 < i
    BY <2>1
  <2>8. \A i \in (k + 2) .. n : Before(x, s[i]) /\ s[i] \in Query
    BY <2>1, <2>2, <2>7
  <2>9. x \notin To(k + 1) /\ \A u \in To(k + 1) : started[x] <= started[u]
    <3>1. ~Before(x, x)
        BY AgentAssumption DEF Before
    <3>2. \A u \in Query : Before(x, u) => started[x] <= started[u]
        BY DEF Before
    <3>3. \A u \in To(k + 1) : Before(x, u) /\ u \in Query
        BY <2>1, <2>8
    <3> QED
        BY <3>1, <3>2, <3>3
  <2>10. To(k + 1) \in SUBSET Query
    BY <2>1, <2>8
  <2> HIDE DEF P, To
  <2>12. PICK acc : acc = Matched(P(k))
    OBVIOUS
  <2>13. PICK later : later = To(k + 1)
    OBVIOUS
  <2>14. acc \in Matching /\ acc.lone = {} /\ later \in SUBSET Query /\ x \notin later
         /\ \A u \in later : started[x] <= started[u]
    BY <1>2, <2>9, <2>10, <2>12, <2>13
  <2>15. g \in [later \cup {x} -> acc.unused] /\ Suits(g, later \cup {x})
    BY <2>3, <2>6, <2>12, <2>13
  <2>16. /\ Take(acc, x) \in Matching /\ Take(acc, x).lone = {}
         /\ \E h \in [later -> Take(acc, x).unused] : Suits(h, later)
    BY ONLY <2>14, <2>15, TakeOne, started \in [Query -> Int], CallsTimed, x \in Query
  <2>11. /\ Take(Matched(P(k)), x) \in Matching
         /\ Take(Matched(P(k)), x).lone = {}
         /\ \E h \in [To(k + 1) -> Take(Matched(P(k)), x).unused] : Suits(h, To(k + 1))
    BY <2>12, <2>13, <2>16
  <2> QED
    BY <2>5, <2>11
<1>3. Good(n)
  <2> HIDE DEF Good
  <2> SUFFICES ASSUME ~Good(n) PROVE FALSE
    OBVIOUS
  <2>1. Bad \subseteq Nat /\ Bad # {}
    OBVIOUS
  <2>2. PICK k \in Bad : \A y \in Bad : <<y, k>> \notin OpToRel(<, Nat)
    BY <2>1, NatLessThanWellFounded, WFMin, Zenon
  <2>3. k \in Nat /\ \A y \in Bad : y \in Nat => ~ y < k
    BY <2>1, <2>2, Zenon DEF OpToRel
  <2>4. k # 0 /\ k \in 0 .. n /\ ~Good(k)
    BY <1>1, <2>2
  <2>5. k - 1 \in 0 .. n /\ k - 1 < n /\ k - 1 \in Nat /\ k - 1 < k /\ (k - 1) + 1 = k
    BY ONLY <2>3, <2>4, n \in Nat
  <2>6. Good(k - 1)
    BY <2>3, <2>5
  <2>7. Good((k - 1) + 1)
    BY <1>2, <2>5, <2>6
  <2> QED
    BY <2>4, <2>5, <2>7
<1>4. P(n) = s
    OBVIOUS
<1> QED
    BY <1>3, <1>4

(* Only so many calls have started. *)
FewStarted == \E n \in Nat : \A q \in Query : started[q] # Never => q <= n

LEMMA FewStartedKept ==
    ASSUME LogInv, AgentInv, FewStarted, [Next]_vars PROVE FewStarted'
<1>1. CASE started' = started
    BY <1>1 DEF FewStarted
<1>2. ASSUME NEW q \in Query, ToolStarts(q) PROVE FewStarted'
  <2>1. PICK n \in Nat : \A p \in Query : started[p] # Never => p <= n
    BY DEF FewStarted
  <2>2. q \in Nat /\ \A p \in Query : p \in Nat
    BY AgentAssumption
  <2>3. PICK m \in Nat : n <= m /\ q <= m
    BY ONLY <2>2, n \in Nat
  <2>4. \A p \in Query : p # q => started'[p] = started[p]
    BY <1>2 DEF ToolStarts, AgentInv, AgentTypeOK
  <2>5. \A p \in Query : started'[p] # Never => p <= m
    <3> SUFFICES ASSUME NEW p \in Query, started'[p] # Never PROVE p <= m
        OBVIOUS
    <3>1. p = q \/ p <= n
        BY <2>1, <2>4
    <3>2. p \in Nat
        BY <2>2
    <3> QED
        BY ONLY <2>3, <3>1, <3>2, n \in Nat
  <2> QED
    BY <2>5 DEF FewStarted
<1> QED
    BY <1>1, <1>2 DEF Next, LogStep, Tick, StartProcess, Kill, WriteLine, WriteRecord,
       RecordLeft, RecordFails, Arrives, LineEnds, Reboot, Fetch, Store, PullKilled,
       agentVars, vars

LEMMA StartsRead ==
    ASSUME AgentInv, FewStarted PROVE ReadStarts \in SUBSET Query /\ IsFiniteSet(ReadStarts)
<1>1. PICK n \in Nat : \A q \in Query : started[q] # Never => q <= n
    BY DEF FewStarted
<1>2. ASSUME NEW q \in ReadStarts PROVE q \in Query /\ started[q] # Never
  <2>1. PICK fp \in DOMAIN local : q \in WholeLine(local[fp])
    BY <1>2 DEF ReadStarts
  <2>2. PICK A \in Copies : q \in WholeLine(A)
    BY <2>1 DEF Copies
  <2>3. A \in Seq(Piece) /\ Known(A, started)
    BY DEF AgentInv, LogsRight, Logs
  <2>4. PICK i \in DOMAIN A : A[i].q = q
    BY <2>2 DEF WholeLine, ToSet
  <2>5. A[i] \in Piece
    BY <2>3
  <2> QED
    BY <2>3, <2>4, <2>5 DEF Piece, Known
<1>3. ReadStarts \in SUBSET Nat /\ \A q \in ReadStarts : q <= n
    BY <1>1, <1>2, AgentAssumption
<1>4. IsFiniteSet(ReadStarts)
    BY ONLY <1>3, n \in Nat, FS_BoundedSetOfNaturals
<1> QED
    BY <1>2, <1>4

LEMMA EventsTimed == LogInv => CallsTimed
<1> SUFFICES ASSUME LogInv, NEW e \in Events PROVE e.q \in Query /\ CallStart(e) \in Int
    BY DEF CallsTimed
<1>1. PICK d \in Days : e \in jsonLog[d] \/ e \in textLog[d]
    BY NothingElseIsRead
<1>2. e.q \in Query /\ e.ts \in Nat
    BY <1>1 DEF LogInv, LogTypeOK, Entry
<1>3. query[e.q].begin \in Nat
    BY <1>2 DEF LogInv, LogTypeOK
<1> QED
    BY <1>2, <1>3 DEF CallStart

LEMMA MatchedAll == ASSUME LogInv, AgentInv, FewStarted PROVE NoFalseAlarm
<1> SUFFICES ASSUME \A u \in ReadStarts : \E e \in Events :
                        e.q = u /\ CallStart(e) - started[u] \in 0 .. Window
             PROVE  match.lone = {}
    BY DEF NoFalseAlarm
<1>1. PICK S : S = ReadStarts
    OBVIOUS
<1>2. PICK n : n = Cardinality(S)
    OBVIOUS
<1>3. S \in SUBSET Query /\ IsFiniteSet(S) /\ started \in [Query -> Int] /\ n \in Nat
    BY <1>1, <1>2, StartsRead, FS_CardinalityType DEF AgentInv, AgentTypeOK
<1>4. \E s \in [1 .. n -> S] : \A i, j \in DOMAIN s : i < j => Before(s[i], s[j])
    BY <1>2, <1>3, OrderOfStarts
<1>5. /\ StartsInOrder \in [1 .. n -> S]
      /\ \A i, j \in DOMAIN StartsInOrder :
            i < j => Before(StartsInOrder[i], StartsInOrder[j])
    BY <1>1, <1>2, <1>4 DEF StartsInOrder
<1>6. PICK s \in [1 .. n -> Query] : s = StartsInOrder
    BY <1>3, <1>5
<1>7. \A i, j \in 1 .. n : i < j => Before(s[i], s[j])
    BY <1>5, <1>6
<1>8. PICK all : all = {s[i] : i \in 1 .. n}
    OBVIOUS
<1>9. all \subseteq ReadStarts
    BY <1>1, <1>5, <1>6, <1>8
<1> DEFINE f == [u \in all |-> CHOOSE e \in Events :
                    e.q = u /\ CallStart(e) - started[u] \in 0 .. Window]
<1>10. \A u \in all : /\ f[u] \in Events /\ f[u].q = u
                      /\ CallStart(f[u]) - started[u] \in 0 .. Window
    BY <1>9
<1> HIDE DEF f
<1>11. f \in [all -> Events]
    BY <1>10 DEF f
<1>12. Suits(f, all)
    BY <1>10 DEF Suits
<1>13. PICK g : g = f
    OBVIOUS
<1>14. g \in [{s[i] : i \in 1 .. n} -> Events] /\ Suits(g, {s[i] : i \in 1 .. n})
    BY <1>8, <1>11, <1>12, <1>13
<1>15. Matched(s).lone = {}
    BY <1>3, <1>7, <1>14, EventsTimed, AllMatched
<1> QED
    BY <1>6, <1>15 DEF match, Matched, Unmatched

-----------------------------------------------------------------------------
LEMMA Invariant == Spec => [](LogInv /\ AgentInv)
<1>1. AgentInit => LogInv /\ AgentInv
    BY LogInvInit, AgentInvInit DEF AgentInit
<1>2. LogInv /\ AgentInv /\ [Next]_vars => (LogInv /\ AgentInv)'
    BY Inductive
<1> QED
    BY <1>1, <1>2, PTL DEF Spec

LEMMA FewInvariant == Spec => []FewStarted
<1>1. AgentInit => FewStarted
    BY DEF AgentInit, FewStarted
<1>2. LogInv /\ AgentInv /\ FewStarted /\ [Next]_vars => FewStarted'
    BY FewStartedKept
<1> QED
    BY <1>1, <1>2, Invariant, PTL DEF Spec

-----------------------------------------------------------------------------
(* Theorems. *)

(* A finished query is missing from the figures only without a record, and  *)
(* only if its line is no earlier than its file's records (read_day).       *)
THEOREM NothingLostUnexplained == Spec => []LostOnlyWithoutRecord
<1>1. LogInv => LostOnlyWithoutRecord
    BY LossExplained
<1> QED
    BY <1>1, Invariant, PTL

(* A query counts twice only across a day or a second (read_day).           *)
THEOREM NothingTwiceUnexplained == Spec => []TwiceOnlyAcrossTime
<1>1. LogInv => TwiceOnlyAcrossTime
    BY TwiceExplained
<1> QED
    BY <1>1, Invariant, PTL

(* No pull, wherever it is killed and however often the remote machine has  *)
(* been rebooted, takes anything from a copy (pull_agent_logs.sh:59-84).    *)
THEOREM CopiesOnlyGrow == Spec => LocalGrows
<1>1. AgentInv /\ [Next]_vars =>
        [\A fp \in DOMAIN local : fp \in DOMAIN local' /\ IsPrefix(local[fp], local'[fp])]_vars
    BY CopiesGrow
<1> QED
    BY <1>1, Invariant, PTL DEF Spec, LocalGrows

(* A pull that ends has copied every line it fetched, and none twice.       *)
THEOREM PullsAreComplete == Spec => PullComplete
<1>1. LogInv /\ AgentInv /\ LogInv' /\ AgentInv' /\ [Next]_vars =>
        [pulling.place = "fetched" /\ pulling' = NoPull /\ UNCHANGED faults
            => WholeLine(pulling.cur) \subseteq ReadStarts' /\ LineOnce']_vars
  <2>1. AgentInv' => LineOnce'
    BY OnceByName, PTL
  <2> QED
    BY <2>1, PullReads
<1> QED
    BY <1>1, Invariant, PTL DEF Spec, PullComplete

(* The matcher leaves no start alone when the calls that answer the starts    *)
(* are there and in time, although it gives each start the nearest call, be   *)
(* it another's (console/readers/agent_log.py, match).                        *)
THEOREM NoStartAccused == Spec => []NoFalseAlarm
<1>1. LogInv /\ AgentInv /\ FewStarted => NoFalseAlarm
    BY MatchedAll
<1> QED
    BY <1>1, Invariant, FewInvariant, PTL
=============================================================================

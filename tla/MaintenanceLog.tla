---------------------------- MODULE MaintenanceLog ----------------------------
(***************************************************************************)
(* The console's reader of logs/maintenance.log                            *)
(* (console/readers/maintenance_log.py) over the log that concurrent       *)
(* invocations of run_maintenance.sh write.  Nothing in the file says      *)
(* which invocation a line comes from: the reader goes by the order of the *)
(* lines alone.                                                            *)
(***************************************************************************)
EXTENDS Maintenance, SequencesExt

None == "None"

(* A MaintenanceRun; `of` is the invocation that wrote its start line (its   *)
(* end line when there is no start), which the reader itself does not know.  *)
Started(r) == [of |-> r, result |-> None, stages |-> {}, indexOk |-> FALSE]

(* runs, and whether the last of them is still `cur`. *)
Empty == [runs |-> <<>>, open |-> FALSE]

SetCurrent(st, f) == [st EXCEPT !.runs[Len(st.runs)] = f]

Current(st) == st.runs[Len(st.runs)]

(* _STAGE looks for "ok" and "failed", and the script writes "FAILED". *)
StageMatches(l) == l.what = "stage" /\ l.result = "ok"

(* _END wants "in <digits>s", and fmt_duration writes "1m03s" from a minute on. *)
EndMatches(l) == l.what = "end" /\ ~l.long

(* Slip: a new start line does not close the run before it. *)
ReadStartOnce(st, l) ==
    IF st.open THEN st
    ELSE [runs |-> Append(st.runs, Started(l.run)), open |-> TRUE]

ReadStart(st, l) == [runs |-> Append(st.runs, Started(l.run)), open |-> TRUE]

ReadStage(st, l) ==
    IF ~st.open THEN st
    ELSE SetCurrent(st, [Current(st) EXCEPT !.stages = @ \cup {<<l.stage, l.result>>},
                                       !.indexOk = @ \/ l.stage = 3])

ReadEnd(st, l) ==
    LET last == IF st.open THEN st ELSE ReadStart(st, l)
    IN  [SetCurrent(last, [Current(last) EXCEPT !.result = l.result]) EXCEPT !.open = FALSE]

(* One line of parse_runs; every other line is passed over. *)
ReadLine(st, l) ==
    CASE l.what = "start" -> ReadStart(st, l)
      [] StageMatches(l)  -> ReadStage(st, l)
      [] EndMatches(l)    -> ReadEnd(st, l)
      [] OTHER            -> st

parse_runs(lines) == FoldLeft(ReadLine, Empty, lines).runs

-----------------------------------------------------------------------------
(* What the console's header makes of it (console/health.py).  Whether the  *)
(* last index time is further back than stale_after_hours is `old`.         *)

(* Slip: the start line alone vouches for the index. *)
last_successful_indexAny(runs) == {i \in DOMAIN runs : runs[i].result # "FAILED"}

(* The runs an index time is known of; the newest of them is shown. *)
last_successful_index(runs) == {i \in DOMAIN runs : runs[i].indexOk}

LastFailed(runs) == runs # <<>> /\ Last(runs).result = "FAILED"

warning(runs, old) ==
    IF LastFailed(runs) THEN "maintenance_failed"
    ELSE IF last_successful_index(runs) = {} \/ old THEN "index_stale"
    ELSE "none"

-----------------------------------------------------------------------------
(* Properties. *)

Parsed == parse_runs(log)

(* The invocation got the lock, and as far as its start line. *)
Begun(r) == acquired[r] /\ status[r] # "none"

(* The reader shows every invocation that began, once, and no other one (none *)
(* that was blocked, or killed before its start line), and what it says of a  *)
(* run is true of that very run: no stage or end line of one is taken for     *)
(* another's, although a killed run has no end line, a blocked one writes     *)
(* between the others' lines, and a stage may outlive its script              *)
(* (maintenance_log.py:2-3, 35-37).                                           *)
ReaderIsRight ==
    LET runs == Parsed
    IN  /\ \A i, j \in DOMAIN runs : runs[i].of = runs[j].of => i = j
        /\ {runs[i].of : i \in DOMAIN runs} = {r \in Run : Begun(r)}
        /\ \A i \in DOMAIN runs :
            LET p == runs[i]
            IN  /\ p.result # None => p.result = status[p.of]
                /\ \A s \in p.stages : rc[p.of][s[1]] = s[2]
                /\ p.indexOk => rc[p.of][3] = "ok"

(* The header raises no false alarm and hides no failure it can read of: it *)
(* says that maintenance failed only if the run that started last did, and  *)
(* is silent only if some index stage succeeded and the last run, were its  *)
(* end line of less than a minute, did not fail (health.py:76, 99-102).     *)
HealthIsRight ==
    LET runs == Parsed
        of == Last(runs).of
        endedShort == \E i \in DOMAIN log : log[i].run = of /\ EndMatches(log[i])
    IN  \A old \in BOOLEAN :
            /\ warning(runs, old) = "maintenance_failed" => status[of] = "FAILED"
            /\ warning(runs, old) = "none" =>
                    /\ \E r \in Run : rc[r][3] = "ok"
                    /\ endedShort => status[of] = "OK"

(* "OK | FAILED | None (still running or truncated)"                         *)
(* (maintenance_log.py:21): a run that wrote its end line has a result.      *)
EndedRunsHaveResult ==
    LET runs == Parsed
    IN  \A i \in DOMAIN runs : bash[runs[i].of] = "done" => runs[i].result # None
=============================================================================

----------------------------- MODULE Maintenance -----------------------------
(***************************************************************************)
(* run_maintenance.sh: the cron job that chains ingest -> chunk -> index   *)
(* under a lock, appends to logs/maintenance.log and mails a report.       *)
(*                                                                         *)
(* The lock is flock's: it belongs to the open file description behind fd  *)
(* 200, which every process the script starts inherits.  It is free when   *)
(* the last process that holds that descriptor is gone, be it the script,  *)
(* a stage, the mailer or a stage's pool worker, and not before.           *)
(***************************************************************************)
EXTENDS Naturals, Sequences

CONSTANTS
    Run,       \* invocations of the script
    MaxKills   \* bound: processes killed from outside

ASSUME BoundAssumption == MaxKills \in Nat

Stage == 1..3       \* ingest, chunk, index
PoolStages == {1, 2}  \* the ones that run a ProcessPoolExecutor

VARIABLES
    bash,      \* where the script is
    acquired,  \* its flock call succeeded
    stage,     \* the stage it runs, or runs next; 4 after the last
    child,     \* the process it waits for: "none", "stage" or "mail"
    workers,   \* pool workers without a parent are left of this run
    rc,        \* how each stage of the run ended, "none" before
    status,    \* $STATUS; "BLOCKED" for a run that did not get the lock
    report,    \* what became of the report
    log,       \* logs/maintenance.log: the lines its reader looks at
    kills

vars == <<bash, acquired, stage, child, workers, rc, status, report, log, kills>>

Alive(r) == bash[r] \notin {"off", "done", "killed"}

(* Slip: children do not inherit the descriptor (200>&-). *)
HoldsItself(r) == acquired[r] /\ Alive(r)

Holds(r) == acquired[r] /\ (Alive(r) \/ child[r] # "none" \/ workers[r])

Init ==
    /\ bash = [r \in Run |-> "off"]
    /\ acquired = [r \in Run |-> FALSE]
    /\ stage = [r \in Run |-> 1]
    /\ child = [r \in Run |-> "none"]
    /\ workers = [r \in Run |-> FALSE]
    /\ rc = [r \in Run |-> [k \in Stage |-> "none"]]
    /\ status = [r \in Run |-> "none"]
    /\ report = [r \in Run |-> "none"]
    /\ log = <<>>
    /\ kills = 0

(* One line of the log; `long`: its duration is a minute or more. *)
Line(r, what, k, result, long) ==
    [run |-> r, what |-> what, stage |-> k, result |-> result, long |-> long]

Writes(r, what, k, result) == log' = Append(log, Line(r, what, k, result, FALSE))

Goes(r, where) == bash' = [bash EXCEPT ![r] = where]

-----------------------------------------------------------------------------
(* The script. *)

Begin(r) ==
    /\ bash[r] = "off"
    /\ Goes(r, "lock")
    /\ UNCHANGED <<acquired, stage, child, workers, rc, status, report, log, kills>>

TakeLock(r) ==
    /\ bash[r] = "lock"
    /\ \A q \in Run : ~Holds(q)
    /\ acquired' = [acquired EXCEPT ![r] = TRUE]
    /\ Goes(r, "locked")
    /\ UNCHANGED <<stage, child, workers, rc, status, report, log, kills>>

WriteStart(r) ==
    /\ bash[r] = "locked"
    /\ status' = [status EXCEPT ![r] = "OK"]
    /\ Writes(r, "start", 0, "none")
    /\ Goes(r, "chain")
    /\ UNCHANGED <<acquired, stage, child, workers, rc, report, kills>>

(* Slip: a run without the lock leaves quietly (flock -n ... || exit). *)
BlockedQuietly(r) ==
    /\ bash[r] = "lock"
    /\ \E q \in Run : Holds(q)
    /\ Goes(r, "done")
    /\ UNCHANGED <<acquired, stage, child, workers, rc, status, report, log, kills>>

Blocked(r) ==
    /\ bash[r] = "lock"
    /\ \E q \in Run : Holds(q)
    /\ status' = [status EXCEPT ![r] = "BLOCKED"]
    /\ Writes(r, "blocked", 0, "none")
    /\ Goes(r, "report")
    /\ UNCHANGED <<acquired, stage, child, workers, rc, report, kills>>

Launch(r) ==
    /\ bash[r] = "chain"
    /\ stage[r] \in Stage
    /\ child' = [child EXCEPT ![r] = "stage"]
    /\ Goes(r, "stage")
    /\ UNCHANGED <<acquired, stage, workers, rc, status, report, log, kills>>

StageOk(r) ==
    /\ bash[r] = "stage"
    /\ child[r] = "none"
    /\ rc[r][stage[r]] = "ok"
    /\ Writes(r, "stage", stage[r], "ok")
    /\ stage' = [stage EXCEPT ![r] = @ + 1]
    /\ Goes(r, "chain")
    /\ UNCHANGED <<acquired, child, workers, rc, status, report, kills>>

(* Slip: the exit code is read after another command has set it. *)
StageFailedMissed(r) ==
    /\ bash[r] = "stage"
    /\ child[r] = "none"
    /\ rc[r][stage[r]] = "failed"
    /\ Writes(r, "stage", stage[r], "ok")
    /\ stage' = [stage EXCEPT ![r] = @ + 1]
    /\ Goes(r, "chain")
    /\ UNCHANGED <<acquired, child, workers, rc, status, report, kills>>

(* A stage that fails, or was killed, ends the chain. *)
StageFailed(r) ==
    /\ bash[r] = "stage"
    /\ child[r] = "none"
    /\ rc[r][stage[r]] = "failed"
    /\ status' = [status EXCEPT ![r] = "FAILED"]
    /\ Writes(r, "stage", stage[r], "failed")
    /\ Goes(r, "end")
    /\ UNCHANGED <<acquired, stage, child, workers, rc, report, kills>>

ChainDone(r) ==
    /\ bash[r] = "chain"
    /\ stage[r] \notin Stage
    /\ Goes(r, "end")
    /\ UNCHANGED <<acquired, stage, child, workers, rc, status, report, log, kills>>

End(r) ==
    /\ bash[r] = "end"
    /\ \E long \in BOOLEAN :
          log' = Append(log, Line(r, "end", 0, status[r], long))
    /\ Goes(r, "report")
    /\ UNCHANGED <<acquired, stage, child, workers, rc, status, report, kills>>

(* send_report without an address. *)
NoAddress(r) ==
    /\ bash[r] = "report"
    /\ report' = [report EXCEPT ![r] = "no address"]
    /\ Goes(r, "done")
    /\ UNCHANGED <<acquired, stage, child, workers, rc, status, log, kills>>

StartMail(r) ==
    /\ bash[r] = "report"
    /\ child' = [child EXCEPT ![r] = "mail"]
    /\ Goes(r, "mail")
    /\ UNCHANGED <<acquired, stage, workers, rc, status, report, log, kills>>

(* Slip: the report is sent until it has been sent. *)
MailRetried(r) ==
    /\ bash[r] = "mail"
    /\ child[r] = "none"
    /\ \E sent \in {"mailed", "mail failed"} :
          /\ report' = [report EXCEPT ![r] = sent]
          /\ Goes(r, IF sent = "mailed" THEN "done" ELSE "report")
    /\ UNCHANGED <<acquired, stage, child, workers, rc, status, log, kills>>

MailDone(r) ==
    /\ bash[r] = "mail"
    /\ child[r] = "none"
    /\ \E sent \in {"mailed", "mail failed"} :
          report' = [report EXCEPT ![r] = sent]
    /\ Goes(r, "done")
    /\ UNCHANGED <<acquired, stage, child, workers, rc, status, log, kills>>

Script(r) ==
    \/ TakeLock(r) \/ WriteStart(r) \/ Blocked(r) \/ Launch(r) \/ StageOk(r)
    \/ StageFailed(r) \/ ChainDone(r) \/ End(r) \/ NoAddress(r) \/ StartMail(r) \/ MailDone(r)

-----------------------------------------------------------------------------
(* The processes it starts, and what can kill them. *)

ChildExits(r) ==
    /\ child[r] # "none"
    /\ child' = [child EXCEPT ![r] = "none"]
    /\ IF child[r] = "stage"
       THEN \E code \in {"ok", "failed"} :
               rc' = [rc EXCEPT ![r] = [@ EXCEPT ![stage[r]] = code]]
       ELSE rc' = rc
    /\ UNCHANGED <<bash, acquired, stage, workers, status, report, log, kills>>

(* The script is killed; what it started goes on. *)
KillScript(r) ==
    /\ Alive(r)
    /\ kills < MaxKills
    /\ kills' = kills + 1
    /\ Goes(r, "killed")
    /\ UNCHANGED <<acquired, stage, child, workers, rc, status, report, log>>

(* A stage's main process is killed.  Its pool workers, if it has any then,   *)
(* wait for work that never comes: each of them keeps the writing end of      *)
(* their queue open.                                                          *)
KillStage(r) ==
    /\ child[r] = "stage"
    /\ kills < MaxKills
    /\ kills' = kills + 1
    /\ child' = [child EXCEPT ![r] = "none"]
    /\ rc' = [rc EXCEPT ![r] = [@ EXCEPT ![stage[r]] = "failed"]]
    /\ \E pool \in BOOLEAN :
          /\ pool => stage[r] \in PoolStages
          /\ workers' = [workers EXCEPT ![r] = pool]
    /\ UNCHANGED <<bash, acquired, stage, status, report, log>>

RunNext(r) == Begin(r) \/ Script(r) \/ ChildExits(r) \/ KillScript(r) \/ KillStage(r)

(* Every invocation is over. *)
Over ==
    /\ \A r \in Run : bash[r] \in {"done", "killed"} /\ child[r] = "none"
    /\ UNCHANGED vars

Next == (\E r \in Run : RunNext(r)) \/ Over

Spec == Init /\ [][Next]_vars

(* A live script takes its next step, and what it started ends: Ollama calls *)
(* and subprocess conversions have timeouts, the stages' loops are finite.   *)
FairSpec == Spec /\ \A r \in Run : WF_vars(Script(r)) /\ WF_vars(ChildExits(r))

-----------------------------------------------------------------------------
(* Properties. *)

TypeOK ==
    /\ bash \in [Run -> {"off", "lock", "locked", "chain", "stage", "end", "report",
                         "mail", "done", "killed"}]
    /\ acquired \in [Run -> BOOLEAN]
    /\ stage \in [Run -> 1..4]
    /\ child \in [Run -> {"none", "stage", "mail"}]
    /\ workers \in [Run -> BOOLEAN]
    /\ rc \in [Run -> [Stage -> {"none", "ok", "failed"}]]
    /\ status \in [Run -> {"none", "OK", "FAILED", "BLOCKED"}]
    /\ report \in [Run -> {"none", "mailed", "mail failed", "no address"}]
    /\ kills \in Nat

(* No two stages ever run at once, even when a script was killed and the     *)
(* stage it had started goes on alone: the stages share manifest.db and      *)
(* assume that they are its only writer (run_maintenance.sh:82-95).          *)
OneStageAtATime ==
    \A q, r \in Run : child[q] = "stage" /\ child[r] = "stage" => q = r

(* Stages depend on each other's output: one runs only after the ones before *)
(* it exited 0 in this very run, whoever killed what (run_maintenance.sh:13). *)
FailFast ==
    \A r \in Run : child[r] = "stage" => \A k \in 1..(stage[r] - 1) : rc[r][k] = "ok"

(* A run that reports OK had all three stages exit 0, and none is running. *)
OkIsTrue ==
    \A r \in Run : bash[r] = "done" /\ status[r] = "OK"
        => child[r] = "none" /\ \A k \in Stage : rc[r][k] = "ok"

(* "Every run - success, failure, or blocked by the lock" reports            *)
(* (run_maintenance.sh:15), unless it is killed.                             *)
EveryRunReports ==
    \A r \in Run : bash[r] = "lock"
        ~> \/ bash[r] = "killed"
           \/ bash[r] = "done" /\ report[r] # "none" /\ status[r] # "none"

(* A run does not block later ones for ever, killed or not, as long as none  *)
(* of its pool workers is left behind.                                       *)
LockFreed ==
    \A r \in Run : acquired[r] ~> (workers[r] \/ ~Holds(r))

(* "released automatically if the holder dies without cleaning up, so       *)
(* there's no stale-PID logic to get wrong" (run_maintenance.sh:83-84): the  *)
(* same without that exception.                                              *)
LockReleased ==
    \A r \in Run : acquired[r] ~> ~Holds(r)
=============================================================================

------------------------------ MODULE AgentLog ------------------------------
(***************************************************************************)
(* The log of the agent that asks the questions, on another machine that   *)
(* loses it at every reboot; the copies scripts/pull_agent_logs.sh makes;  *)
(* and what console/readers/agent_log.py concludes from the copies and the *)
(* query log (QueryLog).  Here every query is asked by the agent, which    *)
(* logs the start of its tool call first.  A log line is written in two    *)
(* halves, the newline in the second; one remote file is followed, as each *)
(* is treated by itself.                                                   *)
(***************************************************************************)
EXTENDS QueryLog

CONSTANTS
    Window,       \* the matcher's window, in seconds
    MaxReboots

ASSUME AgentAssumption == Query \subseteq Nat /\ Window \in Nat

VARIABLES
    remote,       \* the halves in the remote log
    started,      \* when the agent logged the start of each call, or Never
    local,        \* the copies, by the fingerprint in their name
    pulling,      \* the pull that is under way: where it is, what it fetched
    reboots
agentVars == <<remote, started, local, pulling, reboots>>
vars == <<clock, opened, query, textLog, jsonLog, torn, faults,
          remote, started, local, pulling, reboots>>

Never == -1
NoPull == [place |-> "idle", cur |-> <<>>]

AgentInit ==
    /\ LogInit
    /\ remote = <<>>
    /\ started = [q \in Query |-> Never]
    /\ local = <<>>
    /\ pulling = NoPull
    /\ reboots = 0

-----------------------------------------------------------------------------
(* The agent and its machine. *)

Half(q, n) == [q |-> q, half |-> n]
WholeLine(log) == {h.q : h \in {x \in ToSet(log) : x.half = 2}}
MidLine == remote # <<>> /\ Last(remote).half = 1

(* Calls are numbered as they start. *)
ToolStarts(q) ==
    /\ started[q] = Never /\ ~MidLine
    /\ \A p \in Query : p < q => started[p] # Never
    /\ started' = [started EXCEPT ![q] = clock]
    /\ remote' = Append(remote, Half(q, 1))
    /\ UNCHANGED <<logVars, local, pulling, reboots>>

LineEnds ==
    /\ MidLine
    /\ remote' = Append(remote, Half(Last(remote).q, 2))
    /\ UNCHANGED <<logVars, started, local, pulling, reboots>>

Reboot ==
    /\ remote # <<>> /\ reboots < MaxReboots
    /\ remote' = <<>>
    /\ reboots' = reboots + 1
    /\ UNCHANGED <<logVars, started, local, pulling>>

-----------------------------------------------------------------------------
(* A pull.  The lock on .pull.lock keeps it the only one. *)

(* Slip: the copy is named after the date alone. *)
FingerprintOfDate(cur) == <<>>

(* head -n1 of the fetched file; its hash, so that two are the same only if *)
(* their first lines are.                                                   *)
Fingerprint(cur) == SubSeq(cur, 1, IF Len(cur) > 1 THEN 2 ELSE 1)

Fetch ==
    /\ pulling = NoPull
    /\ remote # <<>>
    /\ pulling' = [place |-> "fetched", cur |-> remote]
    /\ UNCHANGED <<logVars, remote, started, local, reboots>>

Copy(cur) == local[Fingerprint(cur)]
IsNew(cur) == Fingerprint(cur) \notin DOMAIN local
HasGrown(cur) == ~IsNew(cur) /\ IsStrictPrefix(Copy(cur), cur)
Keep(cur, content) ==
    local' = [fp \in DOMAIN local \cup {Fingerprint(cur)} |->
                IF fp = Fingerprint(cur) THEN content ELSE local[fp]]

(* New copies are renamed into place, grown ones appended to; a shorter or  *)
(* equal one is left alone, a different one saved under a name that is not  *)
(* read.                                                                    *)
Store ==
    /\ pulling.place = "fetched"
    /\ IF IsNew(pulling.cur) \/ HasGrown(pulling.cur)
       THEN Keep(pulling.cur, pulling.cur) ELSE UNCHANGED local
    /\ pulling' = NoPull
    /\ UNCHANGED <<logVars, remote, started, reboots>>

(* Slip: the copy is written anew instead of appended to. *)
PullKilledRewrites ==
    /\ pulling.place = "fetched"
    /\ faults < MaxFaults /\ faults' = faults + 1
    /\ HasGrown(pulling.cur)
    /\ \E n \in 0 .. Len(pulling.cur) : Keep(pulling.cur, SubSeq(pulling.cur, 1, n))
    /\ pulling' = NoPull
    /\ UNCHANGED <<clock, opened, query, textLog, jsonLog, torn, remote, started, reboots>>

(* A pull is killed: a new copy is not yet in place, of a grown one a part  *)
(* may have been appended.                                                  *)
PullKilled ==
    /\ pulling.place = "fetched"
    /\ faults < MaxFaults /\ faults' = faults + 1
    /\ \/ UNCHANGED local
       \/ /\ HasGrown(pulling.cur)
          /\ \E n \in Len(Copy(pulling.cur)) .. Len(pulling.cur) :
                Keep(pulling.cur, SubSeq(pulling.cur, 1, n))
    /\ pulling' = NoPull
    /\ UNCHANGED <<clock, opened, query, textLog, jsonLog, torn, remote, started, reboots>>

-----------------------------------------------------------------------------
(* The console. *)

(* parse_lines, read_dir: half a line is no JSON and is skipped; the starts *)
(* are sorted by their time.                                                *)
ReadStarts == UNION {WholeLine(local[fp]) : fp \in DOMAIN local}
Before(a, b) == started[a] < started[b] \/ (started[a] = started[b] /\ a < b)
StartsInOrder ==
    CHOOSE s \in [1 .. Cardinality(ReadStarts) -> ReadStarts] :
        \A i, j \in DOMAIN s : i < j => Before(s[i], s[j])

(* mcp_calls_from_events: a call began its duration before its line; a text *)
(* line of a refusal or an error tells no duration.                         *)
CallStart(e) ==
    IF e.format = "jsonl" \/ query[e.q].outcome \in {"answered", "general_knowledge"}
    THEN query[e.q].begin ELSE e.ts

(* match: each start takes the nearest call within the window that no       *)
(* earlier one has taken.                                                   *)
Distance(s, e) == LET d == CallStart(e) - started[s] IN IF d < 0 THEN -d ELSE d

(* Slip: all calls within the window are used up. *)
TakeAll(acc, s) ==
    LET near == {e \in acc.unused : Distance(s, e) <= Window}
    IN  IF near = {} THEN [acc EXCEPT !.lone = @ \cup {s}]
        ELSE [acc EXCEPT !.unused = @ \ near]

Take(acc, s) ==
    LET near == {e \in acc.unused : Distance(s, e) <= Window}
        best == CHOOSE e \in near : \A f \in near : Distance(s, e) <= Distance(s, f)
    IN  IF near = {} THEN [acc EXCEPT !.lone = @ \cup {s}]
        ELSE [acc EXCEPT !.unused = @ \ {best}]

match == FoldLeft(Take, [unused |-> Events, lone |-> {}], StartsInOrder)

-----------------------------------------------------------------------------
(* The agent's call arrives after its line was begun. *)
Arrives(q) ==
    /\ started[q] # Never
    /\ \E p \in Proc, outcome \in Outcome : Ask(q, p, outcome)
    /\ UNCHANGED agentVars

Next ==
    \/ LogStep /\ UNCHANGED agentVars
    \/ \E q \in Query : Arrives(q) \/ ToolStarts(q)
    \/ LineEnds \/ Reboot \/ Fetch \/ Store \/ PullKilled
Spec == AgentInit /\ [][Next]_vars

(* Nothing copied is lost: a local copy is only ever added to, whatever the *)
(* remote log does and wherever a pull is killed ("nothing local is ever    *)
(* overwritten or deleted", pull_agent_logs.sh:13).                         *)
LocalGrows ==
    [][\A fp \in DOMAIN local : fp \in DOMAIN local' /\ IsPrefix(local[fp], local'[fp])]_vars

LineOnce ==
    \A f, g \in DOMAIN local : f # g => WholeLine(local[f]) \cap WholeLine(local[g]) = {}

(* A pull that ends has copied every whole line it fetched to where the     *)
(* console reads it, and no line is there twice, though the first line of a *)
(* log that was fetched half-written has another fingerprint afterwards     *)
(* (pull_agent_logs.sh:59-84).                                              *)
PullComplete ==
    [][pulling.place = "fetched" /\ pulling' = NoPull /\ UNCHANGED faults
        => WholeLine(pulling.cur) \subseteq ReadStarts' /\ LineOnce']_vars

(* No false alarm: when every start the console has read was answered by a  *)
(* counted call that, as far as the log tells, began within the window      *)
(* after it, the matcher leaves no start without one, whichever other calls *)
(* there are, counted twice or not (match, analyze).                        *)
NoFalseAlarm ==
    (\A s \in ReadStarts : \E e \in Events :
        e.q = s /\ CallStart(e) - started[s] \in 0 .. Window)
    => match.lone = {}
=============================================================================

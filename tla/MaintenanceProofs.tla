-------------------------- MODULE MaintenanceProofs --------------------------
(***************************************************************************)
(* Theorems about Maintenance and the reader of its log, for every set of  *)
(* invocations and any number of killed processes.                         *)
(***************************************************************************)
EXTENDS MaintenanceLog, WellFoundedInduction, TLAPS

(* The lock has one holder; this is what keeps the stages of two runs apart. *)
OneHolder == \A q, r \in Run : Holds(q) /\ Holds(r) => q = r

AllOkBefore(r) == \A k \in 1..(stage[r] - 1) : rc[r][k] = "ok"

(* What is known of a run by where its script is. *)
Waiting(r) ==
    bash[r] \in {"off", "lock"}
        => ~acquired[r] /\ child[r] = "none" /\ stage[r] = 1

Locking(r) ==
    bash[r] = "locked"
        => acquired[r] /\ child[r] = "none" /\ stage[r] = 1 /\ status[r] = "none"

Unreported(r) == bash[r] \in {"off", "lock"} => status[r] = "none"

Chaining(r) ==
    bash[r] \in {"chain", "stage"}
        => acquired[r] /\ status[r] = "OK" /\ AllOkBefore(r)

Between(r) == bash[r] \in {"chain", "end", "report", "done"} => child[r] = "none"

InStage(r) == bash[r] = "stage" => stage[r] \in Stage

Ending(r) ==
    bash[r] \in {"end", "report", "mail", "done"} /\ status[r] = "OK"
        => \A k \in Stage : rc[r][k] = "ok"

(* A stage that runs, with or without its script. *)
StageRuns(r) ==
    child[r] = "stage"
        => /\ bash[r] \in {"stage", "killed"}
           /\ acquired[r] /\ stage[r] \in Stage /\ AllOkBefore(r)

RunInv(r) == /\ Waiting(r)
             /\ Unreported(r)
             /\ Locking(r)
             /\ Chaining(r)
             /\ Between(r)
             /\ InStage(r)
             /\ Ending(r)
             /\ StageRuns(r)

IInv == TypeOK /\ OneHolder /\ \A r \in Run : RunInv(r)

-----------------------------------------------------------------------------
LEMMA InitIInv == Init => IInv
  BY BoundAssumption DEF Init, IInv, TypeOK, OneHolder, RunInv, Waiting, Unreported, Locking,
     Chaining, Between, InStage, Ending, StageRuns, AllOkBefore, Holds, Alive, Stage

(* The types of the successor state. *)
LEMMA StepTypes == ASSUME IInv, [Next]_vars PROVE TypeOK'
<1> USE DEF TypeOK, Stage
<1>0. TypeOK /\ \A r \in Run : RunInv(r)
  BY DEF IInv
<1>1. CASE UNCHANGED vars
  BY <1>0, <1>1 DEF vars
<1>2. CASE Over
  BY <1>0, <1>2 DEF Over, vars
<1>3. ASSUME NEW r \in Run, RunNext(r) PROVE TypeOK'
  <2>1. CASE Begin(r)
    BY <1>0, <2>1 DEF Begin, Goes
  <2>2. CASE TakeLock(r)
    BY <1>0, <2>2 DEF TakeLock, Goes
  <2>15. CASE WriteStart(r)
    BY <1>0, <2>15 DEF WriteStart, Goes
  <2>3. CASE Blocked(r)
    BY <1>0, <2>3 DEF Blocked, Goes
  <2>4. CASE Launch(r)
    BY <1>0, <2>4 DEF Launch, Goes
  <2>5. CASE StageOk(r)
    <3>1. stage[r] \in Stage
      BY <1>0, <2>5 DEF StageOk, RunInv, InStage
    <3>2. stage[r] + 1 \in 1..4
      BY <3>1
    <3>3. stage' \in [Run -> 1..4]
      BY <1>0, <2>5, <3>2 DEF StageOk
    <3> QED
      BY <1>0, <2>5, <3>3 DEF StageOk, Goes
  <2>6. CASE StageFailed(r)
    BY <1>0, <2>6 DEF StageFailed, Goes
  <2>7. CASE ChainDone(r)
    BY <1>0, <2>7 DEF ChainDone, Goes
  <2>8. CASE End(r)
    BY <1>0, <2>8 DEF End, Goes
  <2>9. CASE NoAddress(r)
    BY <1>0, <2>9 DEF NoAddress, Goes
  <2>10. CASE StartMail(r)
    BY <1>0, <2>10 DEF StartMail, Goes
  <2>11. CASE MailDone(r)
    BY <1>0, <2>11 DEF MailDone, Goes
  <2>12. CASE ChildExits(r)
    <3>1. CASE child[r] = "stage"
      <4>1. stage[r] \in Stage
        BY <1>0, <3>1 DEF RunInv, StageRuns
      <4>2. PICK code \in {"ok", "failed"} :
                rc' = [rc EXCEPT ![r] = [@ EXCEPT ![stage[r]] = code]]
        BY <2>12, <3>1 DEF ChildExits
      <4> QED
        BY <1>0, <2>12, <4>1, <4>2 DEF ChildExits
    <3>2. CASE child[r] # "stage"
      BY <1>0, <2>12, <3>2 DEF ChildExits
    <3> QED
      BY <3>1, <3>2
  <2>13. CASE KillScript(r)
    <3>1. kills' \in Nat
      <4>1. kills \in Nat
        BY <1>0
      <4>2. kills' = kills + 1
        BY <2>13 DEF KillScript
      <4> QED
        BY <4>1, <4>2
    <3> QED
      BY <1>0, <2>13, <3>1 DEF KillScript, Goes
  <2>14. CASE KillStage(r)
    <3>1. stage[r] \in Stage
      BY <1>0, <2>14 DEF KillStage, RunInv, StageRuns
    <3>2. PICK pool \in BOOLEAN : workers' = [workers EXCEPT ![r] = pool]
      BY <2>14 DEF KillStage
    <3>3. rc' = [rc EXCEPT ![r] = [@ EXCEPT ![stage[r]] = "failed"]]
      BY <2>14 DEF KillStage
    <3>4. rc' \in [Run -> [Stage -> {"none", "ok", "failed"}]]
      BY <1>0, <3>1, <3>3
    <3>5. workers' \in [Run -> BOOLEAN]
      BY <1>0, <3>2
    <3>6. kills \in Nat /\ kills' = kills + 1
      BY <1>0, <2>14 DEF KillStage
    <3>7. kills' \in Nat
      BY <3>6
    <3>8. child' \in [Run -> {"none", "stage", "mail"}]
      BY <1>0, <2>14 DEF KillStage
    <3> QED
      BY <1>0, <2>14, <3>4, <3>5, <3>7, <3>8 DEF KillStage
  <2> QED
    BY <1>3, <2>1, <2>2, <2>3, <2>4, <2>5, <2>6, <2>7, <2>8, <2>9, <2>10, <2>11,
       <2>12, <2>13, <2>14, <2>15 DEF RunNext, Script
<1> QED
  BY <1>1, <1>2, <1>3 DEF Next

(* A step of one run leaves what is known of the others alone. *)
LEMMA OthersUntouched ==
    ASSUME IInv, NEW r \in Run, RunNext(r), NEW q \in Run, q # r
    PROVE  /\ bash'[q] = bash[q] /\ acquired'[q] = acquired[q]
           /\ stage'[q] = stage[q] /\ child'[q] = child[q]
           /\ workers'[q] = workers[q] /\ rc'[q] = rc[q]
           /\ status'[q] = status[q]
<1>1. TypeOK
  BY DEF IInv
<1>2. CASE Begin(r) \/ Launch(r) \/ ChainDone(r) \/ NoAddress(r) \/ StartMail(r)
  BY <1>1, <1>2 DEF Begin, Launch, ChainDone, NoAddress, StartMail, Goes, TypeOK
<1>3. CASE TakeLock(r) \/ WriteStart(r) \/ Blocked(r) \/ StageFailed(r)
  BY <1>1, <1>3 DEF TakeLock, WriteStart, Blocked, StageFailed, Goes, TypeOK
<1>4. CASE StageOk(r) \/ End(r) \/ MailDone(r)
  BY <1>1, <1>4 DEF StageOk, End, MailDone, Goes, TypeOK
<1>5. CASE ChildExits(r)
  BY <1>1, <1>5 DEF ChildExits, TypeOK
<1>6. CASE KillScript(r) \/ KillStage(r)
  BY <1>1, <1>6 DEF KillScript, KillStage, Goes, TypeOK
<1> QED
  BY <1>2, <1>3, <1>4, <1>5, <1>6 DEF RunNext, Script

(* Only TakeLock makes a run a holder. *)
LEMMA HoldersShrink ==
    ASSUME IInv, NEW r \in Run, RunNext(r), ~TakeLock(r), Holds(r)'
    PROVE  Holds(r)
<1>1. TypeOK /\ RunInv(r)
  BY DEF IInv
<1> USE <1>1 DEF TypeOK, Holds, Alive
<1>2. CASE Begin(r) \/ WriteStart(r) \/ Blocked(r)
  BY <1>2 DEF Begin, WriteStart, Blocked, Goes, RunInv, Waiting
<1>3. CASE Launch(r) \/ StageOk(r) \/ StageFailed(r) \/ ChainDone(r)
  BY <1>3 DEF Launch, StageOk, StageFailed, ChainDone, Goes
<1>4. CASE End(r) \/ NoAddress(r) \/ StartMail(r) \/ MailDone(r)
  BY <1>4 DEF End, NoAddress, StartMail, MailDone, Goes
<1>5. CASE ChildExits(r)
  BY <1>5 DEF ChildExits
<1>6. CASE KillScript(r) \/ KillStage(r)
  BY <1>6 DEF KillScript, KillStage, Goes
<1> QED
  BY <1>2, <1>3, <1>4, <1>5, <1>6 DEF RunNext, Script

LEMMA StepOneHolder == ASSUME IInv, [Next]_vars PROVE OneHolder'
<1>1. CASE UNCHANGED vars \/ Over
  BY <1>1 DEF IInv, OneHolder, Holds, Alive, Over, vars
<1>2. ASSUME NEW r \in Run, RunNext(r) PROVE OneHolder'
  <2>1. \A q \in Run \ {r} : Holds(q)' <=> Holds(q)
    BY <1>2, OthersUntouched DEF Holds, Alive
  <2>2. CASE TakeLock(r)
    BY <2>1, <2>2 DEF TakeLock, OneHolder
  <2>3. CASE ~TakeLock(r)
    <3>1. Holds(r)' => Holds(r)
      BY <1>2, <2>3, HoldersShrink
    <3> QED
      BY <2>1, <3>1 DEF IInv, OneHolder
  <2> QED
    BY <2>2, <2>3
<1> QED
  BY <1>1, <1>2 DEF Next

(* How the current stage ends does not change how the ones before it did. *)
LEMMA RcBefore ==
    ASSUME TypeOK, NEW r \in Run, NEW code,
           rc' = [rc EXCEPT ![r] = [@ EXCEPT ![stage[r]] = code]],
           NEW k \in 1..(stage[r] - 1)
    PROVE  rc'[r][k] = rc[r][k]
<1>1. stage[r] \in 1..4 /\ rc[r] \in [Stage -> {"none", "ok", "failed"}]
  BY DEF TypeOK
<1>2. k # stage[r] /\ k \in Stage
  BY <1>1 DEF Stage
<1>3. rc'[r] = [rc[r] EXCEPT ![stage[r]] = code]
  BY DEF TypeOK
<1> QED
  BY <1>1, <1>2, <1>3

(* The run that takes the step keeps RunInv, one action at a time. *)
LEMMA ActorKeepsInv == ASSUME IInv, NEW r \in Run, RunNext(r) PROVE RunInv(r)'
<1>1. TypeOK /\ RunInv(r)
  BY DEF IInv
<1> USE DEF RunInv, Waiting, Unreported, Locking, Chaining, Between, InStage,
            Ending, StageRuns, AllOkBefore
<1>2. CASE Begin(r)
  BY <1>1, <1>2 DEF Begin, Goes, TypeOK
<1>16. CASE TakeLock(r)
  BY <1>1, <1>16 DEF TakeLock, Goes, TypeOK
<1>3. CASE WriteStart(r)
  <2>1. /\ bash'[r] = "chain" /\ acquired'[r] /\ status'[r] = "OK"
        /\ child'[r] = "none" /\ stage'[r] = 1
    BY <1>1, <1>3 DEF WriteStart, Goes, TypeOK
  <2>2. 1..(stage'[r] - 1) = {}
    BY <2>1
  <2> QED
    BY <2>1, <2>2
<1>4. CASE Blocked(r)
  BY <1>1, <1>4 DEF Blocked, Goes, TypeOK
<1>5. CASE Launch(r)
  BY <1>1, <1>5 DEF Launch, Goes, TypeOK
<1>6. CASE StageOk(r)
  <2>1. /\ bash'[r] = "chain" /\ acquired'[r] /\ status'[r] = "OK"
        /\ child'[r] = "none" /\ rc' = rc /\ stage'[r] = stage[r] + 1
        /\ rc[r][stage[r]] = "ok" /\ AllOkBefore(r)
    BY <1>1, <1>6 DEF StageOk, Goes, TypeOK
  <2>2. stage[r] \in 1..4
    BY <1>1 DEF TypeOK
  <2>3. \A k \in 1..(stage'[r] - 1) : k \in 1..(stage[r] - 1) \/ k = stage[r]
    BY <2>1, <2>2
  <2>4. AllOkBefore(r)'
    BY <2>1, <2>3
  <2> QED
    BY <2>1, <2>4
<1>7. CASE StageFailed(r)
  BY <1>1, <1>7 DEF StageFailed, Goes, TypeOK
<1>8. CASE ChainDone(r)
  <2>1. /\ bash'[r] = "end" /\ child'[r] = "none" /\ rc' = rc /\ AllOkBefore(r)
    BY <1>1, <1>8 DEF ChainDone, Goes, TypeOK
  <2>2. stage[r] = 4
    <3>1. stage[r] \in 1..4
      BY <1>1 DEF TypeOK
    <3>2. stage[r] \notin 1..3
      BY <1>8 DEF ChainDone, Stage
    <3> QED
      BY <3>1, <3>2
  <2>3. \A k \in Stage : k \in 1..(stage[r] - 1)
    BY <2>2 DEF Stage
  <2> QED
    BY <2>1, <2>3
<1>9. CASE End(r)
  BY <1>1, <1>9 DEF End, Goes, TypeOK
<1>10. CASE NoAddress(r)
  <2>1. /\ bash[r] = "report" /\ bash'[r] = "done" /\ child' = child
        /\ rc' = rc /\ status' = status
    BY <1>1, <1>10 DEF NoAddress, Goes, TypeOK
  <2> QED
    BY <1>1, <2>1
<1>11. CASE StartMail(r)
  <2>1. /\ bash[r] = "report" /\ bash'[r] = "mail" /\ child'[r] = "mail"
        /\ rc' = rc /\ status' = status
    BY <1>1, <1>11 DEF StartMail, Goes, TypeOK
  <2> QED
    BY <1>1, <2>1
<1>12. CASE MailDone(r)
  <2>1. /\ bash[r] = "mail" /\ bash'[r] = "done" /\ child'[r] = "none"
        /\ rc' = rc /\ status' = status
    BY <1>1, <1>12 DEF MailDone, Goes, TypeOK
  <2> QED
    BY <1>1, <2>1
<1>13. CASE ChildExits(r)
  <2>1. /\ child'[r] = "none" /\ bash' = bash /\ acquired' = acquired
        /\ stage' = stage /\ status' = status
    BY <1>1, <1>13 DEF ChildExits, TypeOK
  <2>2. CASE child[r] = "stage"
    BY <1>1, <1>13, <2>1, <2>2, RcBefore DEF ChildExits
  <2>3. CASE child[r] # "stage"
    <3>1. rc' = rc
      BY <1>13, <2>3 DEF ChildExits
    <3> QED
      BY <1>1, <2>1, <3>1
  <2> QED
    BY <2>2, <2>3
<1>14. CASE KillScript(r)
  <2>1. /\ bash'[r] = "killed" /\ bash[r] \notin {"done", "killed"}
        /\ acquired' = acquired /\ child' = child
        /\ stage' = stage /\ status' = status /\ rc' = rc
    BY <1>1, <1>14 DEF KillScript, Goes, Alive, TypeOK
  <2> QED
    BY <1>1, <2>1
<1>15. CASE KillStage(r)
  <2>1. /\ child[r] = "stage" /\ child'[r] = "none" /\ bash' = bash
        /\ acquired' = acquired /\ stage' = stage /\ status' = status
        /\ rc' = [rc EXCEPT ![r] = [@ EXCEPT ![stage[r]] = "failed"]]
    BY <1>1, <1>15 DEF KillStage, TypeOK
  <2> QED
    BY <1>1, <2>1, RcBefore
<1> QED
  BY <1>2, <1>3, <1>4, <1>5, <1>6, <1>7, <1>8, <1>9, <1>10, <1>11, <1>12, <1>13,
     <1>14, <1>15, <1>16 DEF RunNext, Script

LEMMA Inductive == IInv /\ [Next]_vars => IInv'
<1> SUFFICES ASSUME IInv, [Next]_vars PROVE IInv'
  OBVIOUS
<1>1. TypeOK' /\ OneHolder'
  BY StepTypes, StepOneHolder
<1>2. CASE UNCHANGED vars \/ Over
  <2>1. UNCHANGED <<bash, acquired, stage, child, rc, status>>
    BY <1>2 DEF Over, vars
  <2>2. \A q \in Run : RunInv(q)'
    BY <2>1 DEF IInv, RunInv, Waiting, Unreported, Locking, Chaining, Between,
                InStage, Ending, StageRuns, AllOkBefore
  <2> QED
    BY <1>1, <2>2 DEF IInv
<1>3. ASSUME NEW r \in Run, RunNext(r), NEW q \in Run PROVE RunInv(q)'
  <2>1. CASE q = r
    BY <1>3, <2>1, ActorKeepsInv
  <2>2. CASE q # r
    BY <1>3, <2>2, OthersUntouched
       DEF IInv, RunInv, Waiting, Unreported, Locking, Chaining, Between, InStage,
           Ending, StageRuns, AllOkBefore
  <2> QED
    BY <2>1, <2>2
<1> QED
  BY <1>1, <1>2, <1>3 DEF IInv, Next

LEMMA Invariance == Spec => []IInv
  BY InitIInv, Inductive, PTL DEF Spec

-----------------------------------------------------------------------------
(* Reading one line more. *)

ReadAll(lines) == FoldLeft(ReadLine, Empty, lines)

IsFold(g, s) ==
    g = [T \in SUBSET DOMAIN s |->
            IF T = {} THEN Empty ELSE ReadLine(g[T \ {Max(T)}], s[Max(T)])]

(* The lines can be read one after the other, in one way. *)
Readable(s) ==
    /\ \E g : IsFold(g, s)
    /\ \A g, h : IsFold(g, s) /\ IsFold(h, s) => g[DOMAIN s] = h[DOMAIN s]

LEMMA ReadAllFolds ==
    ASSUME NEW s, Readable(s)
    PROVE  \E g : IsFold(g, s) /\ ReadAll(s) = g[DOMAIN s]
<1>1. IsFold(CHOOSE g : IsFold(g, s), s)
  BY DEF Readable
<1>2. ReadAll(s) = (CHOOSE g : IsFold(g, s))[DOMAIN s]
  BY DEF ReadAll, FoldLeft, MapThenFoldSet, IsFold
<1> QED
  BY ONLY <1>1, <1>2

LEMMA NothingReadable == Readable(<<>>) /\ ReadAll(<<>>) = Empty
<1> DEFINE g == [T \in SUBSET DOMAIN <<>> |-> Empty]
<1>1. DOMAIN <<>> = {}
  OBVIOUS
<1>2. IsFold(g, <<>>)
  BY <1>1 DEF IsFold
<1>3. ASSUME NEW h, IsFold(h, <<>>) PROVE h[DOMAIN <<>>] = Empty
  BY <1>1, <1>3 DEF IsFold
<1>4. Readable(<<>>)
  BY <1>2, <1>3 DEF Readable
<1> QED
  BY <1>3, <1>4, ReadAllFolds

(* A set of positions that has any has a last one. *)
LEMMA LastPosition ==
    ASSUME NEW n \in Nat, NEW T \in SUBSET (1..n), T # {}
    PROVE  Max(T) \in T
<1> DEFINE below == {n - x : x \in T}
<1>0. \A x \in T : x \in Nat /\ n - x \in Nat
  <2> SUFFICES ASSUME NEW x \in T PROVE x \in Nat /\ n - x \in Nat
    OBVIOUS
  <2>1. x \in 1..n
    OBVIOUS
  <2> QED
    BY ONLY <2>1, n \in Nat
<1>1. below \subseteq Nat /\ below # {}
  BY ONLY <1>0, T # {}
<1>2. PICK b \in below : \A y \in below : <<y, b>> \notin OpToRel(<, Nat)
  BY <1>1, NatLessThanWellFounded, WFMin, Zenon
<1>3. b \in Nat /\ \A y \in below : y \in Nat => ~ y < b
  BY <1>1, <1>2, Zenon DEF OpToRel
<1>4. PICK x \in T : b = n - x
  OBVIOUS
<1>5. ASSUME NEW y \in T PROVE x >= y
  <2>1. n - y \in below /\ n - y \in Nat /\ x \in Nat /\ y \in Nat
    BY <1>0
  <2>2. ~ (n - y < b)
    BY ONLY <1>3, <2>1
  <2> QED
    BY ONLY <1>4, <2>1, <2>2, n \in Nat
<1> QED
  BY ONLY <1>4, <1>5 DEF Max

LEMMA MaxOfPrefix ==
    ASSUME NEW n \in Nat, NEW T \in SUBSET (1..(n + 1)), n + 1 \in T
    PROVE  Max(T) = n + 1
<1>1. \A y \in T : n + 1 >= y
  OBVIOUS
<1>2. \A x \in T : (\A y \in T : x >= y) => x = n + 1
  OBVIOUS
<1> QED
  BY ONLY <1>1, <1>2, n + 1 \in T DEF Max

LEMMA ReadOneMore ==
    ASSUME NEW s, NEW n \in Nat, DOMAIN s = 1..n, Readable(s), NEW t, NEW l,
           DOMAIN t = 1..(n + 1), \A i \in 1..n : t[i] = s[i], t[n + 1] = l
    PROVE  Readable(t) /\ ReadAll(t) = ReadLine(ReadAll(s), l)
<1> DEFINE all == 1..(n + 1)
<1>1. ASSUME NEW h, IsFold(h, t)
      PROVE  h[all] = ReadLine(ReadAll(s), l)
  <2> DEFINE r == [T \in SUBSET (1..n) |-> h[T]]
  <2>1. IsFold(r, s)
    <3>1. ASSUME NEW T \in SUBSET (1..n), T # {}
          PROVE  h[T] = ReadLine(r[T \ {Max(T)}], s[Max(T)])
      <4>1. T \in SUBSET DOMAIN t
        OBVIOUS
      <4>2. h[T] = ReadLine(h[T \ {Max(T)}], t[Max(T)])
        BY <1>1, <3>1, <4>1 DEF IsFold
      <4>3. Max(T) \in T
        BY <3>1, LastPosition
      <4> QED
        BY <4>2, <4>3
    <3>2. h[{}] = Empty
      BY <1>1 DEF IsFold
    <3>3. r = [T \in SUBSET (1..n) |->
                  IF T = {} THEN Empty ELSE ReadLine(r[T \ {Max(T)}], s[Max(T)])]
      BY ONLY <3>1, <3>2
    <3> QED
      BY <3>3 DEF IsFold
  <2>2. r[1..n] = ReadAll(s)
    BY <2>1, ReadAllFolds DEF Readable
  <2>3. Max(all) = n + 1 /\ all \ {n + 1} = 1..n /\ all # {} /\ all \in SUBSET DOMAIN t
    <3>1. Max(all) = n + 1
      BY MaxOfPrefix
    <3> QED
      BY <3>1
  <2>4. h[all] = ReadLine(h[all \ {Max(all)}], t[Max(all)])
    BY <1>1, <2>3 DEF IsFold
  <2> QED
    BY <2>2, <2>3, <2>4
<1>2. \E h : IsFold(h, t)
  <2>1. PICK g : IsFold(g, s)
    BY DEF Readable
  <2> DEFINE h == [T \in SUBSET all |-> IF n + 1 \in T THEN ReadLine(g[T \ {n + 1}], l)
                                                       ELSE g[T]]
  <2>2. ASSUME NEW T \in SUBSET all, n + 1 \in T
        PROVE  h[T] = ReadLine(h[T \ {Max(T)}], t[Max(T)])
    BY <2>2, MaxOfPrefix
  <2>3. ASSUME NEW T \in SUBSET all, n + 1 \notin T, T # {}
        PROVE  h[T] = ReadLine(h[T \ {Max(T)}], t[Max(T)])
    <3>1. T \in SUBSET (1..n)
      BY <2>3
    <3>2. Max(T) \in T
      BY <2>3, <3>1, LastPosition
    <3>3. g[T] = ReadLine(g[T \ {Max(T)}], s[Max(T)])
      BY <2>1, <2>3, <3>1 DEF IsFold
    <3> QED
      BY <2>3, <3>1, <3>2, <3>3
  <2>4. h[{}] = Empty
    BY <2>1 DEF IsFold
  <2>5. h = [T \in SUBSET all |->
                IF T = {} THEN Empty ELSE ReadLine(h[T \ {Max(T)}], t[Max(T)])]
    BY ONLY <2>2, <2>3, <2>4
  <2> QED
    BY <2>5 DEF IsFold
<1>3. Readable(t)
  BY <1>1, <1>2 DEF Readable
<1>4. ReadAll(t) = ReadLine(ReadAll(s), l)
  BY <1>1, <1>3, ReadAllFolds
<1> QED
  BY <1>3, <1>4

-----------------------------------------------------------------------------
(* What the reader has understood of the log so far.  The run that is at    *)
(* its stages is the one whose start line was read last.                    *)

LineType == [run : Run, what : {"start", "blocked", "stage", "end"}, stage : 0..3,
             result : {"none", "ok", "failed", "OK", "FAILED"}, long : BOOLEAN]

Entry == [of : Run, result : {None, "OK", "FAILED"}, stages : SUBSET (Stage \X {"ok"}),
          indexOk : BOOLEAN]

ReaderState == [runs : Seq(Entry), open : BOOLEAN]

Working(r) == bash[r] \in {"chain", "stage", "end"}

(* What an entry says is so, and stays so: the stages are behind the run. *)
EntryTrue(p) ==
    /\ Begun(p.of)
    /\ p.result # None => p.result = status[p.of] /\ ~Working(p.of)
    /\ \A s \in p.stages : s[1] < stage[p.of] /\ rc[p.of][s[1]] = s[2]
    /\ p.indexOk => 3 < stage[p.of] /\ rc[p.of][3] = "ok"

Once(runs) == \A i, j \in DOMAIN runs : runs[i].of = runs[j].of => i = j

Told(st) ==
    /\ st.open => st.runs # <<>> /\ Current(st).result = None
    /\ \A i \in DOMAIN st.runs : EntryTrue(st.runs[i])
    /\ Once(st.runs)
    /\ \A r \in Run : Begun(r) => \E i \in DOMAIN st.runs : st.runs[i].of = r
    /\ \A r \in Run : Working(r) =>
            Begun(r) /\ st.open /\ Current(st).of = r /\ status[r] \in {"OK", "FAILED"}

(* An end line that the reader understands has been understood. *)
EndsHeard(st) ==
    \A k \in DOMAIN log : EndMatches(log[k]) =>
        \E i \in DOMAIN st.runs : st.runs[i].of = log[k].run /\ st.runs[i].result # None

LogInv ==
    /\ log \in Seq(LineType) /\ Readable(log)
    /\ \E st \in ReaderState : st = ReadAll(log) /\ Told(st) /\ EndsHeard(st)

(* Steps that write nothing the reader looks at. *)
LEMMA QuietStep ==
    ASSUME NEW st \in ReaderState, Told(st),
           \A r \in Run : Begun(r)' = Begun(r),
           \A r \in Run : Begun(r) => stage'[r] = stage[r],
           \A r \in Run : \/ status'[r] = status[r]
                          \/ ~Begun(r)
                          \/ bash[r] = "stage" /\ status'[r] = "FAILED",
           \A r \in Run : Working(r)' => Working(r),
           \A r \in Run : \A k \in Stage : k < stage[r] => rc'[r][k] = rc[r][k]
    PROVE  Told(st)'
<1>1. ASSUME NEW i \in DOMAIN st.runs PROVE EntryTrue(st.runs[i])'
  <2>1. PICK p \in Entry : p = st.runs[i]
    BY DEF ReaderState
  <2>2. EntryTrue(p) /\ p.of \in Run
    BY <2>1 DEF Told, Entry
  <2>3. p.result # None => status'[p.of] = status[p.of]
    BY <2>2 DEF EntryTrue, Working
  <2>4. /\ \A s \in p.stages : s[1] \in Stage
        /\ 3 \in Stage
    BY DEF Entry, Stage
  <2>5. EntryTrue(p)'
    BY <2>2, <2>3, <2>4 DEF EntryTrue
  <2> QED
    BY <2>1, <2>5
<1>2. ASSUME NEW r \in Run, Working(r)'
      PROVE  Begun(r)' /\ st.open /\ Current(st).of = r /\ status'[r] \in {"OK", "FAILED"}
  BY <1>2 DEF Told
<1> QED
  BY <1>1, <1>2 DEF Told, Current

(* One line is read. *)
LEMMA LineRead ==
    ASSUME LogInv, NEW l, log' = Append(log, l), l \in LineType
    PROVE  /\ log' \in Seq(LineType) /\ Readable(log)'
           /\ ReadAll(log') = ReadLine(ReadAll(log), l)
           /\ \A k \in DOMAIN log' : log'[k] = l \/ (k \in DOMAIN log /\ log'[k] = log[k])
<1>1. /\ log \in Seq(LineType) /\ Readable(log)
  BY DEF LogInv
<1>2. PICK s : s = log
  OBVIOUS
<1>3. PICK t : t = log'
  OBVIOUS
<1>4. /\ t \in Seq(LineType) /\ Len(s) \in Nat /\ DOMAIN s = 1..Len(s)
      /\ DOMAIN t = 1..(Len(s) + 1)
      /\ \A i \in 1..Len(s) : t[i] = s[i]
      /\ t[Len(s) + 1] = l
  BY <1>1, <1>2, <1>3
<1>5. Readable(s)
  BY <1>1, <1>2
<1>6. Readable(t) /\ ReadAll(t) = ReadLine(ReadAll(s), l)
  BY ONLY <1>4, <1>5, ReadOneMore
<1>7. log' \in Seq(LineType)
  BY <1>3, <1>4
<1>8. Readable(log')
  BY <1>3, <1>6
<1>9. Readable(log)'
  BY <1>8 DEF Readable, IsFold
<1>10. ReadAll(log') = ReadLine(ReadAll(log), l)
  BY <1>2, <1>3, <1>6
<1>11. \A k \in DOMAIN log' : log'[k] = l \/ (k \in DOMAIN log /\ log'[k] = log[k])
  <2>1. \A k \in 1..(Len(s) + 1) : k \in 1..Len(s) \/ k = Len(s) + 1
    BY ONLY <1>4
  <2>2. \A k \in DOMAIN t : t[k] = l \/ (k \in DOMAIN s /\ t[k] = s[k])
    BY ONLY <1>4, <2>1
  <2> QED
    BY ONLY <2>2, <1>2, <1>3
<1> QED
  BY ONLY <1>7, <1>9, <1>10, <1>11

(* What has been read of an ended run is not touched again. *)
Keeps(st, next) ==
    \A i \in DOMAIN st.runs : st.runs[i].result # None
        => i \in DOMAIN next.runs /\ next.runs[i] = st.runs[i]

LEMMA Heard ==
    ASSUME LogInv, NEW l \in LineType, log' = Append(log, l),
           NEW st \in ReaderState, st = ReadAll(log), EndsHeard(st),
           NEW next \in ReaderState, next = ReadLine(st, l), Told(next)', Keeps(st, next),
           EndMatches(l) =>
              \E i \in DOMAIN next.runs : next.runs[i].of = l.run /\ next.runs[i].result # None
    PROVE  LogInv'
<1>1. /\ log' \in Seq(LineType) /\ Readable(log)' /\ ReadAll(log') = next
      /\ \A k \in DOMAIN log' : log'[k] = l \/ (k \in DOMAIN log /\ log'[k] = log[k])
  BY LineRead
<1>2. \A k \in DOMAIN log : EndMatches(log[k]) =>
         \E i \in DOMAIN next.runs : next.runs[i].of = log[k].run /\ next.runs[i].result # None
  BY DEF EndsHeard, Keeps
<1>3. EndsHeard(next)'
  BY <1>1, <1>2 DEF EndsHeard
<1>4. ReadAll(log)' = next
  BY <1>1 DEF ReadAll
<1> QED
  BY <1>1, <1>3, <1>4 DEF LogInv

(* The current entry is filled in. *)
LEMMA CurrentSet ==
    ASSUME NEW st \in ReaderState, st.runs # <<>>, NEW f \in Entry
    PROVE  LET n == Len(st.runs)
               next == SetCurrent(st, f)
           IN  /\ n \in DOMAIN st.runs /\ st.runs[n] \in Entry
               /\ next \in ReaderState /\ next.open = st.open
               /\ DOMAIN next.runs = DOMAIN st.runs /\ Len(next.runs) = n
               /\ next.runs[n] = f
               /\ \A i \in DOMAIN st.runs \ {n} : next.runs[i] = st.runs[i]
<1> DEFINE n == Len(st.runs)
           runs == [st.runs EXCEPT ![n] = f]
<1>1. st.runs \in Seq(Entry) /\ st.open \in BOOLEAN
  BY DEF ReaderState
<1>2. n \in Nat /\ n # 0 /\ DOMAIN st.runs = 1..n
  BY <1>1
<1>3. n \in DOMAIN st.runs
  BY <1>2
<1>4. runs \in Seq(Entry) /\ DOMAIN runs = 1..n /\ Len(runs) = n
  BY <1>1, <1>2
<1>5. SetCurrent(st, f) = [runs |-> runs, open |-> st.open]
  BY DEF SetCurrent, ReaderState
<1>6. st.runs[n] \in Entry
  BY <1>1, <1>3
<1>7. runs[n] = f /\ \A i \in DOMAIN st.runs \ {n} : runs[i] = st.runs[i]
  BY <1>3
<1> HIDE DEF runs
<1> QED
  BY <1>1, <1>2, <1>3, <1>4, <1>5, <1>6, <1>7 DEF ReaderState

LEMMA UpdatedStep ==
    ASSUME NEW st \in ReaderState, Told(st), st.open, NEW r \in Run, Current(st).of = r,
           NEW f \in Entry, f.of = r, EntryTrue(f)',
           NEW next \in ReaderState, next.runs = SetCurrent(st, f).runs,
           next.open => f.result = None,
           acquired' = acquired, status' = status, rc' = rc,
           \A q \in Run \ {r} : stage'[q] = stage[q],
           \A q \in Run : Working(q)' => Working(q) /\ next.open
    PROVE  Told(next)' /\ Keeps(st, next)
<1> DEFINE n == Len(st.runs)
<1>1. st.runs # <<>> /\ Current(st).result = None
  BY DEF Told
<1>2. /\ n \in DOMAIN st.runs /\ st.runs[n] = Current(st)
      /\ DOMAIN next.runs = DOMAIN st.runs /\ Len(next.runs) = n
      /\ next.runs[n] = f
      /\ \A i \in DOMAIN st.runs \ {n} : next.runs[i] = st.runs[i]
  BY <1>1, CurrentSet DEF Current
<1>3. Keeps(st, next)
  BY <1>1, <1>2 DEF Keeps
<1>4. \A i \in DOMAIN st.runs : next.runs[i].of = st.runs[i].of
  BY <1>2
<1>5. ASSUME NEW i \in DOMAIN st.runs, i # n PROVE EntryTrue(next.runs[i])'
  <2>1. PICK p \in Entry : p = st.runs[i]
    BY DEF ReaderState
  <2>2. EntryTrue(p) /\ p.of \in Run
    BY <2>1 DEF Told, Entry
  <2>3. p.of # r
    BY <1>2, <1>5, <2>1 DEF Told, Once
  <2>4. EntryTrue(p)'
    BY <2>2, <2>3 DEF EntryTrue, Begun
  <2>5. next.runs[i] = p
    BY <1>2, <1>5, <2>1
  <2> QED
    BY <2>4, <2>5
<1>6. \A i \in DOMAIN next.runs : EntryTrue(next.runs[i])'
  <2>1. EntryTrue(next.runs[n])'
    BY <1>2
  <2> QED
    BY <1>2, <1>5, <2>1
<1>7. Once(next.runs)
  BY <1>2, <1>4 DEF Told, Once
<1>8. next.open => next.runs # <<>> /\ Current(next).result = None
  BY <1>2 DEF Current
<1>9. \A q \in Run : Begun(q)' => \E i \in DOMAIN next.runs : next.runs[i].of = q
  BY <1>2, <1>4 DEF Told, Begun
<1>10. \A q \in Run : Working(q)' =>
          Begun(q)' /\ next.open /\ Current(next).of = q /\ status'[q] \in {"OK", "FAILED"}
  BY <1>2 DEF Told, Current, Begun
<1> QED
  BY <1>3, <1>6, <1>7, <1>8, <1>9, <1>10 DEF Told, Current

LEMMA LogInit == Init => LogInv
<1> SUFFICES ASSUME Init PROVE LogInv
  OBVIOUS
<1>1. log = <<>> /\ \A r \in Run : bash[r] = "off" /\ ~acquired[r]
  BY DEF Init
<1>2. Empty \in ReaderState /\ ~Empty.open /\ Empty.runs = <<>>
  BY DEF Empty, ReaderState
<1>3. Told(Empty)
  BY <1>1, <1>2 DEF Told, Once, Working, Begun
<1>4. EndsHeard(Empty)
  BY <1>1 DEF EndsHeard
<1>5. Readable(log) /\ ReadAll(log) = Empty /\ log \in Seq(LineType)
  BY <1>1, NothingReadable
<1> QED
  BY <1>2, <1>3, <1>4, <1>5 DEF LogInv

(* Nothing is written, and nothing changes that the reader's entries say. *)
LEMMA Unwritten ==
    ASSUME IInv, LogInv, log' = log,
           \A r \in Run : Begun(r)' = Begun(r),
           \A r \in Run : Begun(r) => stage'[r] = stage[r],
           \A r \in Run : status'[r] = status[r],
           \A r \in Run : Working(r)' => Working(r),
           \A r \in Run : \A k \in Stage : k < stage[r] => rc'[r][k] = rc[r][k]
    PROVE  LogInv'
<1>1. PICK st \in ReaderState : st = ReadAll(log) /\ Told(st) /\ EndsHeard(st)
  BY DEF LogInv
<1>2. Told(st)'
  BY <1>1, QuietStep
<1>3. ReadAll(log)' = st /\ Readable(log)' /\ EndsHeard(st)'
  <2>1. ReadAll(log)' = st
    BY <1>1 DEF ReadAll
  <2>2. Readable(log)'
    <3>1. Readable(log')
      BY DEF LogInv
    <3> QED
      BY <3>1 DEF Readable, IsFold
  <2>3. EndsHeard(st)'
    BY <1>1 DEF EndsHeard
  <2> QED
    BY <2>1, <2>2, <2>3
<1> QED
  BY <1>1, <1>2, <1>3 DEF LogInv

(* A line is written that the reader passes over. *)
LEMMA PassedOver ==
    ASSUME IInv, LogInv, NEW l \in LineType, log' = Append(log, l),
           l.what # "start", ~StageMatches(l), ~EndMatches(l),
           \A r \in Run : Begun(r)' = Begun(r),
           \A r \in Run : Begun(r) => stage'[r] = stage[r],
           \A r \in Run : \/ status'[r] = status[r]
                          \/ ~Begun(r)
                          \/ bash[r] = "stage" /\ status'[r] = "FAILED",
           \A r \in Run : Working(r)' => Working(r),
           \A r \in Run : \A k \in Stage : k < stage[r] => rc'[r][k] = rc[r][k]
    PROVE  LogInv'
<1>1. PICK st \in ReaderState : st = ReadAll(log) /\ Told(st) /\ EndsHeard(st)
  BY DEF LogInv
<1>2. Told(st)'
  BY <1>1, QuietStep
<1>3. st = ReadLine(st, l) /\ Keeps(st, st)
  BY DEF ReadLine, Keeps
<1> QED
  BY <1>1, <1>2, <1>3, Heard

LEMMA StartRead == ASSUME IInv, LogInv, NEW r \in Run, WriteStart(r) PROVE LogInv'
<1>1. PICK st \in ReaderState : st = ReadAll(log) /\ Told(st) /\ EndsHeard(st)
  BY DEF LogInv
<1>2. TypeOK /\ RunInv(r)
  BY DEF IInv
<1>3. /\ ~Begun(r) /\ acquired[r] /\ acquired' = acquired /\ bash[r] = "locked"
      /\ status' = [status EXCEPT ![r] = "OK"] /\ stage' = stage /\ rc' = rc
      /\ bash' = [bash EXCEPT ![r] = "chain"]
  BY <1>2 DEF WriteStart, Goes, RunInv, Locking, Begun
<1>4. \A q \in Run : ~Working(q)
  <2>1. \A q \in Run : Working(q) => Holds(q)
    BY <1>1 DEF Told, Working, Holds, Alive, Begun
  <2>2. Holds(r) /\ ~Working(r)
    BY <1>3 DEF Holds, Alive, Working
  <2> QED
    BY <2>1, <2>2 DEF IInv, OneHolder
<1> DEFINE l == Line(r, "start", 0, "none", FALSE)
           n == Len(st.runs)
<1>5. PICK next : next = [runs |-> Append(st.runs, Started(r)), open |-> TRUE]
  OBVIOUS
<1>6. Started(r) \in Entry
  BY DEF Started, Entry
<1>7. l \in LineType /\ log' = Append(log, l) /\ next = ReadLine(st, l)
  <2>1. l.what = "start" /\ l.run = r
    BY DEF Line
  <2>2. ReadLine(st, l) = ReadStart(st, l)
    BY <2>1 DEF ReadLine, StageMatches, EndMatches
  <2>3. l \in LineType /\ log' = Append(log, l)
    BY DEF WriteStart, Writes, Line, LineType
  <2> QED
    BY <1>5, <2>1, <2>2, <2>3 DEF ReadStart
<1>8. /\ next \in ReaderState /\ next.open /\ n \in Nat
      /\ DOMAIN st.runs = 1..n /\ DOMAIN next.runs = 1..(n + 1)
      /\ Len(next.runs) = n + 1 /\ next.runs[n + 1] = Started(r)
      /\ \A i \in 1..n : next.runs[i] = st.runs[i]
  BY <1>5, <1>6 DEF ReaderState
<1>9. \A i \in DOMAIN next.runs : i \in DOMAIN st.runs \/ i = n + 1
  BY <1>8
<1>10. Keeps(st, next)
  BY <1>8 DEF Keeps
<1>11. ASSUME NEW i \in DOMAIN st.runs
       PROVE  EntryTrue(next.runs[i])' /\ next.runs[i].of # r
  <2>1. PICK p \in Entry : p = st.runs[i]
    BY DEF ReaderState
  <2>2. EntryTrue(p) /\ p.of \in Run
    BY <1>1, <2>1 DEF Told, Entry
  <2>3. p.of # r
    BY <1>3, <2>2 DEF EntryTrue
  <2>4. EntryTrue(p)'
    BY <1>2, <1>3, <2>2, <2>3 DEF EntryTrue, Begun, Working, TypeOK
  <2>5. next.runs[i] = p
    BY <1>8, <2>1
  <2> QED
    BY <2>3, <2>4, <2>5
<1>12. EntryTrue(next.runs[n + 1])' /\ next.runs[n + 1].of = r
       /\ next.runs[n + 1].result = None
  <2>1. Begun(r)'
    BY <1>2, <1>3 DEF Begun, TypeOK
  <2> QED
    BY <1>8, <2>1 DEF EntryTrue, Started
<1>13. \A i \in DOMAIN next.runs : EntryTrue(next.runs[i])'
  BY <1>9, <1>11, <1>12
<1>14. Once(next.runs)
  <2>1. \A i, j \in DOMAIN st.runs : next.runs[i].of = next.runs[j].of => i = j
    BY <1>1, <1>8 DEF Told, Once
  <2> QED
    BY <1>9, <1>11, <1>12, <2>1 DEF Once
<1>15. \A q \in Run : Begun(q)' => \E i \in DOMAIN next.runs : next.runs[i].of = q
  <2> SUFFICES ASSUME NEW q \in Run, Begun(q)'
               PROVE  \E i \in DOMAIN next.runs : next.runs[i].of = q
    OBVIOUS
  <2>1. CASE q = r
    <3>1. n + 1 \in DOMAIN next.runs
      BY <1>8
    <3> QED
      BY <2>1, <3>1, <1>12
  <2>2. CASE q # r
    <3>1. Begun(q)
      BY <1>2, <1>3, <2>2 DEF Begun, TypeOK
    <3>2. PICK i \in DOMAIN st.runs : st.runs[i].of = q
      BY <1>1, <3>1 DEF Told
    <3> QED
      BY <1>8, <3>2
  <2> QED
    BY <2>1, <2>2
<1>16. \A q \in Run : Working(q)' =>
          Begun(q)' /\ next.open /\ Current(next).of = q /\ status'[q] \in {"OK", "FAILED"}
  <2>1. \A q \in Run : Working(q)' => q = r
    BY <1>2, <1>3, <1>4 DEF Working, TypeOK
  <2>2. Begun(r)' /\ status'[r] = "OK"
    BY <1>2, <1>3 DEF Begun, TypeOK
  <2> QED
    BY <1>8, <1>12, <2>1, <2>2 DEF Current
<1>17. next.runs # <<>> /\ Current(next).result = None
  BY <1>8, <1>12 DEF Current
<1>18. Told(next)'
  BY <1>13, <1>14, <1>15, <1>16, <1>17 DEF Told, Current
<1>19. ~EndMatches(l)
  BY DEF EndMatches, Line
<1> HIDE DEF l
<1> QED
  BY <1>1, <1>7, <1>8, <1>10, <1>18, <1>19, Heard

LEMMA StageRead == ASSUME IInv, LogInv, NEW r \in Run, StageOk(r) PROVE LogInv'
<1>1. PICK st \in ReaderState : st = ReadAll(log) /\ Told(st) /\ EndsHeard(st)
  BY DEF LogInv
<1>2. TypeOK /\ RunInv(r)
  BY DEF IInv
<1>3. /\ stage[r] \in Stage /\ rc[r][stage[r]] = "ok" /\ bash[r] = "stage"
      /\ stage' = [stage EXCEPT ![r] = @ + 1] /\ stage'[r] = stage[r] + 1
      /\ bash' = [bash EXCEPT ![r] = "chain"]
      /\ acquired' = acquired /\ status' = status /\ rc' = rc
  BY <1>2 DEF StageOk, Goes, RunInv, InStage, TypeOK
<1>4. /\ Begun(r) /\ st.open /\ Current(st).of = r
      /\ st.runs # <<>> /\ Current(st).result = None
  BY <1>1, <1>3 DEF Told, Working
<1>5. PICK cur : cur = Current(st)
  OBVIOUS
<1>6. cur \in Entry /\ EntryTrue(cur)
  <2>1. None \in {None}
    OBVIOUS
  <2>2. Started(r) \in Entry
    BY DEF Started, Entry
  <2>3. Len(st.runs) \in DOMAIN st.runs /\ st.runs[Len(st.runs)] \in Entry
    BY <1>4, <2>2, CurrentSet
  <2> QED
    BY <1>1, <1>5, <2>3 DEF Told, Current
<1>7. PICK k : k = stage[r]
  OBVIOUS
<1>8. PICK f : f = [cur EXCEPT !.stages = @ \cup {<<k, "ok">>}, !.indexOk = @ \/ k = 3]
  OBVIOUS
<1>9. /\ k \in Stage /\ f \in Entry /\ f.of = r /\ f.result = None
      /\ f.stages = cur.stages \cup {<<k, "ok">>} /\ f.indexOk = (cur.indexOk \/ k = 3)
  <2>1. k \in Stage /\ cur.of = r /\ cur.result = None
    BY <1>3, <1>4, <1>5, <1>7
  <2>2. cur.stages \cup {<<k, "ok">>} \in SUBSET (Stage \X {"ok"})
    BY <1>6, <2>1 DEF Entry
  <2>3. f = [of |-> cur.of, result |-> cur.result,
             stages |-> cur.stages \cup {<<k, "ok">>}, indexOk |-> (cur.indexOk \/ k = 3)]
    BY <1>6, <1>8 DEF Entry
  <2>4. cur.of \in Run /\ cur.indexOk \in BOOLEAN /\ (k = 3) \in BOOLEAN
    BY <1>6 DEF Entry
  <2>5. (cur.indexOk \/ k = 3) \in BOOLEAN
    OBVIOUS
  <2> QED
    BY <2>1, <2>2, <2>3, <2>4, <2>5 DEF Entry
<1>10. EntryTrue(f)'
  <2>1. \A s \in cur.stages : s[1] \in Stage
    BY <1>6 DEF Entry
  <2>2. \A s \in f.stages : s[1] < stage'[r] /\ rc'[r][s[1]] = s[2]
    <3>1. \A s \in cur.stages : s[1] < stage[r] /\ rc[r][s[1]] = s[2]
      BY <1>4, <1>5, <1>6 DEF EntryTrue
    <3>2. k \in Nat /\ k < k + 1 /\ \A x \in Stage : x < k => x < k + 1
      BY <1>9 DEF Stage
    <3>3. \A s \in cur.stages : s[1] < stage'[r] /\ rc'[r][s[1]] = s[2]
      BY <1>3, <1>7, <2>1, <3>1, <3>2
    <3>4. ASSUME NEW s, s = <<k, "ok">> PROVE s[1] < stage'[r] /\ rc'[r][s[1]] = s[2]
      BY <1>3, <1>7, <3>2, <3>4
    <3> QED
      BY <1>9, <3>3, <3>4
  <2>3. f.indexOk => 3 < stage'[r] /\ rc'[r][3] = "ok"
    <3>1. cur.indexOk => 3 < stage[r] /\ rc[r][3] = "ok"
      BY <1>4, <1>5, <1>6 DEF EntryTrue
    <3>2. k \in Nat /\ (3 < k => 3 < k + 1) /\ (k = 3 => 3 < k + 1)
      BY <1>9 DEF Stage
    <3> QED
      BY <1>3, <1>7, <1>9, <3>1, <3>2
  <2> QED
    BY <1>3, <1>4, <1>9, <2>2, <2>3 DEF EntryTrue, Begun
<1>11. PICK next : next = SetCurrent(st, f)
  OBVIOUS
<1>12. next \in ReaderState /\ next.open
  BY <1>4, <1>9, <1>11, CurrentSet
<1> DEFINE l == Line(r, "stage", stage[r], "ok", FALSE)
<1>13. l \in LineType /\ log' = Append(log, l)
  BY <1>3 DEF StageOk, Writes, Line, LineType, Stage
<1>14. next = ReadLine(st, l) /\ ~EndMatches(l)
  <2>1. l.what = "stage" /\ l.stage = k /\ l.result = "ok"
    BY <1>7 DEF Line
  <2>2. ReadLine(st, l) = ReadStage(st, l) /\ ~EndMatches(l)
    BY <2>1 DEF ReadLine, StageMatches, EndMatches
  <2>3. ReadStage(st, l) = SetCurrent(st, f)
    BY <1>4, <1>5, <1>8, <2>1 DEF ReadStage
  <2> QED
    BY <1>11, <2>2, <2>3
<1>15. /\ \A q \in Run \ {r} : stage'[q] = stage[q]
       /\ \A q \in Run : Working(q)' => Working(q)
  BY <1>2, <1>3 DEF Working, TypeOK
<1>16. Told(next)' /\ Keeps(st, next)
  BY <1>1, <1>3, <1>4, <1>9, <1>10, <1>11, <1>12, <1>15, UpdatedStep
<1> HIDE DEF l
<1> QED
  BY <1>1, <1>12, <1>13, <1>14, <1>16, Heard

LEMMA EndRead == ASSUME IInv, LogInv, NEW r \in Run, End(r) PROVE LogInv'
<1>1. PICK st \in ReaderState : st = ReadAll(log) /\ Told(st) /\ EndsHeard(st)
  BY DEF LogInv
<1>2. TypeOK /\ RunInv(r)
  BY DEF IInv
<1>3. /\ bash[r] = "end" /\ bash' = [bash EXCEPT ![r] = "report"]
      /\ UNCHANGED <<acquired, status, stage, rc>>
  BY DEF End, Goes
<1>4. /\ Begun(r) /\ st.open /\ Current(st).of = r /\ status[r] \in {"OK", "FAILED"}
      /\ st.runs # <<>> /\ Current(st).result = None
  BY <1>1, <1>3 DEF Told, Working
<1>5. PICK long \in BOOLEAN : log' = Append(log, Line(r, "end", 0, status[r], long))
  BY DEF End
<1>6. PICK l : l = Line(r, "end", 0, status[r], long)
  OBVIOUS
<1>7. /\ l \in LineType /\ log' = Append(log, l) /\ l.run = r
      /\ l.what = "end" /\ l.result = status[r] /\ l.long = long
  BY <1>4, <1>5, <1>6 DEF Line, LineType
<1>8. /\ \A q \in Run : Working(q)' => Working(q)
      /\ ~Working(r)'
  BY <1>2, <1>3 DEF Working, TypeOK
<1>9. CASE long
  <2>1. l.what # "start" /\ ~StageMatches(l) /\ ~EndMatches(l)
    BY <1>7, <1>9 DEF StageMatches, EndMatches
  <2> QED
    BY <1>3, <1>7, <1>8, <2>1, PassedOver DEF Begun
<1>10. CASE ~long
  <2>1. PICK cur : cur = Current(st)
    OBVIOUS
  <2>2. cur \in Entry /\ EntryTrue(cur)
    <3>1. Started(r) \in Entry
      BY DEF Started, Entry
    <3>2. Len(st.runs) \in DOMAIN st.runs /\ st.runs[Len(st.runs)] \in Entry
      BY <1>4, <3>1, CurrentSet
    <3> QED
      BY <1>1, <2>1, <3>2 DEF Told, Current
  <2>3. PICK f : f = [cur EXCEPT !.result = status[r]]
    OBVIOUS
  <2>4. /\ f \in Entry /\ f.of = r /\ f.result = status[r]
        /\ f.stages = cur.stages /\ f.indexOk = cur.indexOk
    BY <1>4, <2>1, <2>2, <2>3 DEF Entry
  <2>5. EntryTrue(f)'
    BY <1>3, <1>4, <1>8, <2>1, <2>2, <2>4 DEF EntryTrue, Begun
  <2>6. PICK next : next = [SetCurrent(st, f) EXCEPT !.open = FALSE]
    OBVIOUS
  <2>7. next \in ReaderState /\ ~next.open /\ next.runs = SetCurrent(st, f).runs
    <3>1. SetCurrent(st, f) \in ReaderState
      BY <1>4, <2>4, CurrentSet
    <3> QED
      BY <2>6, <3>1 DEF ReaderState
  <2>8. next = ReadLine(st, l)
    <3>1. l.what # "start" /\ ~StageMatches(l) /\ EndMatches(l)
      BY <1>7, <1>10 DEF StageMatches, EndMatches
    <3>2. ReadLine(st, l) = ReadEnd(st, l)
      BY <3>1 DEF ReadLine
    <3>3. ReadEnd(st, l) = [SetCurrent(st, f) EXCEPT !.open = FALSE]
      BY <1>4, <1>7, <2>1, <2>3 DEF ReadEnd
    <3> QED
      BY <2>6, <3>2, <3>3
  <2>9. \A q \in Run : ~Working(q)'
    BY <1>1, <1>4, <1>8 DEF Told
  <2>10. Told(next)' /\ Keeps(st, next)
    BY <1>1, <1>3, <1>4, <2>4, <2>5, <2>7, <2>9, UpdatedStep
  <2>11. \E i \in DOMAIN next.runs : next.runs[i].of = r /\ next.runs[i].result # None
    <3>1. Len(st.runs) \in DOMAIN next.runs /\ next.runs[Len(st.runs)] = f
      BY <1>4, <2>4, <2>7, CurrentSet
    <3> QED
      BY <1>4, <2>4, <3>1 DEF None
  <2> QED
    BY <1>1, <1>7, <2>7, <2>8, <2>10, <2>11, Heard
<1> QED
  BY <1>5, <1>9, <1>10

LEMMA StepUnwritten ==
    ASSUME IInv, LogInv, NEW r \in Run, RunNext(r),
           ~WriteStart(r), ~Blocked(r), ~StageOk(r), ~StageFailed(r), ~End(r)
    PROVE  LogInv'
<1>1. TypeOK /\ RunInv(r)
  BY DEF IInv
<1>2. /\ UNCHANGED <<log, stage, status>> /\ Begun(r)' = Begun(r)
      /\ Working(r)' => Working(r)
  <2>4. CASE TakeLock(r)
    BY <1>1, <2>4 DEF TakeLock, Goes, Working, Begun, RunInv, Waiting, Unreported, TypeOK
  <2>1. CASE Begin(r) \/ Launch(r) \/ ChainDone(r)
    BY <1>1, <2>1 DEF Begin, Launch, ChainDone, Goes, Working, Begun, TypeOK
  <2>2. CASE NoAddress(r) \/ StartMail(r) \/ MailDone(r)
    BY <1>1, <2>2 DEF NoAddress, StartMail, MailDone, Goes, Working, Begun, TypeOK
  <2>3. CASE ChildExits(r) \/ KillScript(r) \/ KillStage(r)
    BY <1>1, <2>3 DEF ChildExits, KillScript, KillStage, Goes, Working, Begun,
                              TypeOK
  <2> QED
    BY <2>1, <2>2, <2>3, <2>4 DEF RunNext, Script
<1>3. \A q \in Run : (Working(q)' => Working(q)) /\ Begun(q)' = Begun(q)
  BY <1>2, OthersUntouched DEF Working, Begun
<1>4. \A k \in Stage : k < stage[r] => rc'[r][k] = rc[r][k]
  <2> SUFFICES ASSUME NEW k \in Stage, k < stage[r] PROVE rc'[r][k] = rc[r][k]
    OBVIOUS
  <2>1. k \in 1..(stage[r] - 1)
    <3>1. stage[r] \in 1..4 /\ k \in 1..3
      BY <1>1 DEF TypeOK, Stage
    <3> QED
      BY <3>1
  <2>2. CASE ChildExits(r) \/ KillStage(r)
    <3>1. rc' = rc \/ \E code : rc' = [rc EXCEPT ![r] = [@ EXCEPT ![stage[r]] = code]]
      BY <2>2 DEF ChildExits, KillStage
    <3> QED
      BY <1>1, <2>1, <3>1, RcBefore
  <2>3. CASE ~ChildExits(r) /\ ~KillStage(r)
    BY <2>3 DEF RunNext, Script, Begin, TakeLock, Launch, ChainDone, NoAddress, StartMail,
                MailDone, KillScript
  <2> QED
    BY <2>2, <2>3
<1>5. \A q \in Run : \A k \in Stage : k < stage[q] => rc'[q][k] = rc[q][k]
  BY <1>4, OthersUntouched
<1> QED
  BY <1>2, <1>3, <1>5, Unwritten

LEMMA BlockedPassed == ASSUME IInv, LogInv, NEW r \in Run, Blocked(r) PROVE LogInv'
<1>1. TypeOK /\ RunInv(r)
  BY DEF IInv
<1>2. PICK l : l = Line(r, "blocked", 0, "none", FALSE)
  OBVIOUS
<1>3. /\ l \in LineType /\ log' = Append(log, l)
      /\ l.what # "start" /\ ~StageMatches(l) /\ ~EndMatches(l)
  BY <1>2 DEF Blocked, Writes, Line, LineType, StageMatches, EndMatches
<1>4. ~acquired[r] /\ UNCHANGED <<acquired, stage, rc>>
  BY <1>1 DEF Blocked, RunInv, Waiting
<1>5. /\ \A q \in Run : status'[q] = status[q] \/ ~Begun(q)
      /\ \A q \in Run : Working(q)' => Working(q)
      /\ \A q \in Run : Begun(q)' = Begun(q)
  BY <1>1, <1>4 DEF Blocked, Goes, Working, Begun, TypeOK
<1> QED
  BY <1>3, <1>4, <1>5, PassedOver

LEMMA FailurePassed == ASSUME IInv, LogInv, NEW r \in Run, StageFailed(r) PROVE LogInv'
<1>1. TypeOK /\ RunInv(r)
  BY DEF IInv
<1>2. PICK l : l = Line(r, "stage", stage[r], "failed", FALSE)
  OBVIOUS
<1>3. stage[r] \in Stage
  BY <1>1 DEF StageFailed, RunInv, InStage
<1>4. /\ l \in LineType /\ log' = Append(log, l)
      /\ l.what # "start" /\ ~StageMatches(l) /\ ~EndMatches(l)
  BY <1>2, <1>3
     DEF StageFailed, Writes, Line, LineType, StageMatches, EndMatches, Stage
<1>5. bash[r] = "stage" /\ Begun(r) /\ UNCHANGED <<acquired, stage, rc>>
  BY <1>1 DEF StageFailed, RunInv, Chaining, Begun
<1>6. /\ \A q \in Run : status'[q] = status[q] \/ (bash[q] = "stage" /\ status'[q] = "FAILED")
      /\ \A q \in Run : Working(q)' => Working(q)
      /\ \A q \in Run : Begun(q)' = Begun(q)
  BY <1>1, <1>5 DEF StageFailed, Goes, Working, Begun, TypeOK
<1> QED
  BY <1>4, <1>5, <1>6, PassedOver

LEMMA LogKept == IInv /\ LogInv /\ [Next]_vars => LogInv'
<1> SUFFICES ASSUME IInv, LogInv, [Next]_vars PROVE LogInv'
  OBVIOUS
<1>1. CASE UNCHANGED vars \/ Over
  <2>1. UNCHANGED <<bash, acquired, stage, rc, status, log>>
    BY <1>1 DEF Over, vars
  <2> QED
    BY <2>1, Unwritten DEF Working, Begun
<1>2. ASSUME NEW r \in Run, RunNext(r) PROVE LogInv'
  BY <1>2, StepUnwritten, StartRead, BlockedPassed, StageRead, FailurePassed, EndRead
<1> QED
  BY <1>1, <1>2 DEF Next

LEMMA ReaderInvariance == Spec => [](IInv /\ LogInv)
<1>1. Init => IInv /\ LogInv
  BY InitIInv, LogInit
<1>2. IInv /\ LogInv /\ [Next]_vars => (IInv /\ LogInv)'
  BY Inductive, LogKept
<1> QED
  BY <1>1, <1>2, PTL DEF Spec

-----------------------------------------------------------------------------
(* Theorems. *)

(* Every variable keeps its type. *)
THEOREM TypeCorrect == Spec => []TypeOK
  BY Invariance, PTL DEF IInv

(* Whatever is killed, and however many invocations cron piles up, two stages *)
(* never run at once: the lock lives as long as the last process that         *)
(* inherited fd 200 (run_maintenance.sh:82-95).                               *)
THEOREM StagesExclude == Spec => []OneStageAtATime
<1>1. IInv => OneStageAtATime
  BY DEF IInv, OneHolder, OneStageAtATime, RunInv, StageRuns, Holds
<1> QED
  BY <1>1, Invariance, PTL

(* A stage runs only on the completed output of the stages before it. *)
THEOREM ChainFailsFast == Spec => []FailFast
<1>1. IInv => FailFast
  BY DEF IInv, FailFast, RunInv, StageRuns, AllOkBefore
<1> QED
  BY <1>1, Invariance, PTL

(* "OK" in a report means that all three stages exited 0. *)
THEOREM OkReportIsTrue == Spec => []OkIsTrue
<1>1. IInv => OkIsTrue
  BY DEF IInv, OkIsTrue, RunInv, Ending, Between
<1> QED
  BY <1>1, Invariance, PTL

(* Whatever is killed and however many invocations there are, the reader      *)
(* shows every invocation that began once, and what it says of a run          *)
(* is true of that very run (console/readers/maintenance_log.py:35-79).       *)
THEOREM ReaderShowsRuns == Spec => []ReaderIsRight
<1>1. IInv /\ LogInv => ReaderIsRight
  <2> SUFFICES ASSUME IInv, LogInv PROVE ReaderIsRight
    OBVIOUS
  <2>1. PICK st \in ReaderState : st = ReadAll(log) /\ Told(st)
    BY DEF LogInv
  <2>2. Parsed = st.runs
    BY <2>1 DEF Parsed, parse_runs, ReadAll
  <2>3. \A i \in DOMAIN st.runs : st.runs[i].of \in Run /\ Begun(st.runs[i].of)
    <3>1. \A i \in DOMAIN st.runs : st.runs[i] \in Entry /\ EntryTrue(st.runs[i])
      BY <2>1 DEF ReaderState, Told
    <3> QED
      BY <3>1 DEF Entry, EntryTrue
  <2>4. {st.runs[i].of : i \in DOMAIN st.runs} = {r \in Run : Begun(r)}
    BY <2>1, <2>3 DEF Told
  <2> QED
    BY <2>1, <2>2, <2>4 DEF ReaderIsRight, Told, Once, EntryTrue
<1> QED
  BY <1>1, ReaderInvariance, PTL

(* The console's header says that maintenance failed only when the run that   *)
(* started last did, and is silent only when an index stage succeeded and no  *)
(* failure it can read of is the newest (console/health.py:76, 99-102).       *)
THEOREM HeaderIsRight == Spec => []HealthIsRight
<1>1. IInv /\ LogInv => HealthIsRight
  <2> SUFFICES ASSUME IInv, LogInv PROVE HealthIsRight
    OBVIOUS
  <2>1. PICK st \in ReaderState : st = ReadAll(log) /\ Told(st) /\ EndsHeard(st)
    BY DEF LogInv
  <2>2. PICK runs : runs = st.runs
    OBVIOUS
  <2>3. Parsed = runs /\ runs \in Seq(Entry)
    BY <2>1, <2>2 DEF Parsed, parse_runs, ReadAll, ReaderState
  <2>4. PICK of : of = Last(runs).of
    OBVIOUS
  <2>5. runs # <<>> => /\ Last(runs) = runs[Len(runs)] /\ Len(runs) \in DOMAIN runs
                       /\ Last(runs) \in Entry
    BY <2>3 DEF Last
  <2>6. \A i \in DOMAIN runs : EntryTrue(runs[i]) /\ runs[i] \in Entry
    BY <2>1, <2>2, <2>3 DEF Told
  <2>7. ASSUME NEW old \in BOOLEAN, warning(runs, old) = "maintenance_failed"
        PROVE  status[of] = "FAILED"
    <3>1. LastFailed(runs)
      BY <2>7 DEF warning
    <3> QED
      BY <2>4, <2>5, <2>6, <3>1 DEF LastFailed, EntryTrue, None
  <2>8. ASSUME NEW old \in BOOLEAN, warning(runs, old) = "none"
        PROVE  /\ \E r \in Run : rc[r][3] = "ok"
               /\ (\E i \in DOMAIN log : log[i].run = of /\ EndMatches(log[i]))
                    => status[of] = "OK"
    <3>1. ~LastFailed(runs) /\ last_successful_index(runs) # {}
      BY <2>8 DEF warning
    <3>2. PICK i \in DOMAIN runs : runs[i].indexOk
      BY <3>1 DEF last_successful_index
    <3>3. runs[i].of \in Run /\ rc[runs[i].of][3] = "ok"
      BY <2>6, <3>2 DEF EntryTrue, Entry
    <3>4. runs # <<>>
      BY <3>2
    <3>5. ASSUME NEW k \in DOMAIN log, log[k].run = of, EndMatches(log[k])
          PROVE  status[of] = "OK"
      <4>1. PICK j \in DOMAIN runs : runs[j].of = of /\ runs[j].result # None
        BY <2>1, <2>2, <3>5 DEF EndsHeard
      <4>2. runs[j] = Last(runs)
        BY <2>1, <2>2, <2>4, <2>5, <3>4, <4>1 DEF Told, Once
      <4>3. Last(runs).result # "FAILED"
        BY <3>1, <3>4 DEF LastFailed
      <4>4. Last(runs).result = "OK"
        BY <2>5, <3>4, <4>1, <4>2, <4>3 DEF Entry
      <4> QED
        BY <2>6, <4>1, <4>2, <4>4 DEF EntryTrue
    <3> QED
      BY <3>3, <3>5
  <2> QED
    BY <2>3, <2>4, <2>7, <2>8 DEF HealthIsRight
<1> QED
  BY <1>1, ReaderInvariance, PTL
=============================================================================

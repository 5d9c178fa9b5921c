--------------------------- MODULE ExplorerProofs ---------------------------
(***************************************************************************)
(* Theorems about Explorer, for any number of callers, any results of the  *)
(* searches and any settings.                                              *)
(***************************************************************************)
EXTENDS Explorer, TLAPS

(* Everything a request can do, with what it leaves alone. *)
LEMMA TypeInit == Init => TypeOK
BY DEF Init, TypeOK, Refusal, Reply

LEMMA TypeStep == TypeOK /\ [Next]_vars => TypeOK'
<1> SUFFICES ASSUME TypeOK, [Next]_vars PROVE TypeOK'
    OBVIOUS
<1> USE DEF TypeOK, Reply
<1>1. CASE UNCHANGED vars
    BY <1>1 DEF vars
<1>2. ASSUME NEW c \in Caller, Receive(c) PROVE TypeOK'
    BY <1>2 DEF Receive, Goes, Replies, Refusal
<1>3. ASSUME NEW c \in Caller, Enter(c) PROVE TypeOK'
    BY <1>3 DEF Enter, Goes, Replies, Refusal
<1>4. ASSUME NEW c \in Caller, Embed(c) PROVE TypeOK'
    BY <1>4 DEF Embed, Goes
<1>5. ASSUME NEW c \in Caller, EmbedFails(c) PROVE TypeOK'
    BY <1>5 DEF EmbedFails, Leaves, Goes, Replies, Refusal
<1>6. ASSUME NEW c \in Caller, Search(c) PROVE TypeOK'
    BY <1>6 DEF Search, Goes
<1>7. ASSUME NEW c \in Caller, Raises(c) PROVE TypeOK'
    BY <1>7 DEF Raises, Inside, Leaves, Goes, Replies, Refusal
<1>8. ASSUME NEW c \in Caller, Explain(c) PROVE TypeOK'
    BY <1>8 DEF Explain, Leaves, Goes, Replies, explain_gate, _generate
<1> QED
    BY <1>1, <1>2, <1>3, <1>4, <1>5, <1>6, <1>7, <1>8 DEF Next

(* Every reachable state of the explorer is well typed (explorer.py).       *)
THEOREM TypeCorrect == Spec => []TypeOK
BY TypeInit, TypeStep, PTL DEF Spec

-----------------------------------------------------------------------------
LEMMA LockInit == Init => LockIsTrue
BY CallerAssumption DEF Init, LockIsTrue, Inside

(* Of the steps, those that leave let go of the lock, and then nobody is    *)
(* inside, since whoever was held it.                                       *)
LEMMA LockStep == TypeOK /\ LockIsTrue /\ [Next]_vars => LockIsTrue'
<1> SUFFICES ASSUME TypeOK, LockIsTrue, [Next]_vars PROVE LockIsTrue'
    OBVIOUS
<1> USE CallerAssumption DEF TypeOK, LockIsTrue, Inside
<1>1. CASE UNCHANGED vars
    BY <1>1 DEF vars
<1>2. ASSUME NEW c \in Caller, Receive(c) PROVE LockIsTrue'
    BY <1>2 DEF Receive, Goes, Replies
<1>3. ASSUME NEW c \in Caller, Enter(c) PROVE LockIsTrue'
    BY <1>3 DEF Enter, Goes, Replies
<1>4. ASSUME NEW c \in Caller, Embed(c) PROVE LockIsTrue'
    BY <1>4 DEF Embed, Goes
<1>5. ASSUME NEW c \in Caller, Inside(c), NEW r, Leaves(c, r) PROVE LockIsTrue'
    BY <1>5 DEF Leaves, Replies, Goes
<1>6. ASSUME NEW c \in Caller, Search(c) PROVE LockIsTrue'
    BY <1>6 DEF Search, Goes
<1>7. ASSUME NEW c \in Caller, EmbedFails(c) \/ Raises(c) \/ Explain(c)
      PROVE  LockIsTrue'
    BY <1>5, <1>7 DEF EmbedFails, Raises, Explain
<1> QED
    BY <1>1, <1>2, <1>3, <1>4, <1>6, <1>7 DEF Next

(* The lock is held exactly while an exploration is under way, by the one   *)
(* that is: no two share the GPU, a refusal is never spurious, and no way   *)
(* out leaves the explorer locked (explorer.py:72-78).                      *)
THEOREM LockTellsTruth == Spec => []LockIsTrue
BY TypeInit, TypeStep, LockInit, LockStep, PTL DEF Spec

-----------------------------------------------------------------------------
Agrees(c) ==
    reply[c].kind = "explained" /\ at[c] = "page" =>
        /\ reply[c].outcome = ProductionOutcome(result[c], TRUE)
        /\ reply[c].answer # "none" =>
              \E works \in BOOLEAN :
                  reply[c].answer = AnswerOf[ProductionOutcome(result[c], works)]

(* The source an answer comes from is the one production would answer from. *)
LEMMA SameAnswer ==
    ASSUME NEW r, NEW works \in BOOLEAN, config.fallback \in BOOLEAN,
           _generate(r, works) # "none"
    PROVE  _generate(r, works) = AnswerOf[ProductionOutcome(r, works)]
BY DEF _generate, ProductionOutcome, relevant, has_relevant_results, AnswerOf

LEMMA MirrorInit == Init => MirrorsProduction
BY DEF Init, MirrorsProduction, Refusal

LEMMA MirrorStep ==
    ASSUME TypeOK, MirrorsProduction, [Next]_vars
    PROVE  MirrorsProduction'
<1> USE DEF TypeOK
<1>f. config.fallback \in BOOLEAN
    BY SettingsAssumption
<1>0. \A d \in Caller : Agrees(d)
    BY DEF MirrorsProduction, Agrees
<1>1. SUFFICES ASSUME NEW d \in Caller PROVE Agrees(d)'
    BY DEF MirrorsProduction, Agrees
<1>2. ASSUME config' = config, at'[d] = at[d], result'[d] = result[d], reply'[d] = reply[d]
      PROVE  Agrees(d)'
    BY <1>0, <1>2 DEF Agrees, ProductionOutcome
<1>3. ASSUME at'[d] # "page" \/ reply'[d].kind # "explained" PROVE Agrees(d)'
    BY <1>3 DEF Agrees
<1>4. CASE UNCHANGED vars
    BY <1>2, <1>4 DEF vars
<1>5. ASSUME NEW c \in Caller, Receive(c) PROVE Agrees(d)'
    BY <1>2, <1>3, <1>5 DEF Receive, Goes, Replies, Refusal
<1>6. ASSUME NEW c \in Caller, Enter(c) PROVE Agrees(d)'
    BY <1>2, <1>3, <1>6 DEF Enter, Goes, Replies, Refusal
<1>7. ASSUME NEW c \in Caller, Embed(c) PROVE Agrees(d)'
    BY <1>2, <1>3, <1>7 DEF Embed, Goes
<1>8. ASSUME NEW c \in Caller, EmbedFails(c) PROVE Agrees(d)'
    BY <1>2, <1>3, <1>8 DEF EmbedFails, Leaves, Goes, Replies, Refusal
<1>9. ASSUME NEW c \in Caller, Search(c) PROVE Agrees(d)'
    BY <1>2, <1>3, <1>9 DEF Search, Goes
<1>10. ASSUME NEW c \in Caller, Raises(c) PROVE Agrees(d)'
    BY <1>2, <1>3, <1>10 DEF Raises, Inside, Leaves, Goes, Replies, Refusal
<1>11. ASSUME NEW c \in Caller, Explain(c) PROVE Agrees(d)'
  <2>1. CASE c # d
    BY <1>2, <1>11, <2>1 DEF Explain, Leaves, Goes, Replies
  <2>2. CASE c = d
    <3>1. PICK works \in BOOLEAN :
            reply'[d] = [kind |-> "explained", outcome |-> explain_gate(result[d]),
                         answer |-> IF generate[d] THEN _generate(result[d], works)
                                    ELSE "none"]
        BY <1>11, <2>2 DEF Explain, Leaves, Replies
    <3>2. result' = result /\ config' = config
        BY <1>11 DEF Explain
    <3>3. reply'[d].outcome = ProductionOutcome(result[d], TRUE)
      <4>1. explain_gate(result[d]) = ProductionOutcome(result[d], TRUE)
        BY <1>f DEF explain_gate, ProductionOutcome, relevant, has_relevant_results
      <4> QED
        BY <3>1, <4>1
    <3>4. reply'[d].answer # "none"
            => reply'[d].answer = AnswerOf[ProductionOutcome(result[d], works)]
      <4>1. _generate(result[d], works) # "none"
                => _generate(result[d], works) = AnswerOf[ProductionOutcome(result[d], works)]
        BY <1>f, SameAnswer
      <4> QED
        BY <3>1, <4>1
    <3> QED
        BY <3>2, <3>3, <3>4 DEF Agrees, ProductionOutcome
  <2> QED
    BY <2>1, <2>2
<1> QED
    BY <1>4, <1>5, <1>6, <1>7, <1>8, <1>9, <1>10, <1>11 DEF Next

(* Whatever the searches return and however the gate is set, the explorer   *)
(* names the outcome production has and answers from the source production  *)
(* answers from (explain_gate, _generate; engine.py:87-131).                *)
THEOREM ExplorerMirrors == Spec => []MirrorsProduction
BY TypeInit, TypeStep, MirrorInit, MirrorStep, PTL DEF Spec
=============================================================================

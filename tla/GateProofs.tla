----------------------------- MODULE GateProofs -----------------------------
(***************************************************************************)
(* Proofs about the approval desk, for any number of gates, approvers and  *)
(* approve commands.                                                       *)
(*                                                                         *)
(* The executor runs with the gate lock released, so the lock alone proves *)
(* nothing about it.  The invariant says what replaces the lock there: a   *)
(* command in its executor is the only one on its gate (Exclusive), and    *)
(* until it comes back the disk says executing (StageOK), which every      *)
(* other command refuses.                                                  *)
(***************************************************************************)
EXTENDS Gate, TLAPS

Holding == {"claim", "unstale", "settle"}
Busy == {"claim", "unstale", "run", "returned"}

LockOK == \A d \in Desk : pc[d] \in Holding <=> lock = d

TargetOK == \A d \in Desk : pc[d] # "idle" => target[d] \in Gates

\* What a command can rely on finding on disk at each of its steps.
StageOK ==
  \A d \in Desk :
    LET g == target[d] IN
    /\ pc[d] = "claim" => Load(g) \in {"approved", "failed"}
    /\ pc[d] = "unstale" => /\ pendingDir[g] = "executing"
                            /\ resolvedDir[g] \in {"absent", "failed"}
                            /\ inMemory[d] = "executing"
    /\ pc[d] \in {"run", "returned"} => /\ pendingDir[g] = "executing"
                                        /\ resolvedDir[g] = "absent"
    /\ pc[d] = "returned" => inMemory[d] \in {"executed", "failed"}
    /\ pc[d] = "settle" => /\ inMemory[d] \in Terminal
                           /\ resolvedDir[g] = inMemory[d]

Exclusive ==
  \A d, e \in Desk :
    pc[d] \in Busy /\ pc[e] \in Busy /\ target[d] = target[e] => d = e

\* How far the side effect is, seen from the command that performs it.
EffectOK ==
  \A d \in Desk :
    /\ pc[d] \in {"claim", "unstale", "run"} => sent[target[d]] = 0
    /\ pc[d] = "returned" /\ inMemory[d] = "executed" => sent[target[d]] = 1
    /\ pc[d] = "returned" /\ inMemory[d] = "failed" => sent[target[d]] = 0

IInv == /\ TypeOK
        /\ LockOK
        /\ TargetOK
        /\ StageOK
        /\ Exclusive
        /\ EffectOK
        /\ SentAtMostOnce
        /\ RecordIsTruthful

-----------------------------------------------------------------------------
LEMMA InitIInv == Init => IInv
  BY GateAssumption
  DEF Init, IInv, TypeOK, LockOK, TargetOK, StageOK, Exclusive, EffectOK,
      SentAtMostOnce, RecordIsTruthful, Load, Live, Terminal, Copy, Step,
      Holding, Busy


LEMMA SubmitStep == ASSUME IInv, NEW g \in Gates, Submit(g) PROVE IInv'
<1> USE GateAssumption DEF IInv, Live, Terminal, Copy, Step, Holding, Busy,
      Load, Submit, Write
<1>1. TypeOK'  BY DEF TypeOK
<1>2. LockOK'  BY DEF TypeOK, LockOK
<1>3. TargetOK'  BY DEF TypeOK, TargetOK
<1>4. StageOK'  BY DEF TypeOK, LockOK, TargetOK, StageOK, Exclusive
<1>5. Exclusive'  BY DEF TypeOK, TargetOK, LockOK, StageOK, Exclusive
<1>6. EffectOK'  BY DEF TypeOK, TargetOK, StageOK, LockOK, EffectOK, Exclusive, RecordIsTruthful
<1>7. SentAtMostOnce'  BY DEF TypeOK, TargetOK, EffectOK, SentAtMostOnce
<1>8. RecordIsTruthful'  BY DEF TypeOK, TargetOK, StageOK, EffectOK, RecordIsTruthful
<1> QED BY <1>1, <1>2, <1>3, <1>4, <1>5, <1>6, <1>7, <1>8

LEMMA ApproveStep == ASSUME IInv, NEW d \in Desk, NEW g \in Gates, Approve(d, g) PROVE IInv'
<1> USE GateAssumption DEF IInv, Live, Terminal, Copy, Step, Holding, Busy,
      Load, Approve, Acquire, MayExecute, Write, Carry, Goto, files
<1>1. TypeOK'  BY DEF TypeOK
<1>2. LockOK'  BY DEF TypeOK, LockOK
<1>3. TargetOK'  BY DEF TypeOK, TargetOK
<1>4. StageOK'  BY DEF TypeOK, LockOK, TargetOK, StageOK, Exclusive
<1>5. Exclusive'  BY DEF TypeOK, TargetOK, LockOK, StageOK, Exclusive
<1>6. EffectOK'  BY DEF TypeOK, TargetOK, StageOK, LockOK, EffectOK, Exclusive, RecordIsTruthful
<1>7. SentAtMostOnce'  BY DEF TypeOK, TargetOK, EffectOK, SentAtMostOnce
<1>8. RecordIsTruthful'  BY DEF TypeOK, TargetOK, StageOK, EffectOK, RecordIsTruthful
<1> QED BY <1>1, <1>2, <1>3, <1>4, <1>5, <1>6, <1>7, <1>8

LEMMA ClaimStep == ASSUME IInv, NEW d \in Desk, Claim(d) PROVE IInv'
<1> USE GateAssumption DEF IInv, Live, Terminal, Copy, Step, Holding, Busy,
      Load, Claim, Write, Carry, Goto
<1>1. TypeOK'  BY DEF TypeOK
<1>2. LockOK'  BY DEF TypeOK, LockOK
<1>3. TargetOK'  BY DEF TypeOK, TargetOK
<1>4. StageOK'  BY DEF TypeOK, LockOK, TargetOK, StageOK, Exclusive
<1>5. Exclusive'  BY DEF TypeOK, TargetOK, LockOK, StageOK, Exclusive
<1>6. EffectOK'  BY DEF TypeOK, TargetOK, StageOK, LockOK, EffectOK, Exclusive, RecordIsTruthful
<1>7. SentAtMostOnce'  BY DEF TypeOK, TargetOK, EffectOK, SentAtMostOnce
<1>8. RecordIsTruthful'  BY DEF TypeOK, TargetOK, StageOK, EffectOK, RecordIsTruthful
<1> QED BY <1>1, <1>2, <1>3, <1>4, <1>5, <1>6, <1>7, <1>8

LEMMA UnstaleStep == ASSUME IInv, NEW d \in Desk, Unstale(d) PROVE IInv'
<1> USE GateAssumption DEF IInv, Live, Terminal, Copy, Step, Holding, Busy,
      Load, Unstale, DropStale, Release, Goto
<1>1. TypeOK'  BY DEF TypeOK
<1>2. LockOK'  BY DEF TypeOK, LockOK
<1>3. TargetOK'  BY DEF TypeOK, TargetOK
<1>4. StageOK'  BY DEF TypeOK, LockOK, TargetOK, StageOK, Exclusive
<1>5. Exclusive'  BY DEF TypeOK, TargetOK, LockOK, StageOK, Exclusive
<1>6. EffectOK'  BY DEF TypeOK, TargetOK, StageOK, LockOK, EffectOK, Exclusive, RecordIsTruthful
<1>7. SentAtMostOnce'  BY DEF TypeOK, TargetOK, EffectOK, SentAtMostOnce
<1>8. RecordIsTruthful'  BY DEF TypeOK, TargetOK, StageOK, EffectOK, RecordIsTruthful
<1> QED BY <1>1, <1>2, <1>3, <1>4, <1>5, <1>6, <1>7, <1>8

LEMMA ExecutorOkStep == ASSUME IInv, NEW d \in Desk, ExecutorOk(d) PROVE IInv'
<1> USE GateAssumption DEF IInv, Live, Terminal, Copy, Step, Holding, Busy,
      Load, ExecutorOk, Carry, Goto, files
<1>1. TypeOK'  BY DEF TypeOK, TargetOK
<1>2. LockOK'  BY DEF TypeOK, LockOK
<1>3. TargetOK'  BY DEF TypeOK, TargetOK
<1>4. StageOK'  BY DEF TypeOK, LockOK, TargetOK, StageOK, Exclusive
<1>5. Exclusive'  BY DEF TypeOK, TargetOK, LockOK, StageOK, Exclusive
<1>6. EffectOK'  BY DEF TypeOK, TargetOK, StageOK, LockOK, EffectOK, Exclusive, RecordIsTruthful
<1>7. SentAtMostOnce'  BY DEF TypeOK, TargetOK, EffectOK, SentAtMostOnce
<1>8. RecordIsTruthful'  BY DEF TypeOK, TargetOK, StageOK, EffectOK, RecordIsTruthful
<1> QED BY <1>1, <1>2, <1>3, <1>4, <1>5, <1>6, <1>7, <1>8

LEMMA ExecutorErrStep == ASSUME IInv, NEW d \in Desk, ExecutorErr(d) PROVE IInv'
<1> USE GateAssumption DEF IInv, Live, Terminal, Copy, Step, Holding, Busy,
      Load, ExecutorErr, Carry, Goto, files
<1>1. TypeOK'  BY DEF TypeOK
<1>2. LockOK'  BY DEF TypeOK, LockOK
<1>3. TargetOK'  BY DEF TypeOK, TargetOK
<1>4. StageOK'  BY DEF TypeOK, LockOK, TargetOK, StageOK, Exclusive
<1>5. Exclusive'  BY DEF TypeOK, TargetOK, LockOK, StageOK, Exclusive
<1>6. EffectOK'  BY DEF TypeOK, TargetOK, StageOK, LockOK, EffectOK, Exclusive, RecordIsTruthful
<1>7. SentAtMostOnce'  BY DEF TypeOK, TargetOK, EffectOK, SentAtMostOnce
<1>8. RecordIsTruthful'  BY DEF TypeOK, TargetOK, StageOK, EffectOK, RecordIsTruthful
<1> QED BY <1>1, <1>2, <1>3, <1>4, <1>5, <1>6, <1>7, <1>8

LEMMA RecordStep == ASSUME IInv, NEW d \in Desk, Record(d) PROVE IInv'
<1> USE GateAssumption DEF IInv, Live, Terminal, Copy, Step, Holding, Busy,
      Load, Record, Acquire, Write, Goto
<1>1. TypeOK'  BY DEF TypeOK
<1>2. LockOK'  BY DEF TypeOK, LockOK
<1>3. TargetOK'  BY DEF TypeOK, TargetOK
<1>4. StageOK'  BY DEF TypeOK, LockOK, TargetOK, StageOK, Exclusive
<1>5. Exclusive'  BY DEF TypeOK, TargetOK, LockOK, StageOK, Exclusive
<1>6. EffectOK'  BY DEF TypeOK, TargetOK, StageOK, LockOK, EffectOK, Exclusive, RecordIsTruthful
<1>7. SentAtMostOnce'  BY DEF TypeOK, TargetOK, EffectOK, SentAtMostOnce
<1>8. RecordIsTruthful'  BY DEF TypeOK, TargetOK, StageOK, EffectOK, RecordIsTruthful
<1> QED BY <1>1, <1>2, <1>3, <1>4, <1>5, <1>6, <1>7, <1>8

LEMMA DenyStep == ASSUME IInv, NEW d \in Desk, NEW g \in Gates, Deny(d, g) PROVE IInv'
<1> USE GateAssumption DEF IInv, Live, Terminal, Copy, Step, Holding, Busy,
      Load, Deny, Acquire, MayDeny, Write, Carry, Goto
<1>1. TypeOK'  BY DEF TypeOK
<1>2. LockOK'  BY DEF TypeOK, LockOK
<1>3. TargetOK'  BY DEF TypeOK, TargetOK
<1>4. StageOK'  BY DEF TypeOK, LockOK, TargetOK, StageOK, Exclusive
<1>5. Exclusive'  BY DEF TypeOK, TargetOK, LockOK, StageOK, Exclusive
<1>6. EffectOK'  BY DEF TypeOK, TargetOK, StageOK, LockOK, EffectOK, Exclusive, RecordIsTruthful
<1>7. SentAtMostOnce'  BY DEF TypeOK, TargetOK, EffectOK, SentAtMostOnce
<1>8. RecordIsTruthful'  BY DEF TypeOK, TargetOK, StageOK, EffectOK, RecordIsTruthful
<1> QED BY <1>1, <1>2, <1>3, <1>4, <1>5, <1>6, <1>7, <1>8

LEMMA SettleStep == ASSUME IInv, NEW d \in Desk, Settle(d) PROVE IInv'
<1> USE GateAssumption DEF IInv, Live, Terminal, Copy, Step, Holding, Busy,
      Load, Settle, DropStale, Release, End, Carry, Goto
<1>1. TypeOK'  BY DEF TypeOK
<1>2. LockOK'  BY DEF TypeOK, LockOK
<1>3. TargetOK'  BY DEF TypeOK, TargetOK
<1>4. StageOK'  BY DEF TypeOK, LockOK, TargetOK, StageOK, Exclusive
<1>5. Exclusive'  BY DEF TypeOK, TargetOK, LockOK, StageOK, Exclusive
<1>6. EffectOK'  BY DEF TypeOK, TargetOK, StageOK, LockOK, EffectOK, Exclusive, RecordIsTruthful
<1>7. SentAtMostOnce'  BY DEF TypeOK, TargetOK, EffectOK, SentAtMostOnce
<1>8. RecordIsTruthful'  BY DEF TypeOK, TargetOK, StageOK, EffectOK, RecordIsTruthful
<1> QED BY <1>1, <1>2, <1>3, <1>4, <1>5, <1>6, <1>7, <1>8

LEMMA CrashStep == ASSUME IInv, NEW d \in Desk, Crash(d) PROVE IInv'
<1> USE GateAssumption DEF IInv, Live, Terminal, Copy, Step, Holding, Busy,
      Load, Crash, FreedByKernel, End, Carry, Goto, files
<1>1. TypeOK'  BY DEF TypeOK, TargetOK
<1>2. LockOK'  BY DEF TypeOK, LockOK
<1>3. TargetOK'  BY DEF TypeOK, TargetOK
<1>4. StageOK'  BY DEF TypeOK, LockOK, TargetOK, StageOK, Exclusive
<1>5. Exclusive'  BY DEF TypeOK, TargetOK, LockOK, StageOK, Exclusive
<1>6. EffectOK'  BY DEF TypeOK, TargetOK, StageOK, LockOK, EffectOK, Exclusive, RecordIsTruthful
<1>7. SentAtMostOnce'  BY DEF TypeOK, TargetOK, EffectOK, SentAtMostOnce
<1>8. RecordIsTruthful'  BY DEF TypeOK, TargetOK, StageOK, EffectOK, RecordIsTruthful
<1> QED BY <1>1, <1>2, <1>3, <1>4, <1>5, <1>6, <1>7, <1>8

LEMMA NextIInv == IInv /\ [Next]_vars => IInv'
<1> SUFFICES ASSUME IInv, [Next]_vars PROVE IInv'
  OBVIOUS
<1>1. ASSUME NEW g \in Gates, Submit(g) PROVE IInv'
  BY <1>1, SubmitStep
<1>2. ASSUME NEW d \in Desk, NEW g \in Gates, Approve(d, g) \/ Deny(d, g)
      PROVE IInv'
  BY <1>2, ApproveStep, DenyStep
<1>3. ASSUME NEW d \in Desk, DeskStep(d) \/ Crash(d) PROVE IInv'
  BY <1>3, ClaimStep, UnstaleStep, ExecutorOkStep, ExecutorErrStep,
     RecordStep, SettleStep, CrashStep DEF DeskStep
<1>4. CASE UNCHANGED vars
  BY <1>4 DEF vars, IInv, TypeOK, LockOK, TargetOK, StageOK, Exclusive,
     EffectOK, SentAtMostOnce, RecordIsTruthful, Load
<1> QED BY <1>1, <1>2, <1>3, <1>4 DEF Next

(* The invariant holds of every reachable state, whatever the number of gates,
   approvers and retries, and wherever processes die.                         *)
THEOREM Invariance == Spec => []IInv
  BY InitIInv, NextIInv, PTL DEF Spec

(* Type correctness of the desk's files, lock and processes. *)
THEOREM TypeCorrect == Spec => []TypeOK
<1>1. IInv => TypeOK  BY DEF IInv
<1> QED BY <1>1, Invariance, PTL

(* execute_gate's promise: an action's side effect happens at most once. *)
THEOREM EffectAtMostOnce == Spec => []SentAtMostOnce
<1>1. IInv => SentAtMostOnce  BY DEF IInv
<1> QED BY <1>1, Invariance, PTL

(* What gates/ says about the past is what happened. *)
THEOREM RecordsAreTrue == Spec => []RecordIsTruthful
<1>1. IInv => RecordIsTruthful  BY DEF IInv
<1> QED BY <1>1, Invariance, PTL

(* No executor ever runs for a gate whose denial is on disk. *)
THEOREM DenialsAreFinal == Spec => []DenialIsFinal
<1>1. ASSUME IInv PROVE DenialIsFinal
  <2> SUFFICES ASSUME NEW g \in Gates, resolvedDir[g] = "denied"
               PROVE  /\ sent[g] = 0
                      /\ ~ \E d \in Desk :
                             /\ pc[d] \in {"claim", "unstale", "run", "returned"}
                             /\ target[d] = g
    BY DEF DenialIsFinal
  <2>1. Load(g) = "denied"
    BY DEF Load
  <2>2. sent[g] = 0
    BY <1>1, <2>1 DEF IInv, RecordIsTruthful
  <2>3. ASSUME NEW d \in Desk, pc[d] \in {"claim", "unstale", "run", "returned"},
               target[d] = g
        PROVE FALSE
    BY <1>1, <2>1, <2>3 DEF IInv, StageOK
  <2> QED BY <2>2, <2>3
<1> QED BY <1>1, Invariance, PTL

-----------------------------------------------------------------------------
(***************************************************************************)
(* The desk implements GateLifecycle.  The refinement mapping reads the    *)
(* state of a gate with Load, so writing the new copy is the abstract step *)
(* when it changes what Load returns, and removing the stale one is when   *)
(* it does.                                                                *)
(***************************************************************************)
LEMMA Stutter ==
  ASSUME sent' = sent, \A g \in Gates : Load(g)' = Load(g)
  PROVE  UNCHANGED Lifecycle!vars
  BY DEF Lifecycle!vars

\* A step of any one gate.
LEMMA StepOne ==
  ASSUME NEW g \in Gates,
         \/ Lifecycle!File(g) \/ Lifecycle!Approve(g) \/ Lifecycle!Start(g)
         \/ Lifecycle!Effect(g) \/ Lifecycle!Executed(g) \/ Lifecycle!Failed(g)
         \/ Lifecycle!Deny(g)
  PROVE  Lifecycle!Next
  BY DEF Lifecycle!Next

LEMMA InitImplements == Init => Lifecycle!Init
  BY DEF Init, Lifecycle!Init, Load

LEMMA StepImplements ==
  IInv /\ [Next]_vars => [Lifecycle!Next]_Lifecycle!vars
<1> DEFINE Abstract == Lifecycle!Next \/ UNCHANGED Lifecycle!vars
<1> SUFFICES ASSUME IInv, [Next]_vars PROVE Abstract
  OBVIOUS
<1> HIDE DEF Abstract
<1>next. ASSUME Lifecycle!Next PROVE Abstract
  BY <1>next DEF Abstract
<1>same. ASSUME sent' = sent, \A g \in Gates : Load(g)' = Load(g) PROVE Abstract
  BY <1>same, Stutter DEF Abstract
<1> USE DEF IInv, TypeOK, Live, Terminal, Load, Goto, Carry
<1>1. ASSUME NEW g \in Gates, Submit(g) PROVE Abstract
  <2>1. Lifecycle!File(g)
    BY <1>1 DEF Submit, Write, Lifecycle!File, Lifecycle!Move
  <2> QED BY <2>1, StepOne, <1>next
<1>2. ASSUME NEW d \in Desk, NEW g \in Gates, Approve(d, g) PROVE Abstract
  <2>1. CASE Load(g) = "pending"
    <3>1. Lifecycle!Approve(g)
      BY <1>2, <2>1 DEF Approve, Write, Lifecycle!Approve, Lifecycle!Move
    <3> QED BY <3>1, StepOne, <1>next
  <2>2. CASE Load(g) # "pending"
    BY <1>2, <2>2, <1>same DEF Approve, files
  <2> QED BY <2>1, <2>2
<1>3. ASSUME NEW d \in Desk, Claim(d) PROVE Abstract
  <2>0. target[d] \in Gates
    BY <1>3 DEF Claim, TargetOK
  <2>1. /\ sent[target[d]] = 0
        /\ Load(target[d]) \in {"approved", "failed"}
    BY <1>3 DEF Claim, TargetOK, StageOK, EffectOK
  <2>2. CASE Load(target[d]) = "approved"
    <3>1. PICK g \in Gates : g = target[d]
      BY <2>0
    <3>2. Lifecycle!Start(g)
      BY <1>3, <3>1, <2>1, <2>2 DEF Claim, Write, Lifecycle!Start, Lifecycle!Move
    <3> QED BY <3>2, StepOne, <1>next
  <2>3. CASE Load(target[d]) = "failed"
    BY <1>3, <2>0, <2>1, <2>3, <1>same DEF Claim, Write
  <2> QED BY <2>1, <2>2, <2>3
<1>4. ASSUME NEW d \in Desk, Unstale(d) PROVE Abstract
  <2>0. target[d] \in Gates
    BY <1>4 DEF Unstale, TargetOK
  <2>1. /\ sent[target[d]] = 0
        /\ inMemory[d] = "executing"
        /\ pendingDir[target[d]] = "executing"
        /\ resolvedDir[target[d]] \in {"absent", "failed"}
    BY <1>4 DEF Unstale, TargetOK, StageOK, EffectOK
  <2>2. CASE resolvedDir[target[d]] = "failed"
    <3>1. PICK g \in Gates : g = target[d]
      BY <2>0
    <3>2. Lifecycle!Start(g)
      BY <1>4, <3>1, <2>1, <2>2
      DEF Unstale, DropStale, Lifecycle!Start, Lifecycle!Move
    <3> QED BY <3>2, StepOne, <1>next
  <2>3. CASE resolvedDir[target[d]] = "absent"
    BY <1>4, <2>0, <2>1, <2>3, <1>same DEF Unstale, DropStale
  <2> QED BY <2>1, <2>2, <2>3
<1>5. ASSUME NEW d \in Desk, pc[d] = "run", UNCHANGED files,
             sent' = [sent EXCEPT ![target[d]] = @ + 1]
      PROVE  Abstract
  <2>1. /\ target[d] \in Gates
        /\ sent[target[d]] = 0
        /\ Load(target[d]) = "executing"
    BY <1>5 DEF TargetOK, StageOK, EffectOK
  <2>2. PICK g \in Gates : g = target[d]
    BY <2>1
  <2>3. Lifecycle!Effect(g)
    BY <1>5, <2>1, <2>2 DEF files, Lifecycle!Effect
  <2> QED BY <2>3, StepOne, <1>next
<1>6. ASSUME NEW d \in Desk, ExecutorOk(d) PROVE Abstract
  BY <1>5, <1>6 DEF ExecutorOk
<1>7. ASSUME NEW d \in Desk, ExecutorErr(d) PROVE Abstract
  BY <1>7, <1>same DEF ExecutorErr, files
<1>8. ASSUME NEW d \in Desk, Record(d) PROVE Abstract
  <2>0. target[d] \in Gates
    BY <1>8 DEF Record, TargetOK
  <2>1. /\ inMemory[d] \in {"executed", "failed"}
        /\ sent[target[d]] = IF inMemory[d] = "executed" THEN 1 ELSE 0
        /\ Load(target[d]) = "executing"
    BY <1>8 DEF Record, TargetOK, StageOK, EffectOK
  <2>2. PICK g \in Gates : g = target[d]
    BY <2>0
  <2>3. Lifecycle!Executed(g) \/ Lifecycle!Failed(g)
    BY <1>8, <2>1, <2>2
    DEF Record, Write, Lifecycle!Executed, Lifecycle!Failed, Lifecycle!Move
  <2> QED BY <2>3, StepOne, <1>next
<1>9. ASSUME NEW d \in Desk, NEW g \in Gates, Deny(d, g) PROVE Abstract
  <2>1. Lifecycle!Deny(g)
    BY <1>9 DEF Deny, MayDeny, Write, Lifecycle!Deny, Lifecycle!Move
  <2> QED BY <2>1, StepOne, <1>next
<1>10. ASSUME NEW d \in Desk, Settle(d) PROVE Abstract
  <2>1. /\ target[d] \in Gates
        /\ inMemory[d] \in Terminal
        /\ resolvedDir[target[d]] = inMemory[d]
    BY <1>10 DEF Settle, TargetOK, StageOK
  <2> QED BY <1>10, <2>1, <1>same DEF Settle, DropStale
<1>11. ASSUME NEW d \in Desk, Crash(d) PROVE Abstract
  <2>1. UNCHANGED files
    BY <1>11 DEF Crash
  <2>2. CASE UNCHANGED sent
    BY <2>1, <2>2, <1>same DEF files
  <2>3. CASE pc[d] = "run" /\ sent' = [sent EXCEPT ![target[d]] = @ + 1]
    BY <1>5, <2>1, <2>3
  <2> QED BY <1>11, <2>2, <2>3 DEF Crash
<1>12. CASE UNCHANGED vars
  BY <1>12, <1>same DEF vars
<1> QED
  BY <1>1, <1>2, <1>3, <1>4, <1>6, <1>7, <1>8, <1>9, <1>10, <1>11, <1>12
  DEF Next, DeskStep

(* The desk implements the documented state machine of a gate: every step on
   the two directories is one of its transitions, or none.                    *)
THEOREM DeskImplementsLifecycle == Spec => ImplementsLifecycle
  BY InitImplements, Invariance, StepImplements, PTL
  DEF Spec, ImplementsLifecycle, Lifecycle!Spec
=============================================================================

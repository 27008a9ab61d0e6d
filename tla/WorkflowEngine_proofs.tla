------------------------ MODULE WorkflowEngine_proofs ------------------------
(***************************************************************************)
(* Proofs about WorkflowEngine for every set of executions, run slots,     *)
(* processes and poll cycles, and every bound.                             *)
(*                                                                         *)
(* SingleRunner is not inductive: a claim is safe only because a suspended *)
(* row has no call working on it (the suspended status is the last thing a *)
(* run writes).  GroupsRunOnceInOrder needs to know where each run stands  *)
(* relative to what was handed over before it.  IInv collects these facts. *)
(***************************************************************************)
EXTENDS WorkflowEngine, SequenceTheorems, TLAPS

(* Nothing handed over for e lies beyond the order o. *)
UpTo(e, o) == \A i \in 1..Len(log[e]) : log[e][i] <= o

(* A live call has a row and a process, a group to hand over when it is      *)
(* about to hand one over, and an outcome when it is about to end.           *)
RunnersPlaced ==
  \A r \in Runner :
    /\ pc[r] # "idle" => exec[r] \in Execution /\ host[r] \in Process
    /\ pc[r] \in {"mark", "act"} => at[r] \in Order
    /\ pc[r] \in {"settle", "write", "bail"} => outcome[r] # "none"

(* A row that does not exist yet, or is suspended, has no call. *)
ParkedIsFree ==
  \A e \in Execution : status[e] \in {"none", "suspended"} => ~Live(e)

(* currentStep of a resumable row, and the position of a run, cover          *)
(* everything handed over; a group about to run lies beyond it.              *)
RowCoversLog ==
  \A e \in Execution :
    /\ status[e] = "none" => log[e] = <<>>
    /\ status[e] = "suspended" => UpTo(e, currentStep[e])

Walking == {"reload", "gate", "restart", "check", "mark", "act", "park"}

Covered(r) ==
  /\ \A o \in todo[r] : o > at[r]
  /\ pc[r] \in {"idle", "load", "resume"} => at[r] = -1 /\ todo[r] = {}
  /\ pc[r] \in {"load", "start"} => log[exec[r]] = <<>>
  /\ pc[r] = "resume" => UpTo(exec[r], currentStep[exec[r]])
  /\ pc[r] \in Walking => UpTo(exec[r], at[r])
  /\ pc[r] \in {"mark", "act"} => UpTo(exec[r], at[r] - 1)

RunCoversLog == \A r \in Runner : Covered(r)

IInv ==
  /\ TypeOK
  /\ RunnersPlaced
  /\ SingleRunner
  /\ ParkedIsFree
  /\ RowCoversLog
  /\ RunCoversLog
  /\ GroupsRunOnceInOrder

-----------------------------------------------------------------------------
(* Calls keep their type, their row and their process. *)
LEMMA VacateType ==
  ASSUME RunTypeOK, RunnersPlaced, NEW R, Vacate(R)
  PROVE  RunTypeOK' /\ RunnersPlaced'
<1>1. RunTypeOK'
  <2>1. pc' \in [Runner -> PC]
    BY DEF RunTypeOK, Vacate, PC
  <2>2. at' \in [Runner -> -1..MaxOrder]
    BY ConstantsAssumption DEF RunTypeOK, Vacate, ConstantsAssumption
  <2>3. caught' \in [Runner -> BOOLEAN]
    BY DEF RunTypeOK, Vacate
  <2>4. exec' \in [Runner -> Execution \cup {None}] /\ host' \in [Runner -> Process \cup {None}]
    BY DEF RunTypeOK, Vacate
  <2>5. todo' \in [Runner -> SUBSET Order] /\ outcome' \in [Runner -> Outcome]
    BY DEF RunTypeOK, Vacate, Outcome
  <2> QED BY <2>1, <2>2, <2>3, <2>4, <2>5 DEF RunTypeOK
<1>2. RunnersPlaced'
  BY DEF RunTypeOK, RunnersPlaced, Vacate
<1> QED BY <1>1, <1>2

LEMMA RunTypeStep ==
  ASSUME RunTypeOK, RowTypeOK, RunnersPlaced, [Next]_vars
  PROVE  RunTypeOK' /\ RunnersPlaced'
<1> USE DEF RunTypeOK, RunnersPlaced, PC, Outcome, At
<1>1. ASSUME NEW r \in Runner, RunStep(r) \/ RunError(r)
      PROVE  RunTypeOK' /\ RunnersPlaced'
  <2>1. CASE Load(r)
    BY <1>1, <2>1, VacateType DEF Load, End, Bail, Conclude, Walk
  <2>2. CASE Start(r)
    BY <1>1, <2>2 DEF Start, Goto
  <2>3. CASE BailOut(r)
    BY <1>1, <2>3, VacateType DEF BailOut, End
  <2>4. CASE Resume(r)
    BY <1>1, <2>4, VacateType DEF Resume, End, Walk, RowTypeOK, Order
  <2>5. CASE Reload(r)
    BY <1>1, <2>5 DEF Reload, Bail, Conclude, Walk
  <2>6. CASE Gate(r)
    BY <1>1, <2>6 DEF Gate, Bail, Conclude, Goto
  <2>7. CASE Restart(r)
    BY <1>1, <2>7 DEF Restart, Goto
  <2>8. CASE Check(r)
    BY <1>1, <2>8, VacateType, ConstantsAssumption DEF Check, Settle, Conclude, End, Walk, Order, ConstantsAssumption
  <2>9. CASE Mark(r)
    BY <1>1, <2>9 DEF Mark, Goto, Order
  <2>10. CASE Act(r)
    BY <1>1, <2>10 DEF Act, Goto, Settle, Conclude, Order
  <2>11. CASE Park(r)
    BY <1>1, <2>11, VacateType DEF Park, End
  <2>12. CASE SettleRead(r)
    BY <1>1, <2>12, VacateType DEF SettleRead, End, Goto
  <2>13. CASE SettleWrite(r)
    BY <1>1, <2>13, VacateType DEF SettleWrite, End
  <2>14. CASE GateError(r)
    BY <1>1, <2>14 DEF GateError, Goto
  <2>15. CASE StorageError(r)
    BY <1>1, <2>15, VacateType DEF StorageError, End
  <2> QED BY <1>1, <2>1, <2>2, <2>3, <2>4, <2>5, <2>6, <2>7, <2>8, <2>9, <2>10, <2>11, <2>12, <2>13, <2>14, <2>15 DEF RunStep, RunError
<1>2. ASSUME NEW p \in Process, ProcessStep(p)
      PROVE  RunTypeOK' /\ RunnersPlaced'
  <2>1. CASE Crash(p)
    BY <1>2, <2>1, VacateType DEF Crash
  <2>2. CASE SweepRead(p)
    BY <1>2, <2>2 DEF SweepRead, runVars
  <2>3. ASSUME NEW e \in Execution, SweepOne(p, e) PROVE RunTypeOK' /\ RunnersPlaced'
    BY <1>2, <2>3 DEF SweepOne, runVars
  <2>4. ASSUME NEW e \in Execution, RecoverOne(p, e) PROVE RunTypeOK' /\ RunnersPlaced'
    BY <1>2, <2>4 DEF RecoverOne, runVars
  <2>5. ASSUME NEW e \in Execution, NEW r \in Runner, Trigger(e, r, p)
        PROVE  RunTypeOK' /\ RunnersPlaced'
    BY <1>2, <2>5 DEF Trigger, Call
  <2> QED BY <1>2, <2>1, <2>2, <2>3, <2>4, <2>5 DEF ProcessStep
<1>3. ASSUME NEW e \in Execution, RowStep(e)
      PROVE  RunTypeOK' /\ RunnersPlaced'
  <2>1. CASE TriggerFails(e)
    BY <1>3, <2>1 DEF TriggerFails, runVars
  <2>2. CASE ScheduleStale(e)
    BY <1>3, <2>2 DEF ScheduleStale, runVars
  <2>3. CASE CancelExecution(e)
    BY <1>3, <2>3 DEF CancelExecution, runVars
  <2>4. CASE DeleteWorkflow(e)
    BY <1>3, <2>4 DEF DeleteWorkflow, runVars
  <2>5. CASE DueTime(e)
    BY <1>3, <2>5 DEF DueTime, runVars
  <2>6. CASE GrowOld(e)
    BY <1>3, <2>6 DEF GrowOld, runVars
  <2> QED BY <1>3, <2>1, <2>2, <2>3, <2>4, <2>5, <2>6 DEF RowStep
<1>4. ASSUME NEW c \in Cycle, PollStep(c) \/ ClaimFails(c)
      PROVE  RunTypeOK' /\ RunnersPlaced'
  <2>1. CASE Poll(c) \/ ClaimFails(c)
    BY <1>4, <2>1 DEF Poll, ClaimFails, runVars
  <2>2. ASSUME NEW e \in Execution, ClaimLost(c, e) PROVE RunTypeOK' /\ RunnersPlaced'
    BY <1>4, <2>2 DEF ClaimLost, runVars
  <2>3. ASSUME NEW e \in Execution, NEW r \in Runner, Claim(c, e, r)
        PROVE  RunTypeOK' /\ RunnersPlaced'
    BY <1>4, <2>3, ConstantsAssumption DEF Claim, ConstantsAssumption, Call
  <2> QED BY <1>4, <2>1, <2>2, <2>3 DEF PollStep
<1>5. CASE UNCHANGED vars
  BY <1>5 DEF vars, runVars
<1>6. CASE Answer
  BY <1>6 DEF Answer, rowVars, runVars, histVars, listVars, boundVars
<1> QED BY <1>1, <1>2, <1>3, <1>4, <1>5, <1>6 DEF Next

(* Rows and histories keep their types. *)
LEMMA LogLength == ASSUME LogTypeOK, NEW e \in Execution PROVE Len(log[e]) \in Nat
BY DEF LogTypeOK

LEMMA SetStatusType ==
  ASSUME RowTypeOK, LogTypeOK, NEW e, NEW s \in Status, SetStatus(e, s)
  PROVE  status' \in [Execution -> Status] /\ cancelledAt' \in [Execution -> Nat]
<1>1. CASE status[e] = "deleted"
  BY <1>1 DEF SetStatus, RowTypeOK, LogTypeOK
<1>2. CASE status[e] # "deleted"
  <2>1. status' = [status EXCEPT ![e] = s] BY <1>2 DEF SetStatus
  <2>2. status' \in [Execution -> Status] BY <2>1 DEF RowTypeOK
  <2>3. cancelledAt' \in [Execution -> Nat]
    BY <1>2, LogLength DEF SetStatus, LogTypeOK
  <2> QED BY <2>2, <2>3
<1> QED BY <1>1, <1>2

LEMMA RowTypeStep ==
  ASSUME RunTypeOK, RunnersPlaced, RowTypeOK, LogTypeOK, [Next]_vars
  PROVE  RowTypeOK' /\ LogTypeOK'
<1>0. \A e \in Execution : Len(log[e]) \in Nat BY LogLength
<1> USE DEF RunTypeOK, RowTypeOK, LogTypeOK, Status, Terminal, Outcome
<1>1. ASSUME NEW r \in Runner, RunStep(r) \/ RunError(r)
      PROVE  RowTypeOK' /\ LogTypeOK'
  <2>1. CASE Load(r)
    BY <1>1, <2>1 DEF Load, rowVars, histVars
  <2>2. CASE Start(r)
    BY <1>1, <2>2, <1>0 DEF Start, SetStatus
  <2>3. CASE BailOut(r)
    <3>1. outcome[r] \in Status BY <1>1
    <3>2. SetStatus(exec[r], outcome[r]) BY <2>3 DEF BailOut
    <3>3. status' \in [Execution -> Status] /\ cancelledAt' \in [Execution -> Nat]
      BY <3>1, <3>2, SetStatusType
    <3> QED BY <3>3, <2>3 DEF BailOut
  <2>4. CASE Resume(r)
    BY <1>1, <2>4 DEF Resume, rowVars, histVars
  <2>5. CASE Reload(r)
    BY <1>1, <2>5 DEF Reload, rowVars, histVars
  <2>6. CASE Gate(r)
    BY <1>1, <2>6 DEF Gate, rowVars, histVars
  <2>7. CASE Restart(r)
    BY <1>1, <2>7, <1>0 DEF Restart, SetStatus
  <2>8. CASE Check(r)
    BY <1>1, <2>8 DEF Check, rowVars, histVars
  <2>9. CASE Mark(r)
    BY <1>1, <2>9 DEF Mark, rowVars, histVars, RunnersPlaced, At, Order
  <2>10. CASE Act(r)
    BY <1>1, <2>10 DEF Act, rowVars, histVars, RunnersPlaced, At
  <2>11. CASE Park(r)
    BY <1>1, <2>11, <1>0 DEF Park, SetStatus
  <2>12. CASE SettleRead(r)
    BY <1>1, <2>12 DEF SettleRead, rowVars, histVars
  <2>13. CASE SettleWrite(r)
    <3>1. outcome[r] \in Status BY <1>1
    <3>2. SetStatus(exec[r], outcome[r]) BY <2>13 DEF SettleWrite
    <3>3. status' \in [Execution -> Status] /\ cancelledAt' \in [Execution -> Nat]
      BY <3>1, <3>2, SetStatusType
    <3> QED BY <3>3, <2>13 DEF SettleWrite
  <2>14. CASE GateError(r)
    BY <1>1, <2>14 DEF GateError, rowVars, histVars
  <2>15. CASE StorageError(r)
    BY <1>1, <2>15 DEF StorageError, rowVars, histVars
  <2> QED BY <1>1, <2>1, <2>2, <2>3, <2>4, <2>5, <2>6, <2>7, <2>8, <2>9, <2>10, <2>11, <2>12, <2>13, <2>14, <2>15 DEF RunStep, RunError
<1>2. ASSUME NEW p \in Process, ProcessStep(p)
      PROVE  RowTypeOK' /\ LogTypeOK'
  <2>1. CASE Crash(p)
    BY <1>2, <2>1 DEF Crash, rowVars, histVars
  <2>2. CASE SweepRead(p)
    BY <1>2, <2>2 DEF SweepRead, rowVars, histVars
  <2>3. ASSUME NEW e \in Execution, SweepOne(p, e) PROVE RowTypeOK' /\ LogTypeOK'
    BY <1>2, <2>3, <1>0 DEF SweepOne, SetStatus
  <2>4. ASSUME NEW e \in Execution, RecoverOne(p, e) PROVE RowTypeOK' /\ LogTypeOK'
    BY <1>2, <2>4, <1>0 DEF RecoverOne, SetStatus
  <2>5. ASSUME NEW e \in Execution, NEW r \in Runner, Trigger(e, r, p)
        PROVE  RowTypeOK' /\ LogTypeOK'
    BY <1>2, <2>5, <1>0 DEF Trigger, SetStatus
  <2> QED BY <1>2, <2>1, <2>2, <2>3, <2>4, <2>5 DEF ProcessStep
<1>3. ASSUME NEW e \in Execution, RowStep(e)
      PROVE  RowTypeOK' /\ LogTypeOK'
  <2>1. CASE TriggerFails(e)
    BY <1>3, <2>1, <1>0 DEF TriggerFails, SetStatus
  <2>2. CASE ScheduleStale(e)
    BY <1>3, <2>2, <1>0, ConstantsAssumption DEF ScheduleStale, SetStatus, ConstantsAssumption
  <2>3. CASE CancelExecution(e)
    BY <1>3, <2>3, <1>0 DEF CancelExecution, SetStatus
  <2>4. CASE DeleteWorkflow(e)
    BY <1>3, <2>4, <1>0 DEF DeleteWorkflow, SetStatus
  <2>5. CASE DueTime(e)
    BY <1>3, <2>5 DEF DueTime, rowVars, histVars
  <2>6. CASE GrowOld(e)
    BY <1>3, <2>6 DEF GrowOld, rowVars, histVars
  <2> QED BY <1>3, <2>1, <2>2, <2>3, <2>4, <2>5, <2>6 DEF RowStep
<1>4. ASSUME NEW c \in Cycle, PollStep(c) \/ ClaimFails(c)
      PROVE  RowTypeOK' /\ LogTypeOK'
  <2>1. CASE Poll(c) \/ ClaimFails(c)
    BY <1>4, <2>1 DEF Poll, ClaimFails, rowVars, histVars
  <2>2. ASSUME NEW e \in Execution, ClaimLost(c, e) PROVE RowTypeOK' /\ LogTypeOK'
    BY <1>4, <2>2 DEF ClaimLost, rowVars, histVars
  <2>3. ASSUME NEW e \in Execution, NEW r \in Runner, Claim(c, e, r)
        PROVE  RowTypeOK' /\ LogTypeOK'
    BY <1>4, <2>3, <1>0 DEF Claim, SetStatus
  <2> QED BY <1>4, <2>1, <2>2, <2>3 DEF PollStep
<1>5. CASE UNCHANGED vars
  BY <1>5 DEF vars, rowVars, histVars
<1>6. CASE Answer
  BY <1>6 DEF Answer, rowVars, runVars, histVars, listVars, boundVars
<1> QED BY <1>1, <1>2, <1>3, <1>4, <1>5, <1>6 DEF Next

(* The lists a process or a poll cycle holds, and the bounds, keep their types. *)
LEMMA ListTypeStep ==
  ASSUME ListTypeOK, FlagTypeOK, [Next]_vars
  PROVE  (ListTypeOK /\ FlagTypeOK)'
<1> USE DEF ListTypeOK, FlagTypeOK
<1>1. ASSUME NEW r \in Runner, RunStep(r) \/ RunError(r)
      PROVE  (ListTypeOK /\ FlagTypeOK)'
  <2>1. CASE Load(r)
    BY <1>1, <2>1 DEF Load, histVars, listVars, boundVars
  <2>2. CASE Start(r)
    BY <1>1, <2>2 DEF Start, histVars, listVars, boundVars
  <2>3. CASE BailOut(r)
    BY <1>1, <2>3 DEF BailOut, histVars, listVars, boundVars
  <2>4. CASE Resume(r)
    BY <1>1, <2>4 DEF Resume, histVars, listVars, boundVars
  <2>5. CASE Reload(r)
    BY <1>1, <2>5 DEF Reload, histVars, listVars, boundVars
  <2>6. CASE Gate(r)
    BY <1>1, <2>6 DEF Gate, histVars, listVars, boundVars
  <2>7. CASE Restart(r)
    BY <1>1, <2>7 DEF Restart, histVars, listVars, boundVars
  <2>8. CASE Check(r)
    BY <1>1, <2>8 DEF Check, histVars, listVars, boundVars
  <2>9. CASE Mark(r)
    BY <1>1, <2>9 DEF Mark, histVars, listVars, boundVars
  <2>10. CASE Act(r)
    BY <1>1, <2>10 DEF Act, histVars, listVars, boundVars
  <2>11. CASE Park(r)
    BY <1>1, <2>11 DEF Park, histVars, listVars, boundVars
  <2>12. CASE SettleRead(r)
    BY <1>1, <2>12 DEF SettleRead, histVars, listVars, boundVars
  <2>13. CASE SettleWrite(r)
    BY <1>1, <2>13 DEF SettleWrite, histVars, listVars, boundVars
  <2>14. CASE GateError(r)
    BY <1>1, <2>14 DEF GateError, histVars, listVars, boundVars
  <2>15. CASE StorageError(r)
    BY <1>1, <2>15 DEF StorageError, histVars, listVars, boundVars
  <2> QED BY <1>1, <2>1, <2>2, <2>3, <2>4, <2>5, <2>6, <2>7, <2>8, <2>9, <2>10, <2>11, <2>12, <2>13, <2>14, <2>15 DEF RunStep, RunError
<1>2. ASSUME NEW p \in Process, ProcessStep(p)
      PROVE  (ListTypeOK /\ FlagTypeOK)'
  <2>1. CASE Crash(p)
    BY <1>2, <2>1 DEF Crash, histVars, listVars, boundVars
  <2>2. CASE SweepRead(p)
    BY <1>2, <2>2 DEF SweepRead, histVars, listVars, boundVars
  <2>3. ASSUME NEW e \in Execution, SweepOne(p, e) PROVE (ListTypeOK /\ FlagTypeOK)'
    BY <1>2, <2>3 DEF SweepOne, histVars, listVars, boundVars
  <2>4. ASSUME NEW e \in Execution, RecoverOne(p, e) PROVE (ListTypeOK /\ FlagTypeOK)'
    BY <1>2, <2>4 DEF RecoverOne, histVars, listVars, boundVars
  <2>5. ASSUME NEW e \in Execution, NEW r \in Runner, Trigger(e, r, p)
        PROVE  (ListTypeOK /\ FlagTypeOK)'
    BY <1>2, <2>5 DEF Trigger, histVars, listVars, boundVars
  <2> QED BY <1>2, <2>1, <2>2, <2>3, <2>4, <2>5 DEF ProcessStep
<1>3. ASSUME NEW e \in Execution, RowStep(e)
      PROVE  (ListTypeOK /\ FlagTypeOK)'
  <2>1. CASE TriggerFails(e)
    BY <1>3, <2>1 DEF TriggerFails, histVars, listVars, boundVars
  <2>2. CASE ScheduleStale(e)
    BY <1>3, <2>2 DEF ScheduleStale, histVars, listVars, boundVars
  <2>3. CASE CancelExecution(e)
    BY <1>3, <2>3 DEF CancelExecution, histVars, listVars, boundVars
  <2>4. CASE DeleteWorkflow(e)
    BY <1>3, <2>4 DEF DeleteWorkflow, histVars, listVars, boundVars
  <2>5. CASE DueTime(e)
    BY <1>3, <2>5 DEF DueTime, histVars, listVars, boundVars
  <2>6. CASE GrowOld(e)
    BY <1>3, <2>6 DEF GrowOld, histVars, listVars, boundVars
  <2> QED BY <1>3, <2>1, <2>2, <2>3, <2>4, <2>5, <2>6 DEF RowStep
<1>4. ASSUME NEW c \in Cycle, PollStep(c) \/ ClaimFails(c)
      PROVE  (ListTypeOK /\ FlagTypeOK)'
  <2>1. CASE Poll(c) \/ ClaimFails(c)
    BY <1>4, <2>1 DEF Poll, ClaimFails, histVars, listVars, boundVars
  <2>2. ASSUME NEW e \in Execution, ClaimLost(c, e) PROVE (ListTypeOK /\ FlagTypeOK)'
    BY <1>4, <2>2 DEF ClaimLost, histVars, listVars, boundVars
  <2>3. ASSUME NEW e \in Execution, NEW r \in Runner, Claim(c, e, r)
        PROVE  (ListTypeOK /\ FlagTypeOK)'
    BY <1>4, <2>3 DEF Claim, histVars, listVars, boundVars
  <2> QED BY <1>4, <2>1, <2>2, <2>3 DEF PollStep
<1>5. CASE UNCHANGED vars
  BY <1>5 DEF vars, histVars, listVars, boundVars
<1>6. CASE Answer
  BY <1>6 DEF Answer, rowVars, runVars, histVars, listVars, boundVars
<1> QED BY <1>1, <1>2, <1>3, <1>4, <1>5, <1>6 DEF Next

LEMMA TypeInit == Init => TypeOK /\ RunnersPlaced
<1> SUFFICES ASSUME Init PROVE TypeOK /\ RunnersPlaced OBVIOUS
<1> USE ConstantsAssumption DEF Init, ConstantsAssumption
<1>1. RowTypeOK BY DEF RowTypeOK, Status
<1>2. RunTypeOK BY DEF RunTypeOK, PC, Outcome
<1>3. LogTypeOK BY DEF LogTypeOK
<1>4. ListTypeOK BY DEF ListTypeOK
<1>5. FlagTypeOK BY DEF FlagTypeOK
<1>6. RunnersPlaced BY DEF RunnersPlaced
<1> QED BY <1>1, <1>2, <1>3, <1>4, <1>5, <1>6 DEF TypeOK

LEMMA TypeStep ==
  TypeOK /\ RunnersPlaced /\ [Next]_vars => TypeOK' /\ RunnersPlaced'
BY RunTypeStep, RowTypeStep, ListTypeStep DEF TypeOK

(* Every reachable state is well typed. *)
THEOREM TypeCorrect == Spec => []TypeOK
<1>1. Init => TypeOK /\ RunnersPlaced BY TypeInit
<1>2. TypeOK /\ RunnersPlaced /\ [Next]_vars => (TypeOK /\ RunnersPlaced)' BY TypeStep
<1> QED BY <1>1, <1>2, PTL DEF Spec

-----------------------------------------------------------------------------
(* A claim finds no other call on the row, and only a call that ends leaves  *)
(* a suspended row behind.                                                   *)
LEMMA VacateSingle ==
  ASSUME SingleRunner, ParkedIsFree, NEW R, Vacate(R), UNCHANGED status
  PROVE  SingleRunner' /\ ParkedIsFree'
BY DEF SingleRunner, ParkedIsFree, Live, Vacate

LEMMA MoveSingle ==
  ASSUME RunTypeOK, SingleRunner, ParkedIsFree, NEW r \in Runner, NEW l, pc[r] # "idle",
         pc' = [pc EXCEPT ![r] = l], UNCHANGED <<exec, status>>
  PROVE  SingleRunner' /\ ParkedIsFree'
BY DEF RunTypeOK, SingleRunner, ParkedIsFree, Live

LEMMA SingleRunnerStep ==
  ASSUME TypeOK, RunnersPlaced, SingleRunner, ParkedIsFree, [Next]_vars
  PROVE  SingleRunner' /\ ParkedIsFree'
<1> USE DEF TypeOK, RowTypeOK, RunTypeOK, RunnersPlaced, SingleRunner, ParkedIsFree, Live, At
<1>1. ASSUME NEW r \in Runner, RunStep(r) \/ RunError(r)
      PROVE  SingleRunner' /\ ParkedIsFree'
  <2>1. CASE Load(r)
    BY <1>1, <2>1, VacateSingle, MoveSingle DEF Load, End, Bail, Conclude, Walk, rowVars
  <2>2. CASE Start(r)
    BY <1>1, <2>2 DEF Start, Goto, SetStatus
  <2>3. CASE BailOut(r)
    BY <1>1, <2>3 DEF BailOut, End, Vacate, SetStatus
  <2>4. CASE Resume(r)
    BY <1>1, <2>4, VacateSingle, MoveSingle DEF Resume, End, Walk, rowVars
  <2>5. CASE Reload(r)
    BY <1>1, <2>5 DEF Reload, Bail, Conclude, Walk, rowVars
  <2>6. CASE Gate(r)
    BY <1>1, <2>6 DEF Gate, Bail, Conclude, Goto, rowVars
  <2>7. CASE Restart(r)
    BY <1>1, <2>7 DEF Restart, Goto, SetStatus
  <2>8. CASE Check(r)
    BY <1>1, <2>8, VacateSingle, MoveSingle DEF Check, Settle, Conclude, End, Walk, rowVars
  <2>9. CASE Mark(r)
    BY <1>1, <2>9 DEF Mark, Goto, rowVars
  <2>10. CASE Act(r)
    BY <1>1, <2>10 DEF Act, Goto, Settle, Conclude, rowVars
  <2>11. CASE Park(r)
    BY <1>1, <2>11 DEF Park, End, Vacate, SetStatus
  <2>12. CASE SettleRead(r)
    BY <1>1, <2>12, VacateSingle, MoveSingle DEF SettleRead, End, Goto, rowVars
  <2>13. CASE SettleWrite(r)
    BY <1>1, <2>13 DEF SettleWrite, End, Vacate, SetStatus
  <2>14. CASE GateError(r)
    BY <1>1, <2>14 DEF GateError, Goto, rowVars
  <2>15. CASE StorageError(r)
    BY <1>1, <2>15, VacateSingle, MoveSingle DEF StorageError, End, rowVars
  <2> QED BY <1>1, <2>1, <2>2, <2>3, <2>4, <2>5, <2>6, <2>7, <2>8, <2>9, <2>10, <2>11, <2>12, <2>13, <2>14, <2>15 DEF RunStep, RunError
<1>2. ASSUME NEW p \in Process, ProcessStep(p)
      PROVE  SingleRunner' /\ ParkedIsFree'
  <2>1. CASE Crash(p)
    BY <1>2, <2>1 DEF Crash, Vacate, rowVars
  <2>2. CASE SweepRead(p)
    BY <1>2, <2>2 DEF SweepRead, rowVars, runVars
  <2>3. ASSUME NEW e \in Execution, SweepOne(p, e) PROVE SingleRunner' /\ ParkedIsFree'
    BY <1>2, <2>3 DEF SweepOne, SetStatus, runVars
  <2>4. ASSUME NEW e \in Execution, RecoverOne(p, e) PROVE SingleRunner' /\ ParkedIsFree'
    BY <1>2, <2>4 DEF RecoverOne, SetStatus, runVars
  <2>5. ASSUME NEW e \in Execution, NEW r \in Runner, Trigger(e, r, p)
        PROVE  SingleRunner' /\ ParkedIsFree'
    BY <1>2, <2>5 DEF Trigger, Call, SetStatus
  <2> QED BY <1>2, <2>1, <2>2, <2>3, <2>4, <2>5 DEF ProcessStep
<1>3. ASSUME NEW e \in Execution, RowStep(e)
      PROVE  SingleRunner' /\ ParkedIsFree'
  <2>1. CASE TriggerFails(e)
    BY <1>3, <2>1 DEF TriggerFails, SetStatus, runVars
  <2>2. CASE ScheduleStale(e)
    BY <1>3, <2>2 DEF ScheduleStale, SetStatus, runVars
  <2>3. CASE CancelExecution(e)
    BY <1>3, <2>3 DEF CancelExecution, SetStatus, runVars
  <2>4. CASE DeleteWorkflow(e)
    BY <1>3, <2>4 DEF DeleteWorkflow, SetStatus, runVars
  <2>5. CASE DueTime(e)
    BY <1>3, <2>5 DEF DueTime, rowVars, runVars
  <2>6. CASE GrowOld(e)
    BY <1>3, <2>6 DEF GrowOld, rowVars, runVars
  <2> QED BY <1>3, <2>1, <2>2, <2>3, <2>4, <2>5, <2>6 DEF RowStep
<1>4. ASSUME NEW c \in Cycle, PollStep(c) \/ ClaimFails(c)
      PROVE  SingleRunner' /\ ParkedIsFree'
  <2>1. CASE Poll(c) \/ ClaimFails(c)
    BY <1>4, <2>1 DEF Poll, ClaimFails, rowVars, runVars
  <2>2. ASSUME NEW e \in Execution, ClaimLost(c, e) PROVE SingleRunner' /\ ParkedIsFree'
    BY <1>4, <2>2 DEF ClaimLost, rowVars, runVars
  <2>3. ASSUME NEW e \in Execution, NEW r \in Runner, Claim(c, e, r)
        PROVE  SingleRunner' /\ ParkedIsFree'
    <3>1. /\ ~Live(e)
          /\ status' = [status EXCEPT ![e] = "running"]
          /\ pc' = [pc EXCEPT ![r] = "resume"] /\ exec' = [exec EXCEPT ![r] = e]
      BY <1>4, <2>3 DEF Claim, Claimable, Call, SetStatus
    <3> QED BY <1>4, <2>3, <3>1
  <2> QED BY <1>4, <2>1, <2>2, <2>3 DEF PollStep
<1>5. CASE UNCHANGED vars
  BY <1>5 DEF vars, rowVars, runVars
<1>6. CASE Answer
  BY <1>6 DEF Answer, rowVars, runVars, histVars, listVars, boundVars
<1> QED BY <1>1, <1>2, <1>3, <1>4, <1>5, <1>6 DEF Next

-----------------------------------------------------------------------------
(* Handing over a group beyond everything handed over so far. *)
LEMMA HandOver ==
  ASSUME LogTypeOK, NEW e \in Execution, NEW o \in Order, UpTo(e, o - 1),
         log' = [log EXCEPT ![e] = Append(@, o)]
  PROVE  /\ \A i \in 1..Len(log'[e]) : log'[e][i] <= o
         /\ \A f \in Execution \ {e} : log'[f] = log[f]
         /\ GroupsRunOnceInOrder => GroupsRunOnceInOrder'
<1> USE DEF LogTypeOK, Order
<1>1. log[e] \in Seq(Order) /\ log'[e] = Append(log[e], o) OBVIOUS
<1>2. /\ Len(log'[e]) = Len(log[e]) + 1
      /\ Len(log[e]) \in Nat
      /\ \A i \in 1..Len(log[e]) : log'[e][i] = log[e][i] /\ log[e][i] \in Int
      /\ log'[e][Len(log[e]) + 1] = o
  <2>1. \A i \in 1..Len(log[e]) : log[e][i] \in Order
    BY <1>1, ElementOfSeq
  <2> QED BY <1>1, <2>1, AppendProperties, LenProperties
<1>3. \A i \in 1..Len(log'[e]) : i \in 1..Len(log[e]) \/ i = Len(log[e]) + 1
  BY <1>2
<1>4. \A i \in 1..Len(log'[e]) : log'[e][i] <= o
  BY <1>2, <1>3, ConstantsAssumption DEF UpTo, ConstantsAssumption
<1>5. \A f \in Execution \ {e} : log'[f] = log[f]
  OBVIOUS
<1>6. ASSUME GroupsRunOnceInOrder PROVE GroupsRunOnceInOrder'
  <2>1. ASSUME NEW i \in 1..Len(log'[e]), NEW j \in 1..Len(log'[e]), i < j
        PROVE  log'[e][i] < log'[e][j]
    <3>1. i \in 1..Len(log[e]) BY <1>2, <2>1
    <3>2. CASE j \in 1..Len(log[e])
      BY <1>2, <1>6, <2>1, <3>1, <3>2 DEF GroupsRunOnceInOrder
    <3>3. CASE j = Len(log[e]) + 1
      <4>1. log[e][i] <= o - 1 /\ log[e][i] \in Int BY <1>2, <3>1 DEF UpTo
      <4> QED BY <1>2, <3>1, <3>3, <4>1, ConstantsAssumption DEF ConstantsAssumption
    <3> QED BY <1>3, <2>1, <3>2, <3>3
  <2> QED BY <1>5, <1>6, <2>1 DEF GroupsRunOnceInOrder
<1> QED BY <1>4, <1>5, <1>6

LEMMA VacateCover ==
  ASSUME RunCoversLog, NEW R, Vacate(R), UNCHANGED <<log, currentStep>>
  PROVE  RunCoversLog' /\ (UNCHANGED status /\ RowCoversLog => RowCoversLog')
BY DEF RunCoversLog, RowCoversLog, Covered, UpTo, Walking, Vacate

LEMMA MoveCover ==
  ASSUME RunTypeOK, RunCoversLog, NEW r \in Runner, NEW l, NEW o, NEW t,
         pc' = [pc EXCEPT ![r] = l], at' = [at EXCEPT ![r] = o],
         todo' = [todo EXCEPT ![r] = t], UNCHANGED <<exec, log, currentStep>>,
         \A x \in t : x > o, l \notin {"idle", "load", "resume"},
         l = "start" => log[exec[r]] = <<>>,
         l \in Walking => UpTo(exec[r], o),
         l \in {"mark", "act"} => UpTo(exec[r], o - 1)
  PROVE  RunCoversLog' /\ (UNCHANGED status /\ RowCoversLog => RowCoversLog')
<1>1. Covered(r)' BY DEF RunTypeOK, Covered, UpTo, Walking
<1>2. ASSUME NEW q \in Runner \ {r} PROVE Covered(q)'
  BY <1>2 DEF RunTypeOK, RunCoversLog, Covered, UpTo, Walking
<1> QED BY <1>1, <1>2 DEF RunCoversLog, RowCoversLog, UpTo

LEMMA StayCover ==
  ASSUME RunTypeOK, RunCoversLog, NEW r \in Runner, NEW l,
         pc' = [pc EXCEPT ![r] = l], UNCHANGED <<exec, at, todo, log, currentStep>>,
         l \notin {"idle", "load", "resume", "start", "mark", "act"},
         l \in Walking => UpTo(exec[r], at[r])
  PROVE  RunCoversLog' /\ (UNCHANGED status /\ RowCoversLog => RowCoversLog')
<1>1. Covered(r)' BY DEF RunTypeOK, RunCoversLog, Covered, UpTo, Walking
<1>2. ASSUME NEW q \in Runner \ {r} PROVE Covered(q)'
  BY <1>2 DEF RunTypeOK, RunCoversLog, Covered, UpTo, Walking
<1> QED BY <1>1, <1>2 DEF RunCoversLog, RowCoversLog, UpTo

LEMMA WriteCover ==
  ASSUME RowTypeOK, RowCoversLog, RunCoversLog, NEW e \in Execution, NEW s,
         SetStatus(e, s), s \notin {"none", "suspended"},
         UNCHANGED <<currentStep, log, runVars>>
  PROVE  RowCoversLog' /\ RunCoversLog'
<1>1. RowCoversLog' BY DEF RowTypeOK, RowCoversLog, SetStatus, UpTo
<1>2. RunCoversLog' BY DEF RunCoversLog, Covered, UpTo, Walking, runVars
<1> QED BY <1>1, <1>2

(* Where a row and a run stand keeps covering what was handed over. *)
LEMMA CoverStep ==
  ASSUME RowTypeOK, RunTypeOK, LogTypeOK, RunnersPlaced, SingleRunner, ParkedIsFree,
         RowCoversLog, RunCoversLog, [Next]_vars
  PROVE  RowCoversLog' /\ RunCoversLog'
<1> USE DEF RowTypeOK, RunTypeOK, RunnersPlaced, SingleRunner, RowCoversLog,
            RunCoversLog, Covered, UpTo, Walking, At
<1>1. ASSUME NEW r \in Runner, RunStep(r) \/ RunError(r)
      PROVE  RowCoversLog' /\ RunCoversLog'
  <2>1. CASE Load(r)
    <3>1. UNCHANGED <<status, currentStep, log>> BY <2>1 DEF Load, rowVars, histVars
    <3>2. CASE End(r) BY <3>1, <3>2, VacateCover DEF End
    <3>3. CASE Bail(r, "failed") \/ Bail(r, "completed")
      <4>1. pc' = [pc EXCEPT ![r] = "bail"] /\ UNCHANGED <<exec, at, todo>>
        BY <3>3 DEF Bail, Conclude
      <4> QED BY <1>1, <3>1, <4>1, StayCover
    <3>4. ASSUME NEW steps \in (SUBSET Order) \ {{}}, Walk(r, "start", at[r], steps)
          PROVE  RowCoversLog' /\ RunCoversLog'
      <4>1. \A x \in steps : x > at[r] BY <1>1, <2>1 DEF Load, Order
      <4>2. log[exec[r]] = <<>> BY <1>1, <2>1 DEF Load
      <4> QED BY <1>1, <3>1, <3>4, <4>1, <4>2, MoveCover DEF Walk
    <3> QED BY <2>1, <3>2, <3>3, <3>4 DEF Load
  <2>2. CASE Start(r)
    <3>1. exec[r] \in Execution /\ log[exec[r]] = <<>> BY <1>1, <2>2 DEF Start
    <3>2. UpTo(exec[r], at[r]) BY <3>1
    <3>3. RunCoversLog' BY <1>1, <2>2, <3>2, StayCover DEF Start, Goto
    <3> QED BY <2>2, <3>3 DEF Start, SetStatus
  <2>3. CASE BailOut(r)
    <3>1. RunCoversLog' BY <2>3, VacateCover DEF BailOut, End
    <3>2. outcome[r] \in {"completed", "failed", "cancelled"}
      BY <1>1, <2>3 DEF BailOut, Outcome
    <3> QED BY <2>3, <3>1, <3>2 DEF BailOut, SetStatus
  <2>4. CASE Resume(r)
    <3>1. UNCHANGED <<status, currentStep, log>> BY <2>4 DEF Resume, rowVars, histVars
    <3>2. CASE End(r) BY <3>1, <3>2, VacateCover DEF End
    <3>3. CASE Walk(r, "reload", currentStep[exec[r]], todo[r])
      <4>1. todo[r] = {} /\ UpTo(exec[r], currentStep[exec[r]]) BY <1>1, <2>4 DEF Resume
      <4> QED BY <1>1, <3>1, <3>3, <4>1, MoveCover DEF Walk
    <3> QED BY <2>4, <3>2, <3>3 DEF Resume
  <2>5. CASE Reload(r)
    <3>1. UNCHANGED <<status, currentStep, log>> BY <2>5 DEF Reload, rowVars, histVars
    <3>2. CASE Bail(r, "failed") \/ Bail(r, "completed")
      <4>1. pc' = [pc EXCEPT ![r] = "bail"] /\ UNCHANGED <<exec, at, todo>>
        BY <3>2 DEF Bail, Conclude
      <4> QED BY <1>1, <3>1, <4>1, StayCover
    <3>3. ASSUME NEW steps \in SUBSET Order, NEW l \in {"gate", "restart"},
                 Walk(r, l, at[r], {o \in steps : o >= at[r] + 1})
          PROVE  RowCoversLog' /\ RunCoversLog'
      <4>0. at[r] \in Int /\ steps \subseteq Int
        BY <1>1, <3>3, ConstantsAssumption DEF Order, ConstantsAssumption
      <4>1. \A x \in {o \in steps : o >= at[r] + 1} : x > at[r] BY <4>0
      <4>2. UpTo(exec[r], at[r]) BY <1>1, <2>5 DEF Reload
      <4> QED BY <1>1, <3>1, <3>3, <4>1, <4>2, MoveCover DEF Walk
    <3> QED BY <2>5, <3>2, <3>3 DEF Reload
  <2>6. CASE Gate(r)
    BY <1>1, <2>6 DEF Gate, Bail, Conclude, Goto, rowVars, histVars
  <2>7. CASE Restart(r)
    BY <1>1, <2>7 DEF Restart, Goto, SetStatus
  <2>8. CASE Check(r)
    <3>1. UNCHANGED <<status, currentStep, log>> BY <2>8 DEF Check, rowVars, histVars
    <3>2. CASE End(r) BY <3>1, <3>2, VacateCover DEF End
    <3>3. CASE Settle(r, "completed")
      BY <1>1, <3>1, <3>3, StayCover DEF Settle, Conclude
    <3>4. ASSUME NEW o \in todo[r], \A q \in todo[r] : o <= q,
                 Walk(r, "mark", o, todo[r] \ {o})
          PROVE  RowCoversLog' /\ RunCoversLog'
      <4>1. /\ exec[r] \in Execution
            /\ UpTo(exec[r], at[r])
            /\ o > at[r]
            /\ o \in Int /\ at[r] \in Int
            /\ \A x \in todo[r] : x \in Int
        BY <1>1, <2>8, <3>4, ConstantsAssumption DEF Check, Order, ConstantsAssumption
      <4>2. \A i \in 1..Len(log[exec[r]]) : log[exec[r]][i] \in Int
        BY <4>1, ElementOfSeq, ConstantsAssumption DEF LogTypeOK, Order, ConstantsAssumption
      <4>3. UpTo(exec[r], o - 1) /\ UpTo(exec[r], o) BY <4>1, <4>2
      <4>4. \A x \in todo[r] \ {o} : x > o BY <3>4, <4>1
      <4> QED BY <1>1, <3>1, <3>4, <4>3, <4>4, MoveCover DEF Walk
    <3> QED BY <2>8, <3>2, <3>3, <3>4 DEF Check
  <2>9. CASE Mark(r)
    BY <1>1, <2>9 DEF Mark, Goto, rowVars, histVars
  <2>10. CASE Act(r)
    <3>1. exec[r] \in Execution /\ at[r] \in Order /\ UpTo(exec[r], at[r] - 1)
      BY <1>1, <2>10 DEF Act
    <3>2. log' = [log EXCEPT ![exec[r]] = Append(@, at[r])] /\ UNCHANGED <<status, currentStep>>
      BY <2>10 DEF Act, rowVars
    <3>3. /\ \A i \in 1..Len(log'[exec[r]]) : log'[exec[r]][i] <= at[r]
          /\ \A f \in Execution \ {exec[r]} : log'[f] = log[f]
      BY <3>1, <3>2, HandOver
    <3>4. \A q \in Runner \ {r} : pc[q] # "idle" => exec[q] # exec[r] /\ exec[q] \in Execution
      BY <1>1, <2>10 DEF Act
    <3>5. status[exec[r]] \notin {"none", "suspended"} BY <1>1, <2>10 DEF Act, ParkedIsFree, Live
    <3>6. RowCoversLog' BY <3>2, <3>3, <3>5
    <3>7. /\ pc'[r] \in {"check", "park", "settle"}
          /\ at' = at /\ exec' = exec /\ todo' = todo
          /\ \A q \in Runner \ {r} : pc'[q] = pc[q]
      BY <1>1, <2>10 DEF Act, Goto, Settle, Conclude
    <3>8. Covered(r)' BY <1>1, <3>3, <3>7
    <3>9. ASSUME NEW q \in Runner \ {r} PROVE Covered(q)'
      BY <3>2, <3>3, <3>4, <3>7, <3>9
    <3> QED BY <3>6, <3>8, <3>9
  <2>11. CASE Park(r)
    BY <1>1, <2>11 DEF Park, End, Vacate, SetStatus
  <2>12. CASE SettleRead(r)
    <3>1. UNCHANGED <<status, currentStep, log>> BY <2>12 DEF SettleRead, rowVars, histVars
    <3>2. CASE End(r) BY <3>1, <3>2, VacateCover DEF End
    <3>3. CASE Goto(r, "write") BY <1>1, <3>1, <3>3, StayCover DEF Goto
    <3> QED BY <2>12, <3>2, <3>3 DEF SettleRead
  <2>13. CASE SettleWrite(r)
    <3>1. RunCoversLog' BY <2>13, VacateCover DEF SettleWrite, End
    <3>2. outcome[r] \in {"completed", "failed", "cancelled"}
      BY <1>1, <2>13 DEF SettleWrite, Outcome
    <3> QED BY <2>13, <3>1, <3>2 DEF SettleWrite, SetStatus
  <2>14. CASE GateError(r)
    BY <1>1, <2>14 DEF GateError, Goto, rowVars, histVars
  <2>15. CASE StorageError(r)
    <3>1. UNCHANGED <<status, currentStep, log>> BY <2>15 DEF StorageError, rowVars, histVars
    <3>2. CASE End(r) BY <3>1, <3>2, VacateCover DEF End
    <3>3. CASE ~caught[r] BY <1>1, <2>15, <3>1, <3>3, StayCover DEF StorageError
    <3> QED BY <2>15, <3>2, <3>3 DEF StorageError
  <2> QED BY <1>1, <2>1, <2>2, <2>3, <2>4, <2>5, <2>6, <2>7, <2>8, <2>9, <2>10, <2>11, <2>12, <2>13, <2>14, <2>15 DEF RunStep, RunError
<1>2. ASSUME NEW p \in Process, ProcessStep(p)
      PROVE  RowCoversLog' /\ RunCoversLog'
  <2>1. CASE Crash(p)
    BY <1>2, <2>1 DEF Crash, Vacate, rowVars, histVars
  <2>2. CASE SweepRead(p)
    BY <1>2, <2>2 DEF SweepRead, rowVars, histVars, runVars
  <2>3. ASSUME NEW e \in Execution, SweepOne(p, e) PROVE RowCoversLog' /\ RunCoversLog'
    BY <1>2, <2>3, WriteCover DEF SweepOne
  <2>4. ASSUME NEW e \in Execution, RecoverOne(p, e) PROVE RowCoversLog' /\ RunCoversLog'
    BY <1>2, <2>4, WriteCover DEF RecoverOne
  <2>5. ASSUME NEW e \in Execution, NEW r \in Runner, Trigger(e, r, p)
        PROVE  RowCoversLog' /\ RunCoversLog'
    BY <1>2, <2>5 DEF Trigger, Call, SetStatus
  <2> QED BY <1>2, <2>1, <2>2, <2>3, <2>4, <2>5 DEF ProcessStep
<1>3. ASSUME NEW e \in Execution, RowStep(e)
      PROVE  RowCoversLog' /\ RunCoversLog'
  <2>1. CASE TriggerFails(e)
    BY <1>3, <2>1, WriteCover DEF TriggerFails
  <2>2. CASE ScheduleStale(e)
    <3>1. /\ status[e] = "none"
          /\ status' = [status EXCEPT ![e] = "suspended"]
          /\ UNCHANGED <<currentStep, log, pc, exec, at, todo>>
      BY <2>2 DEF ScheduleStale, SetStatus, runVars
    <3>2. log[e] = <<>> BY <1>3, <3>1
    <3>3. RowCoversLog' BY <1>3, <3>1, <3>2
    <3>4. RunCoversLog' BY <3>1
    <3> QED BY <3>3, <3>4
  <2>3. CASE CancelExecution(e)
    BY <1>3, <2>3, WriteCover DEF CancelExecution
  <2>4. CASE DeleteWorkflow(e)
    BY <1>3, <2>4, WriteCover DEF DeleteWorkflow
  <2>5. CASE DueTime(e)
    BY <1>3, <2>5 DEF DueTime, rowVars, histVars, runVars
  <2>6. CASE GrowOld(e)
    BY <1>3, <2>6 DEF GrowOld, rowVars, histVars, runVars
  <2> QED BY <1>3, <2>1, <2>2, <2>3, <2>4, <2>5, <2>6 DEF RowStep
<1>4. ASSUME NEW c \in Cycle, PollStep(c) \/ ClaimFails(c)
      PROVE  RowCoversLog' /\ RunCoversLog'
  <2>1. CASE Poll(c) \/ ClaimFails(c)
    BY <1>4, <2>1 DEF Poll, ClaimFails, rowVars, histVars, runVars
  <2>2. ASSUME NEW e \in Execution, ClaimLost(c, e) PROVE RowCoversLog' /\ RunCoversLog'
    BY <1>4, <2>2 DEF ClaimLost, rowVars, histVars, runVars
  <2>3. ASSUME NEW e \in Execution, NEW r \in Runner, Claim(c, e, r)
        PROVE  RowCoversLog' /\ RunCoversLog'
    <3>1. status[e] = "suspended" /\ UpTo(e, currentStep[e]) /\ pc[r] = "idle"
      BY <1>4, <2>3 DEF Claim, Claimable
    <3>2. Call(r, e, Host[c], "resume") /\ UNCHANGED <<currentStep, log>>
      BY <2>3 DEF Claim
    <3>3. status' = [status EXCEPT ![e] = "running"] BY <2>3, <3>1 DEF Claim, SetStatus
    <3>4. RowCoversLog' BY <3>2, <3>3
    <3>5. Covered(r)' BY <1>4, <2>3, <3>1, <3>2 DEF Call
    <3>6. ASSUME NEW q \in Runner \ {r} PROVE Covered(q)'
      BY <3>2, <3>6 DEF Call
    <3> QED BY <3>4, <3>5, <3>6
  <2> QED BY <1>4, <2>1, <2>2, <2>3 DEF PollStep
<1>5. CASE UNCHANGED vars
  BY <1>5 DEF vars, rowVars, runVars, histVars
<1>6. CASE Answer
  BY <1>6 DEF Answer, rowVars, runVars, histVars, listVars, boundVars
<1> QED BY <1>1, <1>2, <1>3, <1>4, <1>5, <1>6 DEF Next

-----------------------------------------------------------------------------
(* Handing over a group is the only step that changes what was handed over.  *)
LEMMA OnlyActHandsOver ==
  ASSUME [Next]_vars
  PROVE  log' = log \/ \E r \in Runner : Act(r)
<1>1. ASSUME NEW r \in Runner, RunStep(r) \/ RunError(r)
      PROVE  log' = log \/ Act(r)
  BY <1>1 DEF RunStep, RunError, Load, Start, BailOut, Resume, Reload, Gate, Restart, Check,
              Mark, Park, SettleRead, SettleWrite, GateError, StorageError, histVars
<1>2. ASSUME NEW p \in Process, ProcessStep(p) PROVE log' = log
  BY <1>2 DEF ProcessStep, Crash, SweepRead, SweepOne, RecoverOne, Trigger, histVars
<1>3. ASSUME NEW e \in Execution, RowStep(e) PROVE log' = log
  BY <1>3 DEF RowStep, TriggerFails, ScheduleStale, CancelExecution, DeleteWorkflow,
              DueTime, GrowOld, histVars
<1>4. ASSUME NEW c \in Cycle, PollStep(c) \/ ClaimFails(c) PROVE log' = log
  BY <1>4 DEF PollStep, Poll, ClaimFails, ClaimLost, Claim, histVars
<1>5. CASE UNCHANGED vars
  BY <1>5 DEF vars, histVars
<1>6. CASE Answer
  BY <1>6 DEF Answer, rowVars, runVars, histVars, listVars, boundVars
<1> QED BY <1>1, <1>2, <1>3, <1>4, <1>5, <1>6 DEF Next

LEMMA GroupsStep ==
  ASSUME TypeOK, RunnersPlaced, RunCoversLog, GroupsRunOnceInOrder, [Next]_vars
  PROVE  GroupsRunOnceInOrder'
<1>1. CASE log' = log
  BY <1>1 DEF GroupsRunOnceInOrder
<1>2. ASSUME NEW r \in Runner, Act(r) PROVE GroupsRunOnceInOrder'
  <2>1. exec[r] \in Execution /\ at[r] \in Order /\ UpTo(exec[r], at[r] - 1)
    BY <1>2 DEF Act, At, RunnersPlaced, RunCoversLog, Covered
  <2>2. log' = [log EXCEPT ![exec[r]] = Append(@, at[r])]
    BY <1>2 DEF Act
  <2> QED BY <2>1, <2>2, HandOver DEF TypeOK
<1> QED BY <1>1, <1>2, OnlyActHandsOver

LEMMA InvInit == Init => IInv
<1> SUFFICES ASSUME Init PROVE IInv OBVIOUS
<1>1. TypeOK /\ RunnersPlaced BY TypeInit
<1>2. SingleRunner /\ ParkedIsFree
  BY DEF Init, SingleRunner, ParkedIsFree, Live
<1>3. \A e \in Execution : log[e] = <<>> BY DEF Init
<1>4. RowCoversLog BY <1>3 DEF Init, RowCoversLog, UpTo
<1>5. RunCoversLog BY DEF Init, RunCoversLog, Covered, UpTo, Walking
<1>6. GroupsRunOnceInOrder BY <1>3 DEF GroupsRunOnceInOrder
<1> QED BY <1>1, <1>2, <1>4, <1>5, <1>6 DEF IInv

LEMMA InvStep == IInv /\ [Next]_vars => IInv'
BY TypeStep, SingleRunnerStep, CoverStep, GroupsStep DEF IInv, TypeOK

LEMMA Invariance == Spec => []IInv
BY InvInit, InvStep, PTL DEF Spec

(* No two calls ever work on one execution, however many poll cycles claim,  *)
(* whatever the processes, and however often they crash.                     *)
THEOREM SingleRunnerCorrect == Spec => []SingleRunner
<1>1. IInv => SingleRunner BY DEF IInv
<1> QED BY <1>1, Invariance, PTL

(* The groups of an execution are handed over in increasing order and each   *)
(* at most once, across suspensions, crashes and early resumes.              *)
THEOREM GroupsCorrect == Spec => []GroupsRunOnceInOrder
<1>1. IInv => GroupsRunOnceInOrder BY DEF IInv
<1> QED BY <1>1, Invariance, PTL

-----------------------------------------------------------------------------
(* How an execution ends: an execution that is over never moves again, and *)
(* a cancelled one hands over at most the group it had checked for.  Both  *)
(* rest on IInv: a row that no call works on can only be taken up while it *)
(* is suspended.                                                           *)

(* Whatever a call writes, it writes to its own row.                         *)
LEMMA WritesOwnRow ==
  ASSUME TypeOK, NEW f \in Execution, NEW s, SetStatus(f, s)
  PROVE  \A e \in Execution : e # f => status'[e] = status[e] /\ cancelledAt'[e] = cancelledAt[e]
BY DEF TypeOK, RowTypeOK, LogTypeOK, SetStatus

(* The steps of a call neither write another row nor make it live.           *)
LEMMA RunLeavesOthers ==
  ASSUME TypeOK, RunnersPlaced, NEW r \in Runner, RunStep(r) \/ RunError(r),
         NEW e \in Execution, exec[r] # e
  PROVE  status'[e] = status[e] /\ log'[e] = log[e] /\ cancelledAt'[e] = cancelledAt[e]
<1> USE DEF TypeOK, RowTypeOK, LogTypeOK, rowVars, histVars
<1>1. CASE Load(r) \/ Resume(r) \/ Reload(r) \/ Gate(r) \/ GateError(r) \/ Check(r)
           \/ Mark(r) \/ SettleRead(r) \/ StorageError(r)
  BY <1>1 DEF Load, Resume, Reload, Gate, GateError, Check, Mark, SettleRead, StorageError
<1>2. pc[r] # "idle" => exec[r] \in Execution
  BY DEF RunnersPlaced
<1>3. CASE Start(r)
  BY <1>2, <1>3, WritesOwnRow DEF Start, At
<1>4. CASE BailOut(r)
  BY <1>2, <1>4, WritesOwnRow DEF BailOut, At
<1>5. CASE Restart(r)
  BY <1>2, <1>5, WritesOwnRow DEF Restart, At
<1>6. CASE Park(r)
  BY <1>2, <1>6, WritesOwnRow DEF Park, At
<1>7. CASE SettleWrite(r)
  BY <1>2, <1>7, WritesOwnRow DEF SettleWrite, At
<1>8. CASE Act(r)
  BY <1>2, <1>8 DEF Act, At
<1> QED BY <1>1, <1>3, <1>4, <1>5, <1>6, <1>7, <1>8 DEF RunStep, RunError

LEMMA RunStaysOut ==
  ASSUME TypeOK, NEW r \in Runner, RunStep(r) \/ RunError(r)
  PROVE  pc[r] # "idle" /\ \A q \in Runner : pc'[q] # "idle" => pc[q] # "idle" /\ exec'[q] = exec[q]
<1> USE DEF TypeOK, RunTypeOK, At, Goto, Walk, Conclude, Settle, Bail, End, Vacate
<1>1. CASE Load(r) BY <1>1 DEF Load
<1>2. CASE Start(r) \/ Gate(r) \/ GateError(r) \/ Restart(r) \/ Mark(r) \/ Act(r)
  BY <1>2 DEF Start, Gate, GateError, Restart, Mark, Act
<1>3. CASE BailOut(r) \/ Park(r) \/ SettleWrite(r)
  BY <1>3 DEF BailOut, Park, SettleWrite
<1>4. CASE Resume(r) BY <1>4 DEF Resume
<1>5. CASE Reload(r) BY <1>5 DEF Reload
<1>6. CASE Check(r) BY <1>6 DEF Check
<1>7. CASE SettleRead(r) BY <1>7 DEF SettleRead
<1>8. CASE StorageError(r) BY <1>8 DEF StorageError
<1> QED BY <1>1, <1>2, <1>3, <1>4, <1>5, <1>6, <1>7, <1>8 DEF RunStep, RunError

(* A write by another party leaves the calls alone, and a terminal row       *)
(* terminal unless it is a claim or a new execution.                         *)
LEMMA OthersEnd ==
  ASSUME TypeOK, NEW e \in Execution, Over(e),
         NEW f \in Execution, NEW s \in Terminal, SetStatus(f, s), UNCHANGED <<runVars, log>>
  PROVE  Over(e)' /\ log'[e] = log[e]
BY DEF TypeOK, RowTypeOK, SetStatus, Over, Live, runVars, Terminal

LEMMA NewCall ==
  ASSUME TypeOK, NEW e \in Execution, Over(e), NEW f \in Execution, status[f] \notin Terminal,
         NEW s, SetStatus(f, s), NEW r \in Runner, NEW p, NEW l, Call(r, f, p, l), UNCHANGED log
  PROVE  Over(e)' /\ log'[e] = log[e]
BY WritesOwnRow DEF TypeOK, RowTypeOK, RunTypeOK, Over, Live, Call

LEMMA OverStep ==
  ASSUME TypeOK, RunnersPlaced, NEW e \in Execution, Over(e), [Next]_vars
  PROVE  Over(e)' /\ log'[e] = log[e]
<1>1. ASSUME NEW r \in Runner, RunStep(r) \/ RunError(r)
      PROVE  Over(e)' /\ log'[e] = log[e]
  <2>1. pc[r] # "idle" /\ \A q \in Runner : pc'[q] # "idle" => pc[q] # "idle" /\ exec'[q] = exec[q]
    BY <1>1, RunStaysOut
  <2>2. exec[r] # e
    BY <2>1 DEF Over, Live
  <2>3. status'[e] = status[e] /\ log'[e] = log[e]
    BY <1>1, <2>2, RunLeavesOthers
  <2> QED BY <2>1, <2>3 DEF Over, Live
<1>2. ASSUME NEW p \in Process, ProcessStep(p)
      PROVE  Over(e)' /\ log'[e] = log[e]
  <2>1. CASE Crash(p)
    BY <2>1 DEF Crash, Vacate, Over, Live, rowVars, histVars
  <2>2. CASE SweepRead(p)
    BY <2>2 DEF SweepRead, Over, Live, rowVars, runVars
  <2>3. ASSUME NEW f \in Execution, SweepOne(p, f) PROVE Over(e)' /\ log'[e] = log[e]
    BY <2>3, OthersEnd DEF SweepOne, Terminal
  <2>4. ASSUME NEW f \in Execution, RecoverOne(p, f) PROVE Over(e)' /\ log'[e] = log[e]
    BY <2>4, OthersEnd DEF RecoverOne, Terminal
  <2>5. ASSUME NEW f \in Execution, NEW r \in Runner, Trigger(f, r, p)
        PROVE  Over(e)' /\ log'[e] = log[e]
    BY <2>5, NewCall DEF Trigger, Terminal
  <2> QED BY <1>2, <2>1, <2>2, <2>3, <2>4, <2>5 DEF ProcessStep
<1>3. ASSUME NEW f \in Execution, RowStep(f)
      PROVE  Over(e)' /\ log'[e] = log[e]
  <2>1. CASE TriggerFails(f)
    BY <2>1, OthersEnd DEF TriggerFails, Terminal
  <2>2. CASE ScheduleStale(f)
    BY <1>3, <2>2, WritesOwnRow DEF ScheduleStale, Over, Live, runVars, Terminal
  <2>3. CASE CancelExecution(f)
    BY <1>3, <2>3, OthersEnd DEF CancelExecution, Terminal
  <2>4. CASE DeleteWorkflow(f)
    BY <1>3, <2>4, OthersEnd DEF DeleteWorkflow, Terminal
  <2>5. CASE DueTime(f) \/ GrowOld(f)
    BY <2>5 DEF DueTime, GrowOld, Over, Live, rowVars, runVars, histVars
  <2> QED BY <1>3, <2>1, <2>2, <2>3, <2>4, <2>5 DEF RowStep
<1>4. ASSUME NEW c \in Cycle, PollStep(c) \/ ClaimFails(c)
      PROVE  Over(e)' /\ log'[e] = log[e]
  <2>1. CASE Poll(c) \/ ClaimFails(c)
    BY <2>1 DEF Poll, ClaimFails, Over, Live, rowVars, runVars, histVars
  <2>2. ASSUME NEW f \in Execution, ClaimLost(c, f) PROVE Over(e)' /\ log'[e] = log[e]
    BY <2>2 DEF ClaimLost, Over, Live, rowVars, runVars, histVars
  <2>3. ASSUME NEW f \in Execution, NEW r \in Runner, Claim(c, f, r)
        PROVE  Over(e)' /\ log'[e] = log[e]
    BY <2>3, NewCall DEF Claim, Claimable, Terminal
  <2> QED BY <1>4, <2>1, <2>2, <2>3 DEF PollStep
<1>5. CASE UNCHANGED vars \/ Answer
  BY <1>5 DEF vars, Answer, Over, Live, rowVars, runVars, histVars
<1> QED BY <1>1, <1>2, <1>3, <1>4, <1>5 DEF Next

(* An execution that is over stays over and runs no further step, whatever   *)
(* list it is still in.                                                      *)
THEOREM NoRevivalCorrect == Spec => NoRevival
<1>1. IInv /\ [Next]_vars => [\A e \in Execution : Over(e) => Over(e)' /\ log'[e] = log[e]]_vars
  BY OverStep DEF IInv
<1> QED BY <1>1, Invariance, PTL DEF Spec, NoRevival

-----------------------------------------------------------------------------
(* A group that was checked for is the only one a cancel comes too late for: *)
(* while it is not handed over, nothing has been since the cancel.           *)
CheckedFor(e) == \E r \in Runner : exec[r] = e /\ pc[r] \in {"mark", "act"}

CancelKept(e) ==
  status[e] = "cancelled" =>
    /\ Len(log[e]) <= cancelledAt[e] + 1
    /\ CheckedFor(e) => Len(log[e]) <= cancelledAt[e]

CancelInv == \A e \in Execution : CancelKept(e)

LEMMA QuietCancel ==
  ASSUME NEW e \in Execution, CancelKept(e), status'[e] = status[e], log'[e] = log[e],
         cancelledAt'[e] = cancelledAt[e], CheckedFor(e)' => CheckedFor(e)
  PROVE  CancelKept(e)'
BY DEF CancelKept

LEMMA WriteCancel ==
  ASSUME TypeOK, NEW e \in Execution, CancelKept(e), NEW f \in Execution, NEW s, SetStatus(f, s),
         log' = log, CheckedFor(e)' => CheckedFor(e)
  PROVE  CancelKept(e)'
<1>1. CASE status[f] = "deleted" \/ e # f
  BY <1>1, WritesOwnRow, QuietCancel DEF SetStatus
<1>2. CASE e = f /\ status[f] # "deleted" /\ s = "cancelled"
  <2>1. cancelledAt'[e] = Len(log[e]) /\ Len(log[e]) \in Nat
    BY <1>2, LogLength DEF SetStatus, TypeOK, LogTypeOK
  <2> QED BY <2>1 DEF CancelKept
<1>3. CASE e = f /\ status[f] # "deleted" /\ s # "cancelled"
  BY <1>3 DEF SetStatus, TypeOK, RowTypeOK, CancelKept
<1> QED BY <1>1, <1>2, <1>3

(* A step of one call leaves every other call where it is.                   *)
LEMMA RunKeepsOthers ==
  ASSUME TypeOK, NEW r \in Runner, RunStep(r) \/ RunError(r)
  PROVE  \A q \in Runner \ {r} : pc'[q] = pc[q] /\ exec'[q] = exec[q]
<1> USE DEF TypeOK, RunTypeOK, Goto, Walk, Conclude, Settle, Bail, End, Vacate
<1>1. CASE Load(r) BY <1>1 DEF Load
<1>2. CASE Start(r) \/ Gate(r) \/ GateError(r) \/ Restart(r) \/ Mark(r) \/ Act(r)
  BY <1>2 DEF Start, Gate, GateError, Restart, Mark, Act
<1>3. CASE BailOut(r) \/ Park(r) \/ SettleWrite(r)
  BY <1>3 DEF BailOut, Park, SettleWrite
<1>4. CASE Resume(r) BY <1>4 DEF Resume
<1>5. CASE Reload(r) BY <1>5 DEF Reload
<1>6. CASE SettleRead(r) BY <1>6 DEF SettleRead
<1>7. CASE StorageError(r)
  <2>1. CASE caught[r] = TRUE BY <1>7, <2>1 DEF StorageError
  <2>2. CASE caught[r] = FALSE BY <1>7, <2>2 DEF StorageError
  <2> QED BY <2>1, <2>2
<1>8. CASE Check(r) BY <1>8 DEF Check
<1> QED BY <1>1, <1>2, <1>3, <1>4, <1>5, <1>6, <1>7, <1>8 DEF RunStep, RunError

(* Only Check takes a call to a group, and Vacate to none.                   *)
LEMMA RunChecks ==
  ASSUME TypeOK, NEW r \in Runner, RunStep(r) \/ RunError(r), ~Check(r), NEW e \in Execution
  PROVE  CheckedFor(e)' => CheckedFor(e)
<1>1. \A q \in Runner \ {r} : pc'[q] = pc[q] /\ exec'[q] = exec[q]
  BY RunKeepsOthers
<1>2. exec'[r] = e /\ pc'[r] \in {"mark", "act"} => exec[r] = e /\ pc[r] \in {"mark", "act"}
  <2> USE DEF TypeOK, RunTypeOK, At, Goto, Walk, Conclude, Settle, Bail, End, Vacate
  <2>1. CASE Load(r) BY <2>1 DEF Load
  <2>2. CASE Start(r) \/ Gate(r) \/ GateError(r) \/ Restart(r) \/ Mark(r) \/ Act(r)
    BY <2>2 DEF Start, Gate, GateError, Restart, Mark, Act
  <2>3. CASE BailOut(r) \/ Park(r) \/ SettleWrite(r)
    BY <2>3 DEF BailOut, Park, SettleWrite
  <2>4. CASE Resume(r) BY <2>4 DEF Resume
  <2>5. CASE Reload(r) BY <2>5 DEF Reload
  <2>6. CASE SettleRead(r) BY <2>6 DEF SettleRead
  <2>7. CASE StorageError(r) BY <2>7 DEF StorageError
  <2> QED BY <2>1, <2>2, <2>3, <2>4, <2>5, <2>6, <2>7 DEF RunStep, RunError
<1> QED BY <1>1, <1>2 DEF CheckedFor

LEMMA RunCancel ==
  ASSUME TypeOK, RunnersPlaced, SingleRunner, NEW e \in Execution, CancelKept(e),
         NEW r \in Runner, RunStep(r) \/ RunError(r)
  PROVE  CancelKept(e)'
<1>1. CASE Check(r)
  <2>1. status' = status /\ log' = log /\ cancelledAt' = cancelledAt
    BY <1>1 DEF Check, rowVars, histVars
  <2>2. CASE exec[r] = e /\ status[e] # "cancelled"
    BY <2>1, <2>2 DEF CancelKept
  <2>3. CASE exec[r] # e \/ status[e] = "cancelled"
    <3>1. CheckedFor(e)' => CheckedFor(e)
      BY <1>1, <2>3 DEF Check, At, CheckedFor, TypeOK, RunTypeOK, Walk, Conclude, Settle, End, Vacate
    <3> QED BY <2>1, <3>1, QuietCancel
  <2> QED BY <2>2, <2>3
<1>2. CASE Act(r)
  <2>1. exec[r] \in Execution /\ pc[r] = "act"
    BY <1>2 DEF Act, At, RunnersPlaced
  <2>2. status' = status /\ cancelledAt' = cancelledAt
    BY <1>2 DEF Act, rowVars
  <2>3. CASE exec[r] # e
    <3>1. log'[e] = log[e]
      BY <1>2, <2>1, <2>3 DEF Act, TypeOK, LogTypeOK
    <3>2. ~Check(r)
      BY <2>1 DEF Check, At
    <3> QED BY <1>2, <2>2, <3>1, <3>2, RunChecks, QuietCancel DEF RunStep
  <2>4. CASE exec[r] = e
    <3>1. CheckedFor(e)
      BY <2>1, <2>4 DEF CheckedFor
    <3>2. ~CheckedFor(e)'
      BY <1>2, <2>1, <2>4 DEF Act, CheckedFor, SingleRunner, TypeOK, RunTypeOK, Goto, Settle, Conclude
    <3>3. log[e] \in Seq(Order) /\ at[r] \in Order
      BY <1>2, <2>1 DEF TypeOK, LogTypeOK, RunnersPlaced
    <3>4. Len(log'[e]) = Len(log[e]) + 1
      BY <1>2, <2>4, <3>3, AppendProperties DEF Act, TypeOK, LogTypeOK
    <3>5. Len(log[e]) \in Nat /\ cancelledAt[e] \in Nat
      BY LogLength DEF TypeOK, LogTypeOK
    <3> QED BY <2>2, <3>1, <3>2, <3>4, <3>5 DEF CancelKept
  <2> QED BY <2>3, <2>4
<1>3. CASE ~Check(r) /\ ~Act(r)
  <2>1. CheckedFor(e)' => CheckedFor(e)
    BY <1>3, RunChecks
  <2>2. log' = log
    BY <1>3 DEF RunStep, RunError, Load, Start, BailOut, Resume, Reload, Gate, Restart,
                Mark, Park, SettleRead, SettleWrite, GateError, StorageError, histVars
  <2>3. pc[r] # "idle" /\ exec[r] \in Execution
    BY RunStaysOut DEF RunnersPlaced
  <2>4. CASE UNCHANGED <<status, cancelledAt>>
    BY <2>1, <2>2, <2>4, QuietCancel
  <2>5. CASE \E s : SetStatus(exec[r], s)
    BY <2>1, <2>2, <2>3, <2>5, WriteCancel
  <2> QED BY <1>3, <2>4, <2>5 DEF RunStep, RunError, Load, Start, BailOut, Resume, Reload, Gate,
             Restart, Mark, Park, SettleRead, SettleWrite, GateError, StorageError, histVars, rowVars
<1> QED BY <1>1, <1>2, <1>3

LEMMA CancelStep ==
  ASSUME IInv, CancelInv, [Next]_vars
  PROVE  CancelInv'
<1> SUFFICES ASSUME NEW e \in Execution PROVE CancelKept(e)'
  BY DEF CancelInv
<1>0. TypeOK /\ RunnersPlaced /\ SingleRunner /\ CancelKept(e)
  BY DEF IInv, CancelInv
<1>1. ASSUME NEW r \in Runner, RunStep(r) \/ RunError(r) PROVE CancelKept(e)'
  BY <1>0, <1>1, RunCancel
<1>2. ASSUME NEW p \in Process, ProcessStep(p) PROVE CancelKept(e)'
  <2>1. CASE Crash(p)
    <3>1. CheckedFor(e)' => CheckedFor(e)
      BY <2>1 DEF Crash, Vacate, CheckedFor
    <3> QED BY <1>0, <2>1, <3>1, QuietCancel DEF Crash, rowVars, histVars
  <2>2. CASE SweepRead(p)
    <3>1. CheckedFor(e)' => CheckedFor(e)
      BY <2>2 DEF SweepRead, CheckedFor, runVars
    <3> QED BY <1>0, <2>2, <3>1, QuietCancel DEF SweepRead, rowVars
  <2>3. ASSUME NEW f \in Execution, SweepOne(p, f) \/ RecoverOne(p, f) PROVE CancelKept(e)'
    <3>1. CheckedFor(e)' => CheckedFor(e)
      BY <2>3 DEF SweepOne, RecoverOne, CheckedFor, runVars
    <3> QED BY <1>0, <2>3, <3>1, WriteCancel DEF SweepOne, RecoverOne
  <2>4. ASSUME NEW f \in Execution, NEW r \in Runner, Trigger(f, r, p) PROVE CancelKept(e)'
    <3>1. CheckedFor(e)' => CheckedFor(e)
      BY <1>0, <2>4 DEF Trigger, Call, CheckedFor, TypeOK, RunTypeOK
    <3> QED BY <1>0, <2>4, <3>1, WriteCancel DEF Trigger
  <2> QED BY <1>2, <2>1, <2>2, <2>3, <2>4 DEF ProcessStep
<1>3. ASSUME NEW f \in Execution, RowStep(f) PROVE CancelKept(e)'
  <2>1. CheckedFor(e)' => CheckedFor(e)
    BY <1>3 DEF RowStep, TriggerFails, ScheduleStale, CancelExecution, DeleteWorkflow,
                DueTime, GrowOld, CheckedFor, runVars
  <2>2. CASE DueTime(f) \/ GrowOld(f)
    BY <1>0, <2>1, <2>2, QuietCancel DEF DueTime, GrowOld, histVars
  <2>3. CASE ~(DueTime(f) \/ GrowOld(f))
    BY <1>0, <1>3, <2>1, <2>3, WriteCancel DEF RowStep, TriggerFails, ScheduleStale,
       CancelExecution, DeleteWorkflow
  <2> QED BY <2>2, <2>3
<1>4. ASSUME NEW c \in Cycle, PollStep(c) \/ ClaimFails(c) PROVE CancelKept(e)'
  <2>1. ASSUME NEW f \in Execution, NEW r \in Runner, Claim(c, f, r) PROVE CancelKept(e)'
    <3>1. CheckedFor(e)' => CheckedFor(e)
      BY <1>0, <2>1 DEF Claim, Call, CheckedFor, TypeOK, RunTypeOK
    <3> QED BY <1>0, <2>1, <3>1, WriteCancel DEF Claim
  <2>2. ASSUME Poll(c) \/ ClaimFails(c) \/ \E f \in Execution : ClaimLost(c, f) PROVE CancelKept(e)'
    <3>1. UNCHANGED <<status, log, cancelledAt, pc, exec>>
      BY <2>2 DEF Poll, ClaimFails, ClaimLost, rowVars, histVars, runVars
    <3>2. CheckedFor(e)' => CheckedFor(e)
      BY <3>1 DEF CheckedFor
    <3> QED BY <1>0, <3>1, <3>2, QuietCancel
  <2> QED BY <1>4, <2>1, <2>2 DEF PollStep
<1>5. CASE UNCHANGED vars \/ Answer
  <2>1. UNCHANGED <<status, log, cancelledAt, pc, exec>>
    BY <1>5 DEF vars, Answer, rowVars, histVars, runVars
  <2>2. CheckedFor(e)' => CheckedFor(e)
    BY <2>1 DEF CheckedFor
  <2> QED BY <1>0, <2>1, <2>2, QuietCancel
<1> QED BY <1>1, <1>2, <1>3, <1>4, <1>5 DEF Next

(* However a cancel falls into a run, at most the one group that was already *)
(* checked for is handed over while the row stays cancelled.                 *)
THEOREM CancelCorrect == Spec => []CancelStopsWithinOneGroup
<1>1. Init => CancelInv
  BY DEF Init, CancelInv, CancelKept
<1>2. CancelInv => CancelStopsWithinOneGroup
  BY DEF CancelInv, CancelKept, CancelStopsWithinOneGroup
<1> QED BY <1>1, <1>2, CancelStep, Invariance, PTL DEF Spec

-----------------------------------------------------------------------------
(* Once created, a row never goes back to before its creation.               *)
Started(e) == status[e] # "none"

LEMMA WriteStarts ==
  ASSUME TypeOK, NEW f \in Execution, NEW s, s # "none", SetStatus(f, s)
  PROVE  /\ \A e \in Execution : Started(e) => Started(e)'
         /\ Started(f)'
BY DEF TypeOK, RowTypeOK, SetStatus, Started

LEMMA RunStarts ==
  ASSUME TypeOK, RunnersPlaced, NEW r \in Runner, RunStep(r) \/ RunError(r)
  PROVE  \A e \in Execution : Started(e) => Started(e)'
<1>1. pc[r] # "idle" /\ exec[r] \in Execution
  BY RunStaysOut DEF RunnersPlaced
<1>2. CASE status' = status
  BY <1>2 DEF Started
<1>3. ASSUME NEW s, s # "none", SetStatus(exec[r], s)
      PROVE  \A e \in Execution : Started(e) => Started(e)'
  BY <1>1, <1>3, WriteStarts
<1>4. CASE BailOut(r)
  <2>1. outcome[r] # "none" /\ SetStatus(exec[r], outcome[r])
    BY <1>4 DEF BailOut, At, RunnersPlaced
  <2> QED BY <1>3, <2>1
<1>5. CASE SettleWrite(r)
  <2>1. outcome[r] # "none" /\ SetStatus(exec[r], outcome[r])
    BY <1>5 DEF SettleWrite, At, RunnersPlaced
  <2> QED BY <1>3, <2>1
<1>6. CASE Start(r) \/ Restart(r) \/ Park(r)
  <2>1. SetStatus(exec[r], "running") \/ SetStatus(exec[r], "suspended")
    BY <1>6 DEF Start, Restart, Park
  <2> QED BY <1>3, <2>1
<1>7. CASE ~(BailOut(r) \/ SettleWrite(r) \/ Start(r) \/ Restart(r) \/ Park(r))
  BY <1>2, <1>7 DEF RunStep, RunError, Load, Resume, Reload, Gate, GateError, Check, Mark, Act,
                    SettleRead, StorageError, rowVars
<1> QED BY <1>4, <1>5, <1>6, <1>7

LEMMA StartedStep ==
  ASSUME TypeOK, RunnersPlaced, [Next]_vars
  PROVE  \A e \in Execution : Started(e) => Started(e)'
<1>1. ASSUME NEW r \in Runner, RunStep(r) \/ RunError(r)
      PROVE  \A e \in Execution : Started(e) => Started(e)'
  BY <1>1, RunStarts
<1>2. ASSUME NEW p \in Process, ProcessStep(p)
      PROVE  \A e \in Execution : Started(e) => Started(e)'
  <2>1. CASE Crash(p) \/ SweepRead(p)
    BY <2>1 DEF Crash, SweepRead, rowVars, Started
  <2>2. ASSUME NEW f \in Execution, SweepOne(p, f) \/ RecoverOne(p, f)
        PROVE  \A e \in Execution : Started(e) => Started(e)'
    BY <2>2, WriteStarts DEF SweepOne, RecoverOne
  <2>3. ASSUME NEW f \in Execution, NEW r \in Runner, Trigger(f, r, p)
        PROVE  \A e \in Execution : Started(e) => Started(e)'
    BY <2>3, WriteStarts DEF Trigger
  <2> QED BY <1>2, <2>1, <2>2, <2>3 DEF ProcessStep
<1>3. ASSUME NEW f \in Execution, RowStep(f)
      PROVE  \A e \in Execution : Started(e) => Started(e)'
  <2>1. CASE DueTime(f) \/ GrowOld(f)
    BY <2>1 DEF DueTime, GrowOld, Started
  <2>2. CASE TriggerFails(f) \/ ScheduleStale(f) \/ CancelExecution(f) \/ DeleteWorkflow(f)
    BY <2>2, WriteStarts DEF TriggerFails, ScheduleStale, CancelExecution, DeleteWorkflow
  <2> QED BY <1>3, <2>1, <2>2 DEF RowStep
<1>4. ASSUME NEW c \in Cycle, PollStep(c) \/ ClaimFails(c)
      PROVE  \A e \in Execution : Started(e) => Started(e)'
  <2>1. ASSUME NEW f \in Execution, NEW r \in Runner, Claim(c, f, r)
        PROVE  \A e \in Execution : Started(e) => Started(e)'
    BY <2>1, WriteStarts DEF Claim
  <2>2. ASSUME Poll(c) \/ ClaimFails(c) \/ \E f \in Execution : ClaimLost(c, f)
        PROVE  \A e \in Execution : Started(e) => Started(e)'
    BY <2>2 DEF Poll, ClaimFails, ClaimLost, rowVars, Started
  <2> QED BY <1>4, <2>1, <2>2 DEF PollStep
<1>5. CASE UNCHANGED vars \/ Answer
  BY <1>5 DEF vars, Answer, rowVars, Started
<1> QED BY <1>1, <1>2, <1>3, <1>4, <1>5 DEF Next

-----------------------------------------------------------------------------
(* A row that will be resumed past the stale gate was scheduled, so no call  *)
(* ever executes it from its beginning, where there is no gate.              *)
FreshInv ==
  /\ \A e \in Execution : stale[e] => Started(e)
  /\ \A r \in Runner : pc[r] \in {"load", "start"} => ~stale[exec[r]]

LEMMA FreshKept ==
  ASSUME TypeOK, RunnersPlaced, FreshInv, [Next]_vars, stale' = stale,
         \A r \in Runner : pc'[r] \in {"load", "start"} =>
           (pc[r] \in {"load", "start"} /\ exec'[r] = exec[r]) \/ ~stale[exec'[r]]
  PROVE  FreshInv'
BY StartedStep DEF FreshInv, Started

LEMMA RunFresh ==
  ASSUME TypeOK, NEW r \in Runner, RunStep(r) \/ RunError(r)
  PROVE  \A q \in Runner : pc'[q] \in {"load", "start"} =>
           pc[q] \in {"load", "start"} /\ exec'[q] = exec[q]
<1>1. \A q \in Runner \ {r} : pc'[q] = pc[q] /\ exec'[q] = exec[q]
  BY RunKeepsOthers
<1>2. pc'[r] \in {"load", "start"} => pc[r] \in {"load", "start"} /\ exec'[r] = exec[r]
  <2> USE DEF TypeOK, RunTypeOK, At, Goto, Walk, Conclude, Settle, Bail, End, Vacate
  <2>1. CASE Load(r) BY <2>1 DEF Load
  <2>2. CASE Start(r) \/ Gate(r) \/ GateError(r) \/ Restart(r) \/ Mark(r) \/ Act(r)
    BY <2>2 DEF Start, Gate, GateError, Restart, Mark, Act
  <2>3. CASE BailOut(r) \/ Park(r) \/ SettleWrite(r)
    BY <2>3 DEF BailOut, Park, SettleWrite
  <2>4. CASE Resume(r) BY <2>4 DEF Resume
  <2>5. CASE Reload(r) BY <2>5 DEF Reload
  <2>6. CASE SettleRead(r) BY <2>6 DEF SettleRead
  <2>7. CASE StorageError(r) BY <2>7 DEF StorageError
  <2>8. CASE Check(r) BY <2>8 DEF Check
  <2> QED BY <2>1, <2>2, <2>3, <2>4, <2>5, <2>6, <2>7, <2>8 DEF RunStep, RunError
<1> QED BY <1>1, <1>2

LEMMA FreshStep ==
  ASSUME TypeOK, RunnersPlaced, ParkedIsFree, FreshInv, [Next]_vars
  PROVE  FreshInv'
<1>1. ASSUME NEW r \in Runner, RunStep(r) \/ RunError(r) PROVE FreshInv'
  <2>1. stale' = stale
    BY <1>1 DEF RunStep, RunError, Load, Start, BailOut, Resume, Reload, Gate, GateError, Restart,
                Check, Mark, Act, Park, SettleRead, SettleWrite, StorageError, rowVars
  <2> QED BY <1>1, <2>1, RunFresh, FreshKept
<1>2. ASSUME NEW p \in Process, ProcessStep(p) PROVE FreshInv'
  <2>1. CASE Crash(p)
    BY <2>1, FreshKept DEF Crash, Vacate, rowVars
  <2>2. CASE SweepRead(p)
    BY <2>2, FreshKept DEF SweepRead, rowVars, runVars
  <2>3. ASSUME NEW f \in Execution, SweepOne(p, f) \/ RecoverOne(p, f) PROVE FreshInv'
    BY <2>3, FreshKept DEF SweepOne, RecoverOne, runVars
  <2>4. ASSUME NEW f \in Execution, NEW r \in Runner, Trigger(f, r, p) PROVE FreshInv'
    <3>1. ~stale[f]
      BY <2>4 DEF Trigger, FreshInv, Started
    <3>2. stale' = stale /\ \A q \in Runner : pc'[q] \in {"load", "start"} =>
            (pc[q] \in {"load", "start"} /\ exec'[q] = exec[q]) \/ ~stale[exec'[q]]
      BY <2>4, <3>1 DEF Trigger, Call, TypeOK, RunTypeOK
    <3> QED BY <3>2, FreshKept
  <2> QED BY <1>2, <2>1, <2>2, <2>3, <2>4 DEF ProcessStep
<1>3. ASSUME NEW f \in Execution, RowStep(f) PROVE FreshInv'
  <2>1. CASE ScheduleStale(f)
    <3>1. /\ stale' = [stale EXCEPT ![f] = TRUE]
          /\ UNCHANGED runVars
          /\ status[f] = "none" /\ SetStatus(f, "suspended")
      BY <2>1 DEF ScheduleStale
    <3>2. \A r \in Runner : pc[r] \in {"load", "start"} => exec[r] # f
      BY <3>1 DEF ParkedIsFree, Live
    <3>3. \A e \in Execution : stale'[e] => Started(e)'
      BY <3>1, WriteStarts DEF FreshInv, TypeOK, RowTypeOK
    <3>4. \A r \in Runner : pc'[r] \in {"load", "start"} => ~stale'[exec'[r]]
      BY <3>1, <3>2 DEF FreshInv, RunnersPlaced, runVars, TypeOK, RowTypeOK
    <3> QED BY <3>3, <3>4 DEF FreshInv
  <2>2. CASE ~ScheduleStale(f)
    BY <1>3, <2>2, FreshKept DEF RowStep, TriggerFails, CancelExecution, DeleteWorkflow, DueTime,
                                 GrowOld, runVars
  <2> QED BY <2>1, <2>2
<1>4. ASSUME NEW c \in Cycle, PollStep(c) \/ ClaimFails(c) PROVE FreshInv'
  <2>1. ASSUME NEW f \in Execution, NEW r \in Runner, Claim(c, f, r) PROVE FreshInv'
    <3>1. stale' = stale /\ \A q \in Runner : pc'[q] \in {"load", "start"} =>
            pc[q] \in {"load", "start"} /\ exec'[q] = exec[q]
      BY <2>1 DEF Claim, Call, TypeOK, RunTypeOK
    <3> QED BY <3>1, FreshKept
  <2>2. ASSUME Poll(c) \/ ClaimFails(c) \/ \E f \in Execution : ClaimLost(c, f) PROVE FreshInv'
    BY <2>2, FreshKept DEF Poll, ClaimFails, ClaimLost, rowVars, runVars
  <2> QED BY <1>4, <2>1, <2>2 DEF PollStep
<1>5. CASE UNCHANGED vars \/ Answer
  BY <1>5, FreshKept DEF vars, Answer, rowVars, runVars
<1> QED BY <1>1, <1>2, <1>3, <1>4, <1>5 DEF Next

(* Which calls a step takes past the stale gate.                             *)
Past(e) == \E r \in Runner : exec[r] = e /\ pc[r] \in PastGate

LEMMA RunGated ==
  ASSUME TypeOK, RunnersPlaced, FreshInv, NEW e \in Execution, Answered(e),
         NEW r \in Runner, RunStep(r) \/ RunError(r), ~(exec[r] = e /\ GateError(r))
  PROVE  ~Past(e)' /\ log'[e] = log[e]
<1>1. \A q \in Runner \ {r} : pc'[q] = pc[q] /\ exec'[q] = exec[q]
  BY RunKeepsOthers
<1>2. pc[r] # "idle" /\ exec[r] \in Execution /\ (pc'[r] # "idle" => exec'[r] = exec[r])
  BY RunStaysOut DEF RunnersPlaced
<1>3. CASE exec[r] # e
  <2>1. log'[e] = log[e]
    BY <1>3, RunLeavesOthers
  <2>2. ~Past(e)'
    BY <1>1, <1>2, <1>3 DEF Past, PastGate, Answered
  <2> QED BY <2>1, <2>2
<1>4. CASE exec[r] = e
  <2>1. acted /\ stale[exec[r]] /\ pc[r] \notin PastGate \cup {"load", "start"}
    BY <1>4 DEF Answered, FreshInv
  <2>2. ~Restart(r) /\ ~Check(r) /\ ~Mark(r) /\ ~Act(r) /\ ~Park(r) /\ ~Load(r) /\ ~Start(r)
    BY <2>1 DEF PastGate, Restart, Check, Mark, Act, Park, Load, Start, At
  <2>3. ~GateError(r)
    BY <1>4
  <2>4. log' = log
    BY <2>2, <2>3 DEF RunStep, RunError, BailOut, Resume, Reload, Gate, SettleRead, SettleWrite,
                      StorageError, histVars
  <2>5. pc'[r] \notin PastGate
    <3> USE DEF TypeOK, RunTypeOK, PastGate, Goto, Walk, Conclude, Bail, End, Vacate
    <3>1. CASE BailOut(r) \/ SettleWrite(r) \/ SettleRead(r)
      BY <3>1 DEF BailOut, SettleWrite, SettleRead
    <3>2. CASE Resume(r) BY <3>2 DEF Resume
    <3>3. CASE Reload(r) BY <2>1, <3>3 DEF Reload
    <3>4. CASE Gate(r) BY <2>1, <3>4 DEF Gate
    <3>5. CASE StorageError(r) BY <3>5 DEF StorageError
    <3> QED BY <2>2, <2>3, <3>1, <3>2, <3>3, <3>4, <3>5 DEF RunStep, RunError
  <2>6. ~Past(e)'
    BY <1>1, <2>5 DEF Past, Answered
  <2> QED BY <2>4, <2>6
<1> QED BY <1>3, <1>4

LEMMA OthersGated ==
  ASSUME TypeOK, NEW e \in Execution, ~Past(e), [Next]_vars,
         ~\E r \in Runner : RunStep(r) \/ RunError(r)
  PROVE  ~Past(e)' /\ log' = log
<1> USE DEF Past, PastGate
<1>1. ASSUME NEW p \in Process, ProcessStep(p) PROVE ~Past(e)' /\ log' = log
  <2>1. CASE Crash(p) BY <2>1 DEF Crash, Vacate, histVars
  <2>2. CASE SweepRead(p) BY <2>2 DEF SweepRead, runVars
  <2>3. ASSUME NEW f \in Execution, SweepOne(p, f) \/ RecoverOne(p, f) PROVE ~Past(e)' /\ log' = log
    BY <2>3 DEF SweepOne, RecoverOne, runVars
  <2>4. ASSUME NEW f \in Execution, NEW r \in Runner, Trigger(f, r, p) PROVE ~Past(e)' /\ log' = log
    BY <2>4 DEF Trigger, Call, TypeOK, RunTypeOK
  <2> QED BY <1>1, <2>1, <2>2, <2>3, <2>4 DEF ProcessStep
<1>2. ASSUME NEW f \in Execution, RowStep(f) PROVE ~Past(e)' /\ log' = log
  BY <1>2 DEF RowStep, TriggerFails, ScheduleStale, CancelExecution, DeleteWorkflow, DueTime,
              GrowOld, runVars, histVars
<1>3. ASSUME NEW c \in Cycle, PollStep(c) \/ ClaimFails(c) PROVE ~Past(e)' /\ log' = log
  <2>1. ASSUME NEW f \in Execution, NEW r \in Runner, Claim(c, f, r) PROVE ~Past(e)' /\ log' = log
    BY <2>1 DEF Claim, Call, TypeOK, RunTypeOK
  <2>2. ASSUME Poll(c) \/ ClaimFails(c) \/ \E f \in Execution : ClaimLost(c, f) PROVE ~Past(e)' /\ log' = log
    BY <2>2 DEF Poll, ClaimFails, ClaimLost, runVars, histVars
  <2> QED BY <1>3, <2>1, <2>2 DEF PollStep
<1>4. CASE UNCHANGED vars \/ Answer
  BY <1>4 DEF vars, Answer, runVars, histVars
<1> QED BY <1>1, <1>2, <1>3, <1>4 DEF Next

(* An answer and the mark of a scheduled row are never taken back.           *)
LEMMA AnswerKept ==
  ASSUME TypeOK, NEW e \in Execution, [Next]_vars, acted, stale[e]
  PROVE  acted' /\ stale'[e]
<1>1. ASSUME NEW r \in Runner, RunStep(r) \/ RunError(r) PROVE UNCHANGED <<acted, stale>>
  BY <1>1 DEF RunStep, RunError, Load, Start, BailOut, Resume, Reload, Gate, GateError, Restart,
              Check, Mark, Act, Park, SettleRead, SettleWrite, StorageError, rowVars
<1>2. ASSUME NEW p \in Process, ProcessStep(p) PROVE UNCHANGED <<acted, stale>>
  BY <1>2 DEF ProcessStep, Crash, SweepRead, SweepOne, RecoverOne, Trigger, rowVars
<1>3. ASSUME NEW f \in Execution, RowStep(f) PROVE acted' /\ stale'[e]
  BY <1>3 DEF RowStep, TriggerFails, ScheduleStale, CancelExecution, DeleteWorkflow, DueTime,
              GrowOld, TypeOK, RowTypeOK
<1>4. ASSUME NEW c \in Cycle, PollStep(c) \/ ClaimFails(c) PROVE UNCHANGED <<acted, stale>>
  BY <1>4 DEF PollStep, Poll, ClaimFails, ClaimLost, Claim, rowVars
<1>5. CASE UNCHANGED vars \/ Answer
  BY <1>5 DEF vars, Answer, rowVars
<1> QED BY <1>1, <1>2, <1>3, <1>4, <1>5 DEF Next

LEMMA AnswerStep ==
  ASSUME IInv, FreshInv, [Next]_vars, NEW e \in Execution, Answered(e)
  PROVE  /\ Answered(e)' \/ \E r \in Runner : exec[r] = e /\ GateError(r)
         /\ log'[e] = log[e]
<1>0. TypeOK /\ RunnersPlaced /\ acted /\ stale[e] /\ ~Past(e)
  BY DEF IInv, Answered, Past
<1>1. acted' /\ stale'[e]
  BY <1>0, AnswerKept
<1>2. ASSUME NEW r \in Runner, exec[r] = e, GateError(r)
      PROVE  log'[e] = log[e]
  BY <1>2 DEF GateError, histVars
<1>3. ASSUME NEW r \in Runner, RunStep(r) \/ RunError(r), ~(exec[r] = e /\ GateError(r))
      PROVE  Answered(e)' /\ log'[e] = log[e]
  BY <1>0, <1>1, <1>3, RunGated DEF Answered, Past
<1>4. CASE ~\E r \in Runner : RunStep(r) \/ RunError(r)
  BY <1>0, <1>1, <1>4, OthersGated DEF Answered, Past
<1> QED BY <1>2, <1>3, <1>4

(* Once the customer has answered, no scheduled execution that has not       *)
(* passed the gate ever runs a step, unless the gate's own read fails.       *)
THEOREM AnswerCorrect == Spec => NoStepAfterAnswer
<1>1. Init => FreshInv
  BY DEF Init, FreshInv
<1>2. IInv /\ FreshInv /\ [Next]_vars => FreshInv'
  BY FreshStep DEF IInv
<1>3. IInv /\ FreshInv /\ [Next]_vars =>
        [\A e \in Execution : Answered(e) =>
           /\ Answered(e)' \/ \E r \in Runner : exec[r] = e /\ GateError(r)
           /\ log'[e] = log[e]]_vars
  BY AnswerStep
<1> QED BY <1>1, <1>2, <1>3, Invariance, PTL DEF Spec, NoStepAfterAnswer

-----------------------------------------------------------------------------
(***************************************************************************)
(* The engine implements ExecutionLifecycle: every step of a call, a poll  *)
(* cycle, a sweep, an endpoint, a crash or a recovery is one step of the   *)
(* lifecycle or none.  Beside IInv this needs that a row some list names   *)
(* has been started, since a write from the list could otherwise give a    *)
(* row a status that no event created.                                     *)
(***************************************************************************)

(* The rows that a poll, a sweep or a recovery has read exist.               *)
ListsStarted ==
  /\ \A c \in Cycle : \A e \in due[c] : Started(e)
  /\ \A p \in Process : \A e \in sweep[p] \cup recover[p] : Started(e)

LEMMA ListsStep ==
  ASSUME TypeOK, RunnersPlaced, ListsStarted, [Next]_vars
  PROVE  ListsStarted'
<1>0. \A e \in Execution : Started(e) => Started(e)'
  BY StartedStep
<1>1. SUFFICES /\ \A c \in Cycle : \A e \in due'[c] : e \in due[c] \/ Started(e)
               /\ \A p \in Process : \A e \in sweep'[p] \cup recover'[p] :
                    e \in sweep[p] \cup recover[p] \/ Started(e)
  <2>1. /\ \A c \in Cycle : due'[c] \subseteq Execution
        /\ \A p \in Process : sweep'[p] \cup recover'[p] \subseteq Execution
    BY TypeStep DEF TypeOK, ListTypeOK
  <2> QED BY <1>0, <2>1 DEF ListsStarted
<1> USE DEF TypeOK, ListTypeOK, Started
<1>2. ASSUME NEW r \in Runner, RunStep(r) \/ RunError(r) PROVE UNCHANGED listVars
  BY <1>2 DEF RunStep, RunError, Load, Start, BailOut, Resume, Reload, Gate, GateError, Restart,
              Check, Mark, Act, Park, SettleRead, SettleWrite, StorageError
<1>3. ASSUME NEW p \in Process, ProcessStep(p)
      PROVE  /\ \A c \in Cycle : \A e \in due'[c] : e \in due[c] \/ Started(e)
             /\ \A q \in Process : \A e \in sweep'[q] \cup recover'[q] :
                  e \in sweep[q] \cup recover[q] \/ Started(e)
  <2>1. CASE Crash(p) BY <2>1 DEF Crash
  <2>2. CASE SweepRead(p) BY <2>2 DEF SweepRead
  <2>3. ASSUME NEW f \in Execution, SweepOne(p, f)
        PROVE  UNCHANGED <<due, recover>> /\ \A q \in Process : sweep'[q] \subseteq sweep[q]
    BY <2>3 DEF SweepOne
  <2>4. ASSUME NEW f \in Execution, RecoverOne(p, f)
        PROVE  UNCHANGED <<due, sweep>> /\ \A q \in Process : recover'[q] \subseteq recover[q]
    BY <2>4 DEF RecoverOne
  <2>5. ASSUME NEW f \in Execution, NEW r \in Runner, Trigger(f, r, p) PROVE UNCHANGED listVars
    BY <2>5 DEF Trigger
  <2> QED BY <1>3, <2>1, <2>2, <2>3, <2>4, <2>5 DEF ProcessStep, listVars
<1>4. ASSUME NEW f \in Execution, RowStep(f) PROVE UNCHANGED listVars
  BY <1>4 DEF RowStep, TriggerFails, ScheduleStale, CancelExecution, DeleteWorkflow, DueTime, GrowOld
<1>5. ASSUME NEW c \in Cycle, PollStep(c) \/ ClaimFails(c)
      PROVE  /\ UNCHANGED <<sweep, recover>>
             /\ \A d \in Cycle : \A e \in due'[d] : e \in due[d] \/ Started(e)
  <2>1. CASE Poll(c) \/ ClaimFails(c) BY <2>1 DEF Poll, ClaimFails
  <2>2. ASSUME NEW f \in Execution, ClaimLost(c, f) PROVE
           UNCHANGED <<sweep, recover>> /\ \A d \in Cycle : due'[d] \subseteq due[d]
    BY <2>2 DEF ClaimLost
  <2>3. ASSUME NEW f \in Execution, NEW r \in Runner, Claim(c, f, r) PROVE
           UNCHANGED <<sweep, recover>> /\ \A d \in Cycle : due'[d] \subseteq due[d]
    BY <2>3 DEF Claim
  <2> QED BY <1>5, <2>1, <2>2, <2>3 DEF PollStep
<1>6. CASE UNCHANGED vars \/ Answer
  BY <1>6 DEF vars, Answer, listVars
<1>7. CASE UNCHANGED listVars BY <1>7 DEF listVars
<1> QED BY <1>2, <1>3, <1>4, <1>5, <1>6, <1>7 DEF Next

-----------------------------------------------------------------------------
(* Where the lifecycle sees a row.                                           *)
LEMMA StageOf ==
  ASSUME NEW e \in Execution
  PROVE  /\ status[e] = "none" => stage[e] = "none"
         /\ Started(e) /\ Live(e) => stage[e] = "live"
         /\ status[e] = "suspended" /\ ~Live(e) => stage[e] = "parked"
         /\ status[e] \notin {"none", "suspended"} /\ ~Live(e) => stage[e] = "over"
BY DEF stage, Started

LEMMA StageOfNext ==
  ASSUME NEW e \in Execution
  PROVE  /\ status'[e] = "none" => stage'[e] = "none"
         /\ Started(e)' /\ Live(e)' => stage'[e] = "live"
         /\ status'[e] = "suspended" /\ ~Live(e)' => stage'[e] = "parked"
         /\ status'[e] \notin {"none", "suspended"} /\ ~Live(e)' => stage'[e] = "over"
BY DEF stage, Started

LEMMA SameStage ==
  ASSUME NEW e \in Execution, status'[e] = status[e], Live(e)' <=> Live(e)
  PROVE  stage'[e] = stage[e]
BY DEF stage

(* A row stays where it was, or its execution ends.                          *)
StaysOrEnds(e) ==
  \/ stage'[e] = stage[e]
  \/ stage[e] \in {"live", "parked"} /\ stage'[e] = "over"

LEMMA FinishStep ==
  ASSUME \A e \in Execution : StaysOrEnds(e), log' = log
  PROVE  Lifecycle!Finish
<1> DEFINE S == {e \in Execution : stage[e] \in {"live", "parked"} /\ stage'[e] = "over"}
<1>1. S \in SUBSET {e \in Execution : stage[e] \in {"live", "parked"}}
  OBVIOUS
<1>2. stage' = [e \in Execution |-> IF e \in S THEN "over" ELSE stage[e]]
  <2>1. stage' = [e \in Execution |-> stage'[e]]
    BY DEF stage
  <2>2. \A e \in Execution : stage'[e] = IF e \in S THEN "over" ELSE stage[e]
    BY DEF StaysOrEnds
  <2> HIDE DEF S
  <2> QED BY <2>1, <2>2
<1> HIDE DEF S
<1> QED BY <1>1, <1>2 DEF Lifecycle!Finish

LEMMA MoveStep ==
  ASSUME NEW e \in Execution, NEW from, NEW to, stage[e] = from, stage'[e] = to,
         \A f \in Execution \ {e} : stage'[f] = stage[f], log' = log
  PROVE  Lifecycle!Move(e, from, to)
<1>1. stage = [f \in Execution |-> stage[f]] /\ stage' = [f \in Execution |-> stage'[f]]
  BY DEF stage
<1>2. stage' = [stage EXCEPT ![e] = to]
  BY <1>1
<1> QED BY <1>2 DEF Lifecycle!Move

-----------------------------------------------------------------------------
(* A write of a terminal status by another party ends what is parked, and    *)
(* leaves to a call what a call works on.                                    *)
LEMMA OtherWrite ==
  ASSUME TypeOK, NEW f \in Execution, NEW s \in Terminal, Started(f), SetStatus(f, s),
         UNCHANGED runVars
  PROVE  \A e \in Execution : StaysOrEnds(e)
<1> SUFFICES ASSUME NEW e \in Execution PROVE StaysOrEnds(e)
  OBVIOUS
<1>1. Live(e)' <=> Live(e)
  BY DEF Live, runVars
<1>2. CASE status'[e] = status[e]
  BY <1>1, <1>2, SameStage DEF StaysOrEnds
<1>3. CASE status'[e] # status[e]
  <2>1. e = f
    BY <1>3, WritesOwnRow
  <2>2. status'[e] \in Terminal
    BY <1>3, <2>1 DEF SetStatus, TypeOK, RowTypeOK
  <2>3. status'[e] \notin {"none", "suspended"} /\ Started(e)'
    BY <2>2 DEF Terminal, Started
  <2>4. CASE Live(e)
    BY <1>1, <2>1, <2>3, <2>4, StageOf, StageOfNext DEF StaysOrEnds
  <2>5. CASE ~Live(e)
    <3>1. stage'[e] = "over"
      BY <1>1, <2>3, <2>5, StageOfNext
    <3>2. stage[e] \in {"parked", "over"}
      BY <2>1, <2>5, StageOf DEF Started
    <3> QED BY <3>1, <3>2 DEF StaysOrEnds
  <2> QED BY <2>4, <2>5
<1> QED BY <1>2, <1>3

(* A call that is gone leaves an execution that is over, unless it parks it. *)
LEMMA RunsEndRows ==
  ASSUME ParkedIsFree, NEW e \in Execution, status'[e] \notin {"none", "suspended"}, Live(e)
  PROVE  StaysOrEnds(e)
<1>1. Started(e) /\ Started(e)'
  BY DEF ParkedIsFree, Started
<1> QED BY <1>1, StageOf, StageOfNext DEF StaysOrEnds

LEMMA CrashEnds ==
  ASSUME ParkedIsFree, NEW p \in Process, Crash(p)
  PROVE  \A e \in Execution : StaysOrEnds(e)
<1> SUFFICES ASSUME NEW e \in Execution PROVE StaysOrEnds(e)
  OBVIOUS
<1>1. status' = status /\ (Live(e)' => Live(e))
  BY DEF Crash, Vacate, rowVars, Live
<1>2. CASE Live(e)
  BY <1>1, <1>2, RunsEndRows DEF ParkedIsFree
<1>3. CASE ~Live(e)
  BY <1>1, <1>3, SameStage DEF StaysOrEnds
<1> QED BY <1>2, <1>3

(* A call's own row, as one of its steps leaves it.                          *)
LEMMA RunWrites ==
  ASSUME TypeOK, RunnersPlaced, ParkedIsFree, NEW r \in Runner, RunStep(r) \/ RunError(r), ~Park(r)
  PROVE  status'[exec[r]] \notin {"none", "suspended"}
<1>1. pc[r] # "idle" /\ exec[r] \in Execution
  BY RunStaysOut DEF RunnersPlaced
<1>2. status[exec[r]] \notin {"none", "suspended"}
  BY <1>1 DEF ParkedIsFree, Live
<1>3. ASSUME NEW s, s \notin {"none", "suspended"}, SetStatus(exec[r], s)
      PROVE  status'[exec[r]] \notin {"none", "suspended"}
  BY <1>1, <1>2, <1>3 DEF SetStatus, TypeOK, RowTypeOK
<1>4. outcome[r] # "suspended"
  BY DEF TypeOK, RunTypeOK, Outcome
<1>5. CASE BailOut(r)
  <2>1. outcome[r] # "none" /\ SetStatus(exec[r], outcome[r])
    BY <1>5 DEF BailOut, At, RunnersPlaced
  <2> QED BY <1>3, <1>4, <2>1
<1>6. CASE SettleWrite(r)
  <2>1. outcome[r] # "none" /\ SetStatus(exec[r], outcome[r])
    BY <1>6 DEF SettleWrite, At, RunnersPlaced
  <2> QED BY <1>3, <1>4, <2>1
<1>7. CASE Start(r) \/ Restart(r)
  <2>1. SetStatus(exec[r], "running")
    BY <1>7 DEF Start, Restart
  <2> QED BY <1>3, <2>1
<1>8. CASE ~(BailOut(r) \/ SettleWrite(r) \/ Start(r) \/ Restart(r))
  BY <1>2, <1>8 DEF RunStep, RunError, Load, Resume, Reload, Gate, GateError, Check, Mark, Act,
                    SettleRead, StorageError, rowVars
<1> QED BY <1>5, <1>6, <1>7, <1>8

(* The rows of other calls stay as they are.                                 *)
LEMMA RunOthers ==
  ASSUME TypeOK, RunnersPlaced, NEW r \in Runner, RunStep(r) \/ RunError(r),
         NEW e \in Execution, e # exec[r]
  PROVE  stage'[e] = stage[e]
<1>1. status'[e] = status[e]
  BY RunLeavesOthers
<1>2. Live(e)' <=> Live(e)
  BY RunKeepsOthers, RunStaysOut DEF Live
<1> QED BY <1>1, <1>2, SameStage

LEMMA RunEnds ==
  ASSUME TypeOK, RunnersPlaced, ParkedIsFree, NEW r \in Runner, RunStep(r) \/ RunError(r), ~Park(r)
  PROVE  \A e \in Execution : StaysOrEnds(e)
<1> SUFFICES ASSUME NEW e \in Execution PROVE StaysOrEnds(e)
  OBVIOUS
<1>1. CASE e # exec[r]
  BY <1>1, RunOthers DEF StaysOrEnds
<1>2. CASE e = exec[r]
  <2>1. Live(e)
    BY <1>2, RunStaysOut DEF Live
  <2> QED BY <1>2, <2>1, RunWrites, RunsEndRows
<1> QED BY <1>1, <1>2

-----------------------------------------------------------------------------
(* A call hands a group over: it lies beyond all that went before.           *)
LEMMA ActRuns ==
  ASSUME TypeOK, RunnersPlaced, ParkedIsFree, RunCoversLog, NEW r \in Runner, Act(r)
  PROVE  Lifecycle!RunGroup(exec[r], at[r])
<1>1. pc[r] = "act" /\ exec[r] \in Execution /\ at[r] \in Order
  BY DEF Act, At, RunnersPlaced
<1>2. stage[exec[r]] = "live"
  BY <1>1, StageOf DEF ParkedIsFree, Live, Started
<1>3. \A i \in 1..Len(log[exec[r]]) : log[exec[r]][i] < at[r]
  <2>1. UpTo(exec[r], at[r] - 1)
    BY <1>1 DEF RunCoversLog, Covered
  <2>2. log[exec[r]] \in Seq(Order)
    BY <1>1 DEF TypeOK, LogTypeOK
  <2>3. \A i \in 1..Len(log[exec[r]]) : log[exec[r]][i] \in Order
    BY <2>2, ElementOfSeq
  <2> QED BY <1>1, <2>1, <2>3 DEF UpTo, Order
<1>4. log' = [log EXCEPT ![exec[r]] = Append(@, at[r])]
  BY DEF Act
<1>5. stage' = stage
  <2>1. status' = status
    BY DEF Act, rowVars
  <2>2. \A q \in Runner : exec'[q] = exec[q] /\ (pc'[q] = "idle" <=> pc[q] = "idle")
    BY <1>1 DEF Act, Goto, Settle, Conclude, TypeOK, RunTypeOK
  <2>3. \A e \in Execution : Live(e)' <=> Live(e)
    BY <2>2 DEF Live
  <2>4. stage = [e \in Execution |-> stage[e]] /\ stage' = [e \in Execution |-> stage'[e]]
    BY DEF stage
  <2> QED BY <2>1, <2>3, <2>4, SameStage
<1> QED BY <1>2, <1>3, <1>4, <1>5 DEF Lifecycle!RunGroup

LEMMA ParkParks ==
  ASSUME TypeOK, RunnersPlaced, SingleRunner, ParkedIsFree, NEW r \in Runner, Park(r),
         NEW e \in Execution, e = exec[r]
  PROVE  Lifecycle!Finish \/ Lifecycle!Park(e)
<1>1. pc[r] = "park" /\ SetStatus(e, "suspended") /\ End(r) /\ log' = log
  BY DEF Park, At
<1>2. Live(e) /\ status[e] \notin {"none", "suspended"}
  BY <1>1 DEF ParkedIsFree, Live
<1>3. stage[e] = "live"
  BY <1>2, StageOf DEF Started
<1>4. ~Live(e)'
  BY <1>1 DEF End, Vacate, Live, SingleRunner
<1>5. \A f \in Execution \ {e} : stage'[f] = stage[f]
  BY RunOthers DEF RunStep
<1>6. CASE status[e] = "deleted"
  <2>1. status'[e] = "deleted"
    BY <1>1, <1>6 DEF SetStatus
  <2>2. stage'[e] = "over"
    BY <1>4, <2>1, StageOfNext
  <2>3. \A f \in Execution : StaysOrEnds(f)
    BY <1>3, <1>5, <2>2 DEF StaysOrEnds
  <2> QED BY <1>1, <2>3, FinishStep
<1>7. CASE status[e] # "deleted"
  <2>1. status'[e] = "suspended"
    BY <1>1, <1>7 DEF SetStatus, TypeOK, RowTypeOK
  <2>2. stage'[e] = "parked"
    BY <1>4, <2>1, StageOfNext
  <2> QED BY <1>1, <1>3, <1>5, <2>2, MoveStep DEF Lifecycle!Park
<1> QED BY <1>6, <1>7

(* A call taken up: by an event for a new row, by a claim for a parked one.  *)
LEMMA CallStarts ==
  ASSUME TypeOK, ParkedIsFree, NEW e \in Execution, NEW from, stage[e] = from,
         status[e] # "deleted", NEW s \in {"pending", "running"}, SetStatus(e, s),
         NEW r \in Runner, At(r, "idle"), NEW p, NEW l \in {"load", "resume"}, Call(r, e, p, l),
         log' = log
  PROVE  Lifecycle!Move(e, from, "live")
<1>1. status' = [status EXCEPT ![e] = s]
  BY DEF SetStatus
<1>2. pc' = [pc EXCEPT ![r] = l] /\ exec' = [exec EXCEPT ![r] = e] /\ pc[r] = "idle"
  BY DEF Call, At
<1>3. stage'[e] = "live"
  BY <1>1, <1>2, StageOfNext DEF TypeOK, RowTypeOK, RunTypeOK, Live, Started
<1>4. \A f \in Execution \ {e} : stage'[f] = stage[f]
  <2> SUFFICES ASSUME NEW f \in Execution \ {e} PROVE stage'[f] = stage[f]
    OBVIOUS
  <2>1. status'[f] = status[f]
    BY <1>1 DEF TypeOK, RowTypeOK
  <2>2. Live(f)' <=> Live(f)
    BY <1>2 DEF TypeOK, RunTypeOK, Live
  <2> QED BY <2>1, <2>2, SameStage
<1> QED BY <1>3, <1>4, MoveStep

(* A row created without a call: scheduled, or as a record of the failure.   *)
LEMMA RowCreated ==
  ASSUME TypeOK, ParkedIsFree, NEW e \in Execution, status[e] = "none", NEW s, SetStatus(e, s),
         UNCHANGED runVars, log' = log,
         NEW to, \/ s = "suspended" /\ to = "parked"
                 \/ s = "failed" /\ to = "over"
  PROVE  Lifecycle!Move(e, "none", to)
<1>1. status' = [status EXCEPT ![e] = s]
  BY DEF SetStatus
<1>2. \A f \in Execution : Live(f)' <=> Live(f)
  BY DEF Live, runVars
<1>3. stage[e] = "none" /\ ~Live(e)
  BY StageOf DEF ParkedIsFree
<1>4. stage'[e] = to
  BY <1>1, <1>2, <1>3, StageOfNext DEF TypeOK, RowTypeOK
<1>5. \A f \in Execution \ {e} : stage'[f] = stage[f]
  BY <1>1, <1>2, SameStage DEF TypeOK, RowTypeOK
<1> QED BY <1>3, <1>4, <1>5, MoveStep

LEMMA QuietStep ==
  ASSUME UNCHANGED <<status, pc, exec, log>>
  PROVE  Lifecycle!Finish
<1>1. \A e \in Execution : Live(e)' <=> Live(e)
  BY DEF Live
<1>2. \A e \in Execution : StaysOrEnds(e)
  BY <1>1, SameStage DEF StaysOrEnds
<1> QED BY <1>2, FinishStep

(* Every step of the engine is a step of the lifecycle; one that a row does  *)
(* not show ends no execution.                                               *)
LEMMA LifecycleStep ==
  ASSUME IInv, ListsStarted, [Next]_vars
  PROVE  Lifecycle!Next
<1>0. TypeOK /\ RunnersPlaced /\ SingleRunner /\ ParkedIsFree /\ RunCoversLog
  BY DEF IInv
<1> USE DEF Lifecycle!Next
<1>1. ASSUME NEW r \in Runner, RunStep(r) \/ RunError(r) PROVE Lifecycle!Next
  <2>0. exec[r] \in Execution
    BY <1>0, <1>1, RunStaysOut DEF RunnersPlaced
  <2>1. CASE Act(r)
    <3>1. at[r] \in 0..MaxOrder
      BY <1>0, <2>1 DEF Act, At, RunnersPlaced, Order
    <3> QED BY <1>0, <2>0, <2>1, <3>1, ActRuns
  <2>2. CASE Park(r)
    BY <1>0, <2>0, <2>2, ParkParks
  <2>3. CASE ~Act(r) /\ ~Park(r)
    <3>1. log' = log
      BY <1>1, <2>3 DEF RunStep, RunError, Load, Start, BailOut, Resume, Reload, Gate, Restart,
            Check, Mark, SettleRead, SettleWrite, GateError, StorageError, histVars
    <3> QED BY <1>0, <1>1, <2>3, <3>1, RunEnds, FinishStep
  <2> QED BY <2>1, <2>2, <2>3
<1>2. ASSUME NEW p \in Process, ProcessStep(p) PROVE Lifecycle!Next
  <2>1. CASE Crash(p)
    BY <1>0, <2>1, CrashEnds, FinishStep DEF Crash, histVars
  <2>2. CASE SweepRead(p)
    BY <2>2, QuietStep DEF SweepRead, rowVars, runVars
  <2>3. ASSUME NEW f \in Execution, SweepOne(p, f) \/ RecoverOne(p, f) PROVE Lifecycle!Next
    <3>1. Started(f)
      BY <2>3 DEF SweepOne, RecoverOne, ListsStarted
    <3>2. \E s \in Terminal : SetStatus(f, s)
      BY <2>3 DEF SweepOne, RecoverOne, Terminal
    <3>3. UNCHANGED runVars /\ log' = log
      BY <2>3 DEF SweepOne, RecoverOne
    <3> QED BY <1>0, <3>1, <3>2, <3>3, OtherWrite, FinishStep
  <2>4. ASSUME NEW f \in Execution, NEW r \in Runner, Trigger(f, r, p) PROVE Lifecycle!Next
    <3>1. stage[f] = "none" /\ status[f] # "deleted"
      BY <2>4, StageOf DEF Trigger
    <3>2. Lifecycle!Move(f, "none", "live")
      BY <1>0, <2>4, <3>1, CallStarts DEF Trigger
    <3> QED BY <3>2 DEF Lifecycle!Begin
  <2> QED BY <1>2, <2>1, <2>2, <2>3, <2>4 DEF ProcessStep
<1>3. ASSUME NEW f \in Execution, RowStep(f) PROVE Lifecycle!Next
  <2>1. CASE TriggerFails(f)
    <3>1. Lifecycle!Move(f, "none", "over")
      BY <1>0, <2>1, RowCreated DEF TriggerFails
    <3> QED BY <3>1 DEF Lifecycle!Discard
  <2>2. CASE ScheduleStale(f)
    <3>1. Lifecycle!Move(f, "none", "parked")
      <4>1. status[f] = "none" /\ SetStatus(f, "suspended") /\ UNCHANGED runVars /\ log' = log
        BY <2>2 DEF ScheduleStale
      <4> QED BY <1>0, <4>1, RowCreated
    <3> QED BY <3>1 DEF Lifecycle!Schedule
  <2>3. CASE CancelExecution(f) \/ DeleteWorkflow(f)
    <3>1. Started(f) /\ UNCHANGED runVars /\ log' = log
      BY <2>3 DEF CancelExecution, DeleteWorkflow, Started
    <3>2. \E s \in Terminal : SetStatus(f, s)
      BY <2>3 DEF CancelExecution, DeleteWorkflow, Terminal
    <3> QED BY <1>0, <3>1, <3>2, OtherWrite, FinishStep
  <2>4. CASE DueTime(f) \/ GrowOld(f)
    BY <2>4, QuietStep DEF DueTime, GrowOld, histVars, runVars
  <2> QED BY <1>3, <2>1, <2>2, <2>3, <2>4 DEF RowStep
<1>4. ASSUME NEW c \in Cycle, PollStep(c) \/ ClaimFails(c) PROVE Lifecycle!Next
  <2>1. ASSUME NEW f \in Execution, NEW r \in Runner, Claim(c, f, r) PROVE Lifecycle!Next
    <3>1. stage[f] = "parked" /\ status[f] # "deleted"
      BY <1>0, <2>1, StageOf DEF Claim, Claimable, ParkedIsFree
    <3>2. Lifecycle!Move(f, "parked", "live")
      BY <1>0, <2>1, <3>1, CallStarts DEF Claim
    <3> QED BY <3>2 DEF Lifecycle!Wake
  <2>2. ASSUME Poll(c) \/ ClaimFails(c) \/ \E f \in Execution : ClaimLost(c, f) PROVE Lifecycle!Next
    BY <2>2, QuietStep DEF Poll, ClaimFails, ClaimLost, rowVars, histVars, runVars
  <2> QED BY <1>4, <2>1, <2>2 DEF PollStep
<1>5. CASE UNCHANGED vars \/ Answer
  BY <1>5, QuietStep DEF vars, Answer, rowVars, histVars, runVars
<1> QED BY <1>1, <1>2, <1>3, <1>4, <1>5 DEF Next

(* An execution's row, its calls and the lists that name it behave, for      *)
(* every number of each, as one abstract execution that is live, parked or   *)
(* over and hands its groups over in order.                                  *)
THEOREM LifecycleCorrect == Spec => ImplementsLifecycle
<1>1. Init => Lifecycle!Init
  <2> SUFFICES ASSUME Init PROVE Lifecycle!Init
    OBVIOUS
  <2>1. stage = [e \in Execution |-> stage[e]] /\ \A e \in Execution : status[e] = "none"
    BY DEF stage, Init
  <2>2. stage = [e \in Execution |-> "none"]
    BY <2>1, StageOf
  <2> QED BY <2>2 DEF Lifecycle!Init, Init
<1>2. Init => ListsStarted
  BY DEF Init, ListsStarted
<1>3. IInv /\ ListsStarted /\ [Next]_vars => ListsStarted'
  BY ListsStep DEF IInv
<1>4. IInv /\ ListsStarted /\ [Next]_vars => [Lifecycle!Next]_Lifecycle!lifecycleVars
  BY LifecycleStep
<1> QED BY <1>1, <1>2, <1>3, <1>4, Invariance, PTL DEF Spec, ImplementsLifecycle, Lifecycle!Spec
=============================================================================

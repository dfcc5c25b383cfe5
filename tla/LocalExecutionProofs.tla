------------------------ MODULE LocalExecutionProofs ------------------------
(***************************************************************************)
(* Proofs about LocalExecution, for every set of intents, ledgers and      *)
(* charts, with and without file faults and for any number of crashes.     *)
(***************************************************************************)
EXTENDS LocalExecution, TLAPS

CtlType == [pc : CtlSteps, i : Intents \cup {NoIntent}, loop : LoopSteps, approving : BOOLEAN]

\* What a settling step leaves in the controller and the state file.
LEMMA ReturnType ==
    ASSUME TypeOK, Return
    PROVE  ctl' \in CtlType
  BY DEF TypeOK, Return, CtlType, CtlSteps, LoopSteps

\* Moving to another step leaves the controller well typed.
LEMMA GoToType ==
    ASSUME TypeOK, NEW i \in Intents, NEW step \in CtlSteps, GoTo(step, i)
    PROVE  ctl' \in CtlType
  BY DEF TypeOK, GoTo, CtlType

\* Saving a status and a reason leaves the state file well typed.
LEMMA SaveType ==
    ASSUME TypeOK, NEW i \in Intents, NEW s \in Statuses, NEW why \in Details, Save(i, s, why)
    PROVE  status' \in [Intents -> Statuses] /\ detail' \in [Intents -> Details]
  BY DEF TypeOK, Save

\* A step that settles an intent and touches nothing else preserves the types.
LEMMA SettleType ==
    ASSUME TypeOK, NEW i \in Intents, NEW s \in Statuses, NEW why \in Details,
           Settle(i, s, why), UNCHANGED <<due, todo, files, ea, broker, crashes>>
    PROVE  TypeOK'
  BY SaveType, ReturnType DEF Settle, TypeOK, CtlType, files

\* The names used below are statuses, reasons and steps.
LEMMA Names ==
    /\ {"executing", "executed", "failed", "uncertain", "approved", "scheduled",
        "approval_required", "cancelled", "expired", "lost", "new"} \subseteq Statuses
    /\ {"none", "refused", "error", "unclaimed", "no_evidence", "answered"} \subseteq Details
    /\ SendSteps \cup ReconcileSteps \cup {"begin", "reconcile", "dispatch"} \subseteq CtlSteps
  BY DEF Statuses, Cancellable, Dispatched, Details, CtlSteps, SendSteps, ReconcileSteps, LoopSteps

\* Whatever the broker answered is reported as a status.
LEMMA ReportType == \A out \in Outcomes : Report(out) \in Statuses
  BY DEF Report, Outcomes, Statuses, Dispatched

EaType(f) == /\ f \in [EAs -> [pc : EaSteps, task : Intents \cup {NoIntent}, out : Outcomes]]
             /\ \A e \in EAs : f[e].pc = "idle" <=> f[e].task = NoIntent

\* An EA that is at work holds a task, and the task has a ledger.
LEMMA EaTask ==
    ASSUME TypeOK, NEW e \in EAs, ea[e].pc # "idle"
    PROVE  ea[e].task \in Intents /\ OriginOf[ea[e].task] \in Origins
  BY ConstantsAssumption DEF TypeOK

\* An EA that moves on with the task it holds stays well typed.
LEMMA EaGoToType ==
    ASSUME TypeOK, NEW e \in EAs, NEW step \in EaSteps, ea[e].pc # "idle", step # "idle",
           EaGoTo(e, step)
    PROVE  EaType(ea')
  BY DEF TypeOK, EaGoTo, EaType

\* An EA that goes back to polling stays well typed.
LEMMA EaIdleType ==
    ASSUME TypeOK, NEW e \in EAs, ea' = [ea EXCEPT ![e] = EaIdle]
    PROVE  EaType(ea')
  BY DEF TypeOK, EaType, EaIdle, EaSteps, Outcomes

\* Creating a file, or failing to, leaves the ledgers well typed.
LEMMA CreateType ==
    ASSUME NEW S, NEW file \in [Origins -> S], NEW o \in Origins, NEW content \in S, NEW absent,
           NEW new \in Create(file, o, content, absent)
    PROVE  new \in [Origins -> S]
  BY DEF Create

\* Type correctness is inductive by itself: one case per action.
LEMMA TypeStep == TypeOK /\ [Next]_vars => TypeOK'
<1> SUFFICES ASSUME TypeOK, [Next]_vars PROVE TypeOK'
  OBVIOUS
<1>1. CASE Restart
  BY <1>1, Names DEF Restart, Unsettled, TypeOK, files, LoopSteps, At
<1>2. CASE DispatchDueIntents
  BY <1>2, Names DEF DispatchDueIntents, TypeOK, files, LoopSteps, At
<1>3. CASE NextIteration
  BY <1>3, Names DEF NextIteration, Unsettled, TypeOK, files, LoopSteps, At
<1>4. CASE VisitDue \/ VisitUnsettled
  <2>1. PICK step \in CtlSteps, i \in todo :
          GoTo(step, i) /\ todo' = todo \ {i}
                        /\ UNCHANGED <<status, detail, due, files, ea, broker, crashes>>
    BY <1>4, Names DEF VisitDue, VisitUnsettled, Visit, ReconcileSteps
  <2>2. ctl' \in CtlType
    BY <2>1, GoToType DEF TypeOK
  <2> QED
    BY <2>1, <2>2 DEF TypeOK, files, CtlType
<1>5. ASSUME NEW i \in Intents, RefuseIntent(i)
      PROVE  TypeOK'
  BY <1>5, SettleType, Names DEF RefuseIntent
<1>6. ASSUME NEW i \in Intents, AccountUnavailable(i)
      PROVE  TypeOK'
  BY <1>6, SettleType, ReturnType, Names DEF AccountUnavailable, TypeOK, files, CtlType
<1>7. ASSUME NEW i \in Intents, StartExecuting(i)
      PROVE  TypeOK'
  BY <1>7, SaveType, GoToType, Names DEF StartExecuting, TypeOK, files, CtlType, SendSteps
<1>8. ASSUME NEW i \in Intents, StartNotSaved(i)
      PROVE  TypeOK'
  BY <1>8, SettleType, Names DEF StartNotSaved
<1>9. ASSUME NEW i \in Intents, ReadLedgerResult(i)
      PROVE  TypeOK'
  <2> DEFINE r == result[OriginOf[i]]
  <2>1. r # NoResult => Report(r.out) \in Statuses
    BY ReportType, ConstantsAssumption DEF TypeOK, Results, NoResult
  <2>2. CASE GoTo("sendClaim", i) /\ UNCHANGED <<status, detail>>
    BY <1>9, <2>2, GoToType, Names DEF ReadLedgerResult, TypeOK, files, CtlType, SendSteps
  <2>3. CASE r # NoResult /\ (Settle(i, Report(r.out), "answered") \/ Settle(i, "failed", "error"))
    BY <1>9, <2>1, <2>3, SettleType, Names DEF ReadLedgerResult
  <2> QED
    BY <1>9, <2>2, <2>3 DEF ReadLedgerResult, Reads
<1>10. ASSUME NEW i \in Intents, ReadLedgerClaim(i) \/ ReadLateClaim(i)
      PROVE  TypeOK'
  <2>1. PICK step, next \in SendSteps : OnClaim(step, next, i)
    BY <1>10 DEF ReadLedgerClaim, ReadLateClaim, SendSteps
  <2>2. CASE GoTo(next, i) /\ UNCHANGED <<status, detail>>
    BY <2>1, <2>2, GoToType, Names DEF OnClaim, TypeOK, files, CtlType
  <2>3. CASE Settle(i, "uncertain", "none") \/ Settle(i, "failed", "error")
    BY <2>1, <2>3, SettleType, Names DEF OnClaim
  <2> QED
    BY <2>1, <2>2, <2>3 DEF OnClaim
<1>11. ASSUME NEW i \in Intents, PostTask(i)
      PROVE  TypeOK'
  BY <1>11, GoToType, Names DEF PostTask, TypeOK, CtlType, SendSteps
<1>12. ASSUME NEW i \in Intents, TaskNotPosted(i)
      PROVE  TypeOK'
  BY <1>12, SettleType, Names DEF TaskNotPosted
<1>13. ASSUME NEW i \in Intents, WaitAnswered(i)
      PROVE  TypeOK'
  <2>1. Report(result[OriginOf[i]].out) \in Statuses
    BY <1>13, ReportType, ConstantsAssumption DEF WaitAnswered, TypeOK, Results, NoResult
  <2> QED
    BY <1>13, <2>1, SettleType, Names DEF WaitAnswered
<1>14. ASSUME NEW i \in Intents, WaitTimeout(i)
      PROVE  TypeOK'
  BY <1>14, GoToType, Names DEF WaitTimeout, TypeOK, files, CtlType, SendSteps
<1>15. ASSUME NEW i \in Intents, RetractTask(i)
      PROVE  TypeOK'
  BY <1>15, SaveType, ReturnType, Names DEF RetractTask, Settle, TypeOK, CtlType
<1>16. ASSUME NEW i \in Intents, ReconcileResult(i)
      PROVE  TypeOK'
  <2> DEFINE r == result[OriginOf[i]]
  <2>1. r # NoResult => Report(r.out) \in Statuses
    BY ReportType, ConstantsAssumption DEF TypeOK, Results, NoResult
  <2>2. CASE GoTo("recClaim", i) /\ UNCHANGED <<status, detail>>
    BY <1>16, <2>2, GoToType, Names DEF ReconcileResult, TypeOK, files, CtlType, ReconcileSteps
  <2>3. CASE r # NoResult /\ (Settle(i, Report(r.out), "answered") \/ Settle(i, "uncertain", "none"))
    BY <1>16, <2>1, <2>3, SettleType, Names DEF ReconcileResult
  <2> QED
    BY <1>16, <2>2, <2>3 DEF ReconcileResult, Reads
<1>17. ASSUME NEW i \in Intents, ReconcileClaim(i)
      PROVE  TypeOK'
  <2>1. CASE GoTo("recTask", i) /\ UNCHANGED <<status, detail>>
    BY <1>17, <2>1, GoToType, Names DEF ReconcileClaim, TypeOK, files, CtlType, ReconcileSteps
  <2>2. CASE Settle(i, "uncertain", "none")
    BY <1>17, <2>2, SettleType, Names DEF ReconcileClaim
  <2> QED
    BY <1>17, <2>1, <2>2 DEF ReconcileClaim
<1>18. ASSUME NEW i \in Intents, ReconcileTask(i)
      PROVE  TypeOK'
  <2>1. CASE Return /\ UNCHANGED <<status, detail>>
    BY <1>18, <2>1, ReturnType DEF ReconcileTask, TypeOK, files, CtlType
  <2>2. CASE Settle(i, "uncertain", "none") \/ Settle(i, "failed", "no_evidence")
    BY <1>18, <2>2, SettleType, Names DEF ReconcileTask
  <2> QED
    BY <1>18, <2>1, <2>2 DEF ReconcileTask
<1>19. ASSUME NEW i \in Intents, CreateIntent(i) \/ DeleteLocal(i)
      PROVE  TypeOK'
  BY <1>19, Names DEF CreateIntent, DeleteLocal, TypeOK, files
<1>20. ASSUME NEW i \in Intents, ApproveLocal(i)
      PROVE  TypeOK'
  BY <1>20, Names DEF ApproveLocal, TypeOK, files
<1>21. ASSUME NEW i \in Intents, Tick(i)
      PROVE  TypeOK'
  BY <1>21 DEF Tick, TypeOK, files, Phases
<1>22. ASSUME NEW e \in EAs, PollLocalOnce(e)
      PROVE  TypeOK'
  <2>1. PICK o \in Origins, step \in {"refuse", "fence"} :
          /\ task[o] \in Intents
          /\ ea' = [ea EXCEPT ![e] = [pc |-> step, task |-> task[o], out |-> "failed"]]
    BY <1>22 DEF PollLocalOnce, TypeOK
  <2>2. EaType(ea')
    BY <2>1, ConstantsAssumption DEF EaType, TypeOK, EaSteps, Outcomes
  <2> QED
    BY <1>22, <2>2 DEF PollLocalOnce, EaRest, TypeOK, files, EaType
<1>23. ASSUME NEW e \in EAs, ReadFenceResult(e)
      PROVE  TypeOK'
  <2>1. EaType(ea')
    BY <1>23, EaGoToType DEF ReadFenceResult, EaAt, EaSteps
  <2> QED
    BY <1>23, <2>1 DEF ReadFenceResult, EaRest, TypeOK, files, EaType
<1>24. ASSUME NEW e \in EAs, ClaimOrigin(e)
      PROVE  TypeOK'
  <2>1. EaType(ea')
    BY <1>24, EaGoToType DEF ClaimOrigin, EaAt, EaSteps
  <2>2. claim' \in [Origins -> Intents \cup {NoIntent}]
    BY <1>24, EaTask, CreateType DEF ClaimOrigin, EaAt, TypeOK
  <2> QED
    BY <1>24, <2>1, <2>2 DEF ClaimOrigin, EaRest, TypeOK, EaType
<1>25. ASSUME NEW e \in EAs, DeleteTask(e) \/ CrashEA(e)
      PROVE  TypeOK'
  <2>1. EaType(ea')
    BY <1>25, EaIdleType DEF DeleteTask, CrashEA
  <2> QED
    BY <1>25, <2>1, ConstantsAssumption DEF DeleteTask, CrashEA, EaRest, TypeOK, files, EaType
<1>26. ASSUME NEW e \in EAs, ExecuteTask(e)
      PROVE  TypeOK'
  <2>1. PICK out \in Outcomes :
          /\ broker' = [broker EXCEPT ![OriginOf[ea[e].task]] =
                          [calls |-> @.calls + 1, by |-> ea[e].task, out |-> out]]
          /\ ea' = [ea EXCEPT ![e] = [pc |-> "result", task |-> ea[e].task, out |-> out]]
    BY <1>26 DEF ExecuteTask
  <2>2. EaType(ea')
    BY <1>26, <2>1, EaTask, ConstantsAssumption DEF ExecuteTask, EaAt, EaType, TypeOK, EaSteps
  <2>3. broker' \in [Origins -> [calls : Nat, by : Intents \cup {NoIntent}, out : Outcomes]]
    BY <1>26, <2>1, EaTask DEF ExecuteTask, EaAt, TypeOK
  <2> QED
    BY <1>26, <2>2, <2>3 DEF ExecuteTask, EaRest, TypeOK, files, EaType
<1>27. ASSUME NEW e \in EAs, RefuseTask(e) \/ WriteResult(e)
      PROVE  TypeOK'
  <2>1. EaType(ea')
    BY <1>27, EaGoToType DEF RefuseTask, WriteResult, EaAt, EaSteps
  <2>2. PICK out \in Outcomes :
          result' \in Create(result, OriginOf[ea[e].task], [by |-> ea[e].task, out |-> out], NoResult)
    BY <1>27 DEF RefuseTask, WriteResult, TypeOK, Outcomes
  <2>3. result' \in [Origins -> Results]
    BY <1>27, <2>2, EaTask, CreateType DEF RefuseTask, WriteResult, EaAt, TypeOK, Results
  <2> QED
    BY <1>27, <2>1, <2>3 DEF RefuseTask, WriteResult, EaRest, TypeOK, EaType
<1>28. CASE CrashController
  BY <1>28, ConstantsAssumption DEF CrashController, TypeOK, files, CtlSteps, LoopSteps
<1>29. CASE LoseState
  BY <1>29, Names, ConstantsAssumption DEF LoseState, TypeOK, files
<1>30. CASE UNCHANGED vars
  BY <1>30 DEF vars, files, TypeOK
<1> QED
  BY <1>1, <1>2, <1>3, <1>4, <1>5, <1>6, <1>7, <1>8, <1>9, <1>10, <1>11, <1>12, <1>13,
     <1>14, <1>15, <1>16, <1>17, <1>18, <1>19, <1>20, <1>21, <1>22, <1>23, <1>24, <1>25,
     <1>26, <1>27, <1>28, <1>29, <1>30
  DEF Next, ControllerStep, OperatorStep, EaStep, Fault

(***************************************************************************)
(* The mailbox and the broker.  The controller reads claims and results,   *)
(* never writes them, and touches the task file in two ways only.          *)
(***************************************************************************)
OwnStep == \/ ControllerStep \/ OperatorStep \/ CrashController \/ LoseState
           \/ \E i \in Intents : Tick(i)

\* A step of the controller, the operator, the clock or a crash of the
\* controller touches no EA, no claim, no result and no broker.
LEMMA OwnStepShape ==
    ASSUME TypeOK, OwnStep
    PROVE  /\ UNCHANGED <<claim, result, ea, broker>>
           /\ \/ task' = task
              \/ \E o \in Origins : task' = [task EXCEPT ![o] = NoIntent]
              \/ \E i \in Intents : /\ PostTask(i)
                                    /\ task' = [task EXCEPT ![OriginOf[i]] = i]
<1>1. CASE \E i \in Intents : PostTask(i)
  BY <1>1 DEF PostTask
<1>2. CASE \E i \in Intents : RetractTask(i)
  <2>1. PICK i \in Intents : RetractTask(i)
    BY <1>2
  <2>2. OriginOf[i] \in Origins
    BY ConstantsAssumption
  <2>3. CASE task[OriginOf[i]] = i
    BY <2>1, <2>2, <2>3 DEF RetractTask
  <2>4. CASE task[OriginOf[i]] # i
    BY <2>1, <2>2, <2>4 DEF RetractTask, TypeOK
  <2> QED
    BY <2>3, <2>4
<1>3. CASE \/ Restart \/ DispatchDueIntents \/ NextIteration \/ VisitDue \/ VisitUnsettled
           \/ CrashController \/ LoseState
  BY <1>3 DEF Restart, DispatchDueIntents, NextIteration, VisitDue, VisitUnsettled, Visit,
              CrashController, LoseState, files
<1>4. CASE \E i \in Intents :
             \/ RefuseIntent(i) \/ AccountUnavailable(i) \/ StartExecuting(i) \/ StartNotSaved(i)
             \/ ReadLedgerResult(i) \/ ReadLedgerClaim(i) \/ TaskNotPosted(i)
             \/ WaitAnswered(i) \/ WaitTimeout(i) \/ ReadLateClaim(i)
  BY <1>4 DEF RefuseIntent, AccountUnavailable, StartExecuting, StartNotSaved, ReadLedgerResult,
              ReadLedgerClaim, TaskNotPosted, WaitAnswered, WaitTimeout, ReadLateClaim, OnClaim, files
<1>5. CASE \E i \in Intents :
             \/ ReconcileResult(i) \/ ReconcileClaim(i) \/ ReconcileTask(i)
             \/ CreateIntent(i) \/ ApproveLocal(i) \/ DeleteLocal(i) \/ Tick(i)
  BY <1>5 DEF ReconcileResult, ReconcileClaim, ReconcileTask, CreateIntent, ApproveLocal,
              DeleteLocal, Tick, files
<1> QED
  BY <1>1, <1>2, <1>3, <1>4, <1>5 DEF OwnStep, ControllerStep, OperatorStep

\* What each step of an EA does to the files, to itself and to the broker.
LEMMA EaShape ==
    ASSUME TypeOK, NEW e \in EAs, EaStep(e) \/ CrashEA(e)
    PROVE  \/ /\ ea' = [ea EXCEPT ![e] = EaIdle]
              /\ UNCHANGED <<claim, result, broker>>
              /\ \/ task' = task
                 \/ \E o \in Origins : task' = [task EXCEPT ![o] = NoIntent]
           \/ /\ PollLocalOnce(e)
              /\ UNCHANGED <<task, claim, result, broker>>
           \/ /\ UNCHANGED <<task, broker>>
              /\ ea[e].pc # "idle"
              /\ \/ ReadFenceResult(e) \/ RefuseTask(e) \/ ClaimOrigin(e) \/ WriteResult(e)
           \/ /\ ExecuteTask(e)
              /\ UNCHANGED <<task, claim, result>>
<1>1. CASE DeleteTask(e) \/ CrashEA(e)
  BY <1>1, EaTask DEF DeleteTask, CrashEA, EaAt, files
<1>2. CASE PollLocalOnce(e) \/ ExecuteTask(e)
  BY <1>2 DEF PollLocalOnce, ExecuteTask, files
<1>3. CASE ReadFenceResult(e) \/ RefuseTask(e) \/ ClaimOrigin(e) \/ WriteResult(e)
  BY <1>3 DEF ReadFenceResult, RefuseTask, ClaimOrigin, WriteResult, EaAt, files
<1> QED
  BY <1>1, <1>2, <1>3 DEF EaStep

\* Every step keeps evidence in the ledger of its own origin.
LEMMA LedgerStep == TypeOK /\ LedgerInv /\ [Next]_vars => LedgerInv'
<1> SUFFICES ASSUME TypeOK, LedgerInv, [Next]_vars PROVE LedgerInv'
  OBVIOUS
<1> DEFINE Kept == /\ UNCHANGED <<claim, result>>
                   /\ \/ task' = task
                      \/ \E o \in Origins : task' = [task EXCEPT ![o] = NoIntent]
<1>0. ASSUME Kept PROVE LedgerInv'
  <2>1. \A o \in Origins : task'[o] \in {task[o], NoIntent}
    BY <1>0 DEF TypeOK
  <2> QED
    BY <1>0, <2>1 DEF LedgerInv
<1>1. CASE OwnStep
  <2>1. ASSUME NEW i \in Intents, task' = [task EXCEPT ![OriginOf[i]] = i],
               UNCHANGED <<claim, result>>
        PROVE  LedgerInv'
    <3>1. \A o \in Origins : task'[o] = task[o] \/ OriginOf[task'[o]] = o
      BY <2>1, ConstantsAssumption DEF TypeOK
    <3> QED
      BY <2>1, <3>1 DEF LedgerInv
  <2> QED
    BY <1>0, <1>1, <2>1, OwnStepShape
<1>2. ASSUME NEW e \in EAs, EaStep(e) \/ CrashEA(e)
      PROVE  LedgerInv'
  <2>1. CASE Kept
    BY <1>0, <2>1
  <2>2. CASE ReadFenceResult(e)
    BY <2>2 DEF ReadFenceResult, files, LedgerInv
  <2>3. CASE RefuseTask(e) \/ WriteResult(e)
    <3>1. ea[e].task \in Intents /\ UNCHANGED <<task, claim>>
      BY <2>3, EaTask DEF RefuseTask, WriteResult, EaAt
    <3>2. PICK out \in Outcomes :
            result' \in Create(result, OriginOf[ea[e].task], [by |-> ea[e].task, out |-> out], NoResult)
      BY <2>3 DEF RefuseTask, WriteResult, TypeOK, Outcomes
    <3> QED
      BY <3>1, <3>2 DEF Create, LedgerInv, TypeOK
  <2>4. CASE ClaimOrigin(e)
    BY <2>4, EaTask DEF ClaimOrigin, EaAt, Create, LedgerInv, TypeOK
  <2> QED
    BY <1>2, <2>1, <2>2, <2>3, <2>4, EaShape
<1>3. CASE UNCHANGED vars
  BY <1>3 DEF vars, files, LedgerInv
<1> QED
  BY <1>1, <1>2, <1>3 DEF Next, OwnStep, Fault

\* An EA that is not at the broker after its step disturbs nothing of the fence, if what
\* it writes into a result file is a refusal or what the broker answered.
LEMMA FenceMovesOn ==
    ASSUME FenceInv, NEW e \in EAs, ea'[e].pc \notin {"broker", "result"},
           \A f \in EAs \ {e} : ea'[f] = ea[f], UNCHANGED <<claim, broker>>,
           \A p \in Origins : \/ result'[p] = result[p] \/ result'[p].out = "failed"
                              \/ /\ broker[p].calls = 1 /\ broker[p].by = result'[p].by
                                 /\ broker[p].out = result'[p].out
    PROVE  FenceInv'
<1>1. \A f \in EAs : EaAt(f, "broker")' \/ EaAt(f, "result")' => f # e /\ ea'[f] = ea[f]
  BY DEF EaAt
<1> QED
  BY <1>1 DEF FenceInv, EaAt

\* Every step keeps the claim between the EAs and the broker: the heart of
\* at-most-once.  Only ClaimOrigin and ExecuteTask need more than their shape.
LEMMA FenceStep == TypeOK /\ FenceInv /\ [Next]_vars => FenceInv'
<1> SUFFICES ASSUME TypeOK, FenceInv, [Next]_vars PROVE FenceInv'
  OBVIOUS
<1>1. CASE OwnStep
  BY <1>1, OwnStepShape DEF FenceInv, EaAt
<1>2. ASSUME NEW e \in EAs, EaStep(e) \/ CrashEA(e)
      PROVE  FenceInv'
  <2> DEFINE i == ea[e].task
             o == OriginOf[i]
  <2>1. CASE ea' = [ea EXCEPT ![e] = EaIdle] /\ UNCHANGED <<claim, result, broker>>
    <3>1. ea'[e].pc = "idle" /\ \A f \in EAs \ {e} : ea'[f] = ea[f]
      BY <2>1 DEF EaIdle, TypeOK
    <3> QED
      BY <2>1, <3>1, FenceMovesOn
  <2>2. CASE PollLocalOnce(e) /\ UNCHANGED <<task, claim, result, broker>>
    <3>1. ea'[e].pc \in {"refuse", "fence"} /\ \A f \in EAs \ {e} : ea'[f] = ea[f]
      BY <2>2 DEF PollLocalOnce, TypeOK
    <3> QED
      BY <2>2, <3>1, FenceMovesOn
  <2>3. CASE ReadFenceResult(e)
    <3>1. ea'[e].pc \in {"claim", "delete"} /\ \A f \in EAs \ {e} : ea'[f] = ea[f]
      BY <2>3 DEF ReadFenceResult, EaGoTo, TypeOK
    <3> QED
      BY <2>3, <3>1, FenceMovesOn DEF ReadFenceResult, files
  <2>4. CASE RefuseTask(e)
    <3>1. \A p \in Origins : result'[p] = result[p] \/ result'[p].out = "failed"
      BY <2>4, EaTask DEF RefuseTask, Create, EaAt, TypeOK
    <3>2. ea'[e].pc = "delete" /\ \A f \in EAs \ {e} : ea'[f] = ea[f]
      BY <2>4 DEF RefuseTask, EaGoTo, TypeOK
    <3> QED
      BY <2>4, <3>1, <3>2, FenceMovesOn DEF RefuseTask
  <2>5. CASE ClaimOrigin(e)
    <3>1. i \in Intents /\ o \in Origins /\ UNCHANGED <<result, broker>>
      BY <2>5, EaTask DEF ClaimOrigin, EaAt
    <3>2. CASE claim' = claim
      <4>1. ea'[e].pc = "delete" /\ \A f \in EAs \ {e} : ea'[f] = ea[f]
        BY <2>5, <3>2 DEF ClaimOrigin, EaGoTo, TypeOK
      <4> QED
        BY <3>1, <3>2, <4>1, FenceMovesOn
    <3>3. CASE claim' # claim
      <4>1. claim[o] = NoIntent /\ claim' = [claim EXCEPT ![o] = i]
        BY <2>5, <3>3 DEF ClaimOrigin, Create
      <4>2. /\ ea'[e].pc = "broker" /\ ea'[e].task = i
            /\ \A f \in EAs \ {e} : ea'[f] = ea[f]
        BY <2>5, <3>3 DEF ClaimOrigin, EaGoTo, TypeOK
      <4>3. broker[o].calls = 0
        <5>1. broker[o].calls \in Nat /\ broker[o].calls <= 1 /\ broker[o].calls # 1
          BY <3>1, <4>1 DEF FenceInv, TypeOK
        <5> QED
          BY <5>1
      <4>4. \A f \in EAs : EaAt(f, "broker") => ea[f].task \in Intents /\ OriginOf[ea[f].task] # o
        BY <3>1, <4>1, EaTask, ConstantsAssumption DEF FenceInv, EaAt
      <4>5. claim'[o] = i /\ \A p \in Origins \ {o} : claim'[p] = claim[p]
        BY <3>1, <4>1 DEF TypeOK
      <4>6. \A f \in EAs : EaAt(f, "result") => OriginOf[ea[f].task] # o
        BY <4>3 DEF FenceInv
      <4>7. \A f \in EAs : ea[f].pc # "idle" => OriginOf[ea[f].task] \in Origins
        BY EaTask
      <4> HIDE DEF i, o
      <4>8. OriginOf[i] = o
        BY DEF o
      <4> QED
        BY <3>1, <4>2, <4>3, <4>4, <4>5, <4>6, <4>7, <4>8 DEF FenceInv, EaAt
    <3> QED
      BY <3>2, <3>3
  <2>6. CASE ExecuteTask(e) /\ UNCHANGED <<task, claim, result>>
    <3>1. i \in Intents /\ o \in Origins /\ claim[o] = i /\ broker[o].calls = 0
      BY <2>6, EaTask DEF ExecuteTask, EaAt, FenceInv
    <3>2. PICK out \in Outcomes :
            /\ broker' = [broker EXCEPT ![o] = [calls |-> 1, by |-> i, out |-> out]]
            /\ ea' = [ea EXCEPT ![e] = [pc |-> "result", task |-> i, out |-> out]]
      <4>1. PICK out \in Outcomes :
              /\ broker' = [broker EXCEPT ![o] =
                             [calls |-> broker[o].calls + 1, by |-> i, out |-> out]]
              /\ ea' = [ea EXCEPT ![e] = [pc |-> "result", task |-> i, out |-> out]]
        BY <2>6 DEF ExecuteTask
      <4>2. broker[o].calls + 1 = 1
        BY <3>1
      <4> QED
        BY <4>1, <4>2
    <3>3. result[o].out = "failed"
      BY <3>1 DEF FenceInv
    <3>4. \A f \in EAs : f # e /\ (EaAt(f, "broker") \/ EaAt(f, "result")) =>
                            OriginOf[ea[f].task] # o
      BY <2>6, <3>1 DEF FenceInv, EaAt, ExecuteTask
    <3>5. broker'[o] = [calls |-> 1, by |-> i, out |-> out] /\ \A p \in Origins \ {o} : broker'[p] = broker[p]
      BY <3>1, <3>2 DEF TypeOK
    <3>6. ea'[e] = [pc |-> "result", task |-> i, out |-> out] /\ \A f \in EAs \ {e} : ea'[f] = ea[f]
      BY <3>2 DEF TypeOK
    <3>7. \A f \in EAs : ea[f].pc # "idle" => OriginOf[ea[f].task] \in Origins
      BY EaTask
    <3>8. i # NoIntent /\ OriginOf[i] = o
      BY <3>1, ConstantsAssumption
    <3> HIDE DEF i, o
    <3> QED
      BY <2>6, <3>1, <3>3, <3>4, <3>5, <3>6, <3>7, <3>8 DEF FenceInv, EaAt
  <2>7. CASE WriteResult(e)
    <3>1. i \in Intents /\ o \in Origins
      BY <2>7, EaTask DEF WriteResult, EaAt
    <3>2. \A p \in Origins : \/ result'[p] = result[p]
                             \/ p = o /\ result'[p] = [by |-> i, out |-> ea[e].out]
      BY <2>7, <3>1 DEF WriteResult, Create, TypeOK
    <3>3. ea'[e].pc = "delete" /\ \A f \in EAs \ {e} : ea'[f] = ea[f]
      BY <2>7 DEF WriteResult, EaGoTo, TypeOK
    <3>4. broker[o].calls = 1 /\ broker[o].by = i /\ broker[o].out = ea[e].out
      BY <2>7 DEF WriteResult, FenceInv
    <3>5. UNCHANGED <<claim, broker>>
      BY <2>7 DEF WriteResult
    <3> HIDE DEF i, o
    <3> QED
      BY <3>2, <3>3, <3>4, <3>5, FenceMovesOn
  <2> QED
    BY <1>2, <2>1, <2>2, <2>3, <2>4, <2>5, <2>6, <2>7, EaShape
<1>3. CASE UNCHANGED vars
  BY <1>3 DEF vars, files, FenceInv, EaAt
<1> QED
  BY <1>1, <1>2, <1>3 DEF Next, OwnStep, Fault

(***************************************************************************)
(* The controller.  A step that settles an intent, returns or goes on to   *)
(* the next await leaves every other intent as it is.                      *)
(***************************************************************************)
Busy == SendSteps \cup ReconcileSteps \cup {"begin"}

\* The names of the controller's steps are told apart.
LEMMA StepNames ==
    /\ "down" \notin Busy /\ "down" \notin LoopSteps
    /\ SendSteps \cap ReconcileSteps = {} /\ "begin" \notin SendSteps \cup ReconcileSteps
    /\ LoopSteps \cap Busy = {}
    /\ LoopSteps = {"reconcile", "dispatch"}
  BY DEF Busy, SendSteps, ReconcileSteps, LoopSteps

\* Settling the intent at hand puts the controller back in its loop.
LEMMA CtlSettle ==
    ASSUME TypeOK, CtlInv, NEW i \in Intents, NEW s, NEW why, ctl.i = i, ctl.pc \in Busy,
           Settle(i, s, why), todo' = todo,
           why = "refused" => s = "failed", s = "executing" => why = "none"
    PROVE  CtlInv'
<1>1. /\ status' = [status EXCEPT ![i] = s] /\ detail' = [detail EXCEPT ![i] = why]
      /\ ctl'.pc = ctl.loop /\ ctl'.loop = ctl.loop /\ ctl'.i = NoIntent
      /\ ctl.loop \in LoopSteps /\ i \notin todo
  BY DEF Settle, Save, Return, TypeOK, CtlInv
<1>2. \A j \in Intents : j # i => status'[j] = status[j] /\ detail'[j] = detail[j]
  BY <1>1 DEF TypeOK
<1>3. status'[i] = s /\ detail'[i] = why
  BY <1>1 DEF TypeOK
<1> QED
  BY <1>1, <1>2, <1>3, StepNames, ConstantsAssumption DEF CtlInv, At, TypeOK, Busy

\* So does leaving the intent as it is.
LEMMA CtlReturn ==
    ASSUME TypeOK, CtlInv, ctl.pc \in Busy, Return, UNCHANGED <<status, detail, todo>>
    PROVE  CtlInv'
<1>1. /\ ctl'.pc = ctl.loop /\ ctl'.loop = ctl.loop /\ ctl'.i = NoIntent /\ ctl.loop \in LoopSteps
  BY DEF Return, TypeOK
<1> QED
  BY <1>1, StepNames, ConstantsAssumption DEF CtlInv, At, TypeOK, Busy

\* Going on with the intent at hand, inside one of the two procedures.
LEMMA CtlGoTo ==
    ASSUME TypeOK, CtlInv, NEW i \in Intents, ctl.i = i, NEW step, GoTo(step, i),
           \/ ctl.pc \in SendSteps /\ step \in SendSteps
           \/ ctl.pc \in ReconcileSteps /\ step \in ReconcileSteps,
           UNCHANGED <<status, detail, todo>>
    PROVE  CtlInv'
<1>1. ctl'.pc = step /\ ctl'.loop = ctl.loop /\ ctl'.i = i
  BY DEF GoTo, TypeOK
<1> QED
  BY <1>1, StepNames DEF CtlInv, At, Busy

\* Taking the next intent of the loop.
LEMMA CtlVisit ==
    ASSUME TypeOK, CtlInv, NEW i \in todo, NEW step, GoTo(step, i), todo' = todo \ {i},
           \/ At("dispatch") /\ step = "begin"
           \/ At("reconcile") /\ step = "recResult",
           UNCHANGED <<status, detail>>
    PROVE  CtlInv'
<1>1. ctl'.pc = step /\ ctl'.loop = ctl.loop /\ ctl'.i = i /\ ctl.loop = ctl.pc
  BY StepNames DEF GoTo, At, TypeOK, CtlInv
<1>2. step \in ReconcileSteps \cup {"begin"}
  BY DEF ReconcileSteps
<1> QED
  BY <1>1, <1>2, StepNames DEF CtlInv, At, Busy, TypeOK

\* Every step keeps the controller's position and the statuses in agreement.
LEMMA CtlStep == TypeOK /\ CtlInv /\ [Next]_vars => CtlInv'
<1> SUFFICES ASSUME TypeOK, CtlInv, [Next]_vars PROVE CtlInv'
  OBVIOUS
<1>1. CASE Restart
  <2>1. /\ ctl'.pc = "reconcile" /\ ctl'.loop = "reconcile" /\ ctl'.i = NoIntent
        /\ detail' = detail
    BY <1>1 DEF Restart, At, TypeOK, CtlInv
  <2>2. \A i \in Intents : \/ status'[i] = status[i]
                           \/ status[i] = "scheduled" /\ status'[i] = "cancelled"
    BY <1>1 DEF Restart
  <2>3. todo' \subseteq Intents /\ \A i \in todo' : status'[i] \in {"executing", "uncertain"}
    BY <1>1, <2>2 DEF Restart, Unsettled
  <2>4. \A i \in Intents : /\ detail'[i] = "refused" => status'[i] = "failed"
                           /\ status'[i] = "executing" => detail'[i] = "none"
    BY <2>1, <2>2 DEF CtlInv
  <2> QED
    BY <2>1, <2>3, <2>4, StepNames, ConstantsAssumption DEF CtlInv, At, Busy, LoopSteps
<1>2. CASE DispatchDueIntents
  <2>1. /\ ctl'.pc = "dispatch" /\ ctl'.loop = "dispatch" /\ ctl'.i = NoIntent /\ detail' = detail
    BY <1>2 DEF DispatchDueIntents, At, TypeOK, CtlInv, LoopSteps
  <2>2. \A i \in Intents : \/ status'[i] = status[i]
                           \/ status[i] = "scheduled" /\ due[i] = "late" /\ status'[i] = "expired"
    BY <1>2 DEF DispatchDueIntents
  <2>3. todo' \subseteq Intents /\ \A i \in todo' : status'[i] \in {"scheduled", "approved"}
    BY <1>2 DEF DispatchDueIntents
  <2> QED
    BY <2>1, <2>2, <2>3, StepNames, ConstantsAssumption DEF CtlInv, At, Busy, LoopSteps
<1>3. CASE NextIteration
  <2>1. /\ ctl'.pc = "reconcile" /\ ctl'.loop = "reconcile" /\ ctl'.i = NoIntent
        /\ todo' = Unsettled /\ UNCHANGED <<status, detail>>
    BY <1>3 DEF NextIteration, At, TypeOK, CtlInv, LoopSteps
  <2> QED
    BY <2>1, StepNames, ConstantsAssumption DEF CtlInv, At, Busy, Unsettled, LoopSteps
<1>4. CASE VisitDue \/ VisitUnsettled
  <2>1. CASE VisitDue
    BY <2>1, CtlVisit DEF VisitDue, Visit
  <2>2. CASE VisitUnsettled
    BY <2>2, CtlVisit DEF VisitUnsettled, Visit
  <2> QED
    BY <1>4, <2>1, <2>2
<1>5. ASSUME NEW i \in Intents, StartExecuting(i)
      PROVE  CtlInv'
  <2>1. /\ status' = [status EXCEPT ![i] = "executing"] /\ detail' = [detail EXCEPT ![i] = "none"]
        /\ ctl'.pc = "send" /\ ctl'.loop = ctl.loop /\ ctl'.i = i
        /\ ctl.i = i /\ ctl.pc = "begin" /\ todo' = todo /\ i \notin todo
    BY <1>5 DEF StartExecuting, Working, At, Save, GoTo, TypeOK, CtlInv
  <2>2. \A j \in Intents : j # i => status'[j] = status[j] /\ detail'[j] = detail[j]
    BY <2>1 DEF TypeOK
  <2>3. status'[i] = "executing" /\ detail'[i] = "none"
    BY <2>1 DEF TypeOK
  <2>4. ctl.loop = "dispatch" /\ "send" \in SendSteps
    BY <2>1 DEF CtlInv, SendSteps
  <2> QED
    BY <2>1, <2>2, <2>3, <2>4, StepNames DEF CtlInv, At, Busy, TypeOK
<1>6. ASSUME NEW i \in Intents,
             \/ RefuseIntent(i) \/ AccountUnavailable(i) \/ StartNotSaved(i) \/ TaskNotPosted(i)
             \/ WaitAnswered(i) \/ RetractTask(i)
      PROVE  CtlInv'
  <2>1. ctl.i = i /\ ctl.pc \in Busy /\ todo' = todo
    BY <1>6 DEF RefuseIntent, AccountUnavailable, StartNotSaved, TaskNotPosted, WaitAnswered,
                RetractTask, Working, At, Busy, SendSteps
  <2>2. CASE Return /\ UNCHANGED <<status, detail>>
    BY <2>1, <2>2, CtlReturn
  <2>3. CASE \/ Settle(i, "failed", "refused") \/ Settle(i, "failed", "error")
             \/ Settle(i, "failed", "unclaimed")
             \/ Settle(i, "executing", "none") \/ Settle(i, "uncertain", "none")
    BY <2>1, <2>3, CtlSettle
  <2>4. CASE WaitAnswered(i)
    <3>1. Settle(i, Report(result[OriginOf[i]].out), "answered")
      BY <2>4 DEF WaitAnswered
    <3>2. result[OriginOf[i]].out \in Outcomes
      BY ConstantsAssumption DEF TypeOK, Results, NoResult, Outcomes
    <3> QED
      BY <2>1, <3>1, <3>2, CtlSettle DEF Report, Outcomes
  <2> QED
    BY <1>6, <2>2, <2>3, <2>4 DEF RefuseIntent, AccountUnavailable, StartNotSaved, TaskNotPosted,
                                  RetractTask
<1>7. ASSUME NEW i \in Intents,
             \/ ReadLedgerResult(i) \/ ReadLedgerClaim(i) \/ PostTask(i) \/ WaitTimeout(i)
             \/ ReadLateClaim(i)
      PROVE  CtlInv'
  <2>1. ctl.i = i /\ ctl.pc \in SendSteps /\ ctl.pc \in Busy /\ todo' = todo
    BY <1>7 DEF ReadLedgerResult, ReadLedgerClaim, PostTask, WaitTimeout, ReadLateClaim, OnClaim,
                Working, At, Busy, SendSteps
  <2>2. ASSUME NEW step \in SendSteps, GoTo(step, i), UNCHANGED <<status, detail>>
        PROVE  CtlInv'
    BY <2>1, <2>2, CtlGoTo
  <2>3. ASSUME NEW s, NEW why, Settle(i, s, why), why # "refused", s # "executing"
        PROVE  CtlInv'
    BY <2>1, <2>3, CtlSettle
  <2>4. CASE ReadLedgerResult(i)
    <3>1. \A r \in Results : Report(r.out) # "executing"
      BY DEF Report, Results, NoResult, Outcomes
    <3>2. \A seen \in Reads(result[OriginOf[i]], NoResult) : seen \in Results
      BY ConstantsAssumption DEF Reads, TypeOK, Results
    <3> QED
      BY <2>2, <2>3, <2>4, <3>1, <3>2 DEF ReadLedgerResult, SendSteps
  <2>5. CASE ReadLedgerClaim(i) \/ ReadLateClaim(i)
    BY <2>2, <2>3, <2>5 DEF ReadLedgerClaim, ReadLateClaim, OnClaim, SendSteps
  <2>6. CASE PostTask(i) \/ WaitTimeout(i)
    BY <2>2, <2>6 DEF PostTask, WaitTimeout, SendSteps
  <2> QED
    BY <1>7, <2>4, <2>5, <2>6
<1>8. ASSUME NEW i \in Intents, ReconcileResult(i) \/ ReconcileClaim(i) \/ ReconcileTask(i)
      PROVE  CtlInv'
  <2>1. ctl.i = i /\ ctl.pc \in ReconcileSteps /\ ctl.pc \in Busy /\ todo' = todo
    BY <1>8 DEF ReconcileResult, ReconcileClaim, ReconcileTask, Working, At, Busy, ReconcileSteps
  <2>2. ASSUME NEW step \in ReconcileSteps, GoTo(step, i), UNCHANGED <<status, detail>>
        PROVE  CtlInv'
    BY <2>1, <2>2, CtlGoTo
  <2>3. ASSUME NEW s, NEW why, Settle(i, s, why), why # "refused", s # "executing"
        PROVE  CtlInv'
    BY <2>1, <2>3, CtlSettle
  <2>4. CASE Return /\ UNCHANGED <<status, detail>>
    BY <2>1, <2>4, CtlReturn
  <2>5. CASE ReconcileResult(i)
    <3>1. \A r \in Results : Report(r.out) # "executing"
      BY DEF Report, Results, NoResult, Outcomes
    <3>2. \A seen \in Reads(result[OriginOf[i]], NoResult) : seen \in Results
      BY ConstantsAssumption DEF Reads, TypeOK, Results
    <3> QED
      BY <2>2, <2>3, <2>5, <3>1, <3>2 DEF ReconcileResult, ReconcileSteps
  <2>6. CASE ReconcileClaim(i)
    BY <2>2, <2>3, <2>6 DEF ReconcileClaim, ReconcileSteps
  <2>7. CASE ReconcileTask(i)
    BY <2>3, <2>4, <2>7 DEF ReconcileTask
  <2> QED
    BY <1>8, <2>5, <2>6, <2>7
<1>9. ASSUME NEW i \in Intents, CreateIntent(i) \/ DeleteLocal(i) \/ ApproveLocal(i)
      PROVE  CtlInv'
  <2>1. /\ ctl.pc = "dispatch" /\ todo = {} /\ todo' = {} /\ detail' = detail
        /\ status[i] \in {"new"} \cup Cancellable
    BY <1>9 DEF CreateIntent, DeleteLocal, ApproveLocal, Serving, At, Cancellable
  <2>2. \A j \in Intents : j # i => status'[j] = status[j]
    BY <1>9 DEF CreateIntent, DeleteLocal, ApproveLocal, TypeOK
  <2>3. /\ status'[i] \in {"scheduled", "approval_required", "approved", "cancelled"}
        /\ ApproveLocal(i) => status'[i] = "approved"
    BY <1>9 DEF CreateIntent, DeleteLocal, ApproveLocal, TypeOK
  <2>4. detail[i] # "refused"
    BY <2>1 DEF CtlInv, Cancellable
  <2>5. CASE ctl' = ctl
    BY <2>1, <2>2, <2>3, <2>4, <2>5, StepNames DEF CtlInv, At, Busy
  <2>6. CASE ApproveLocal(i)
    <3>1. ctl'.pc = "begin" /\ ctl'.i = i /\ ctl'.loop = ctl.loop /\ ctl.loop = "dispatch"
      BY <2>1, <2>6, StepNames DEF ApproveLocal, TypeOK, CtlInv
    <3> QED
      BY <2>1, <2>2, <2>3, <2>4, <2>6, <3>1, StepNames DEF CtlInv, At, Busy
  <2> QED
    BY <1>9, <2>5, <2>6 DEF CreateIntent, DeleteLocal
<1>10. CASE CrashController
  <2>1. /\ ctl'.pc = "down" /\ ctl'.i = NoIntent /\ ctl'.loop = "reconcile" /\ todo' = {}
        /\ UNCHANGED <<status, detail>>
    BY <1>10 DEF CrashController
  <2> QED
    BY <2>1, StepNames, ConstantsAssumption DEF CtlInv, At, Busy
<1>11. CASE LoseState
  <2>1. /\ ctl.pc = "down" /\ ctl' = ctl /\ todo' = todo /\ todo = {}
        /\ \A i \in Intents : detail'[i] = "none"
    BY <1>11 DEF LoseState, At, CtlInv
  <2> QED
    BY <2>1, StepNames DEF CtlInv, At, Busy
<1>12. CASE UNCHANGED <<status, detail, ctl, todo>>
  BY <1>12 DEF CtlInv, At
<1>13. ASSUME NEW e \in EAs, EaStep(e) \/ CrashEA(e)
       PROVE  CtlInv'
  BY <1>12, <1>13 DEF EaStep, PollLocalOnce, RefuseTask, ReadFenceResult, ClaimOrigin, ExecuteTask,
               WriteResult, DeleteTask, CrashEA, EaRest
<1>14. ASSUME NEW i \in Intents, Tick(i)
       PROVE  CtlInv'
  BY <1>12, <1>14 DEF Tick
<1>15. CASE UNCHANGED vars
  BY <1>12, <1>15 DEF vars
<1> QED
  BY <1>1, <1>2, <1>3, <1>4, <1>5, <1>6, <1>7, <1>8, <1>9, <1>10, <1>11, <1>13, <1>14, <1>15
  DEF Next, ControllerStep, OperatorStep, Fault

(***************************************************************************)
(* What one step may do to an intent.                                      *)
(***************************************************************************)
Same(i) == status'[i] = status[i] /\ detail'[i] = detail[i]

\* The result file holds the broker's acceptance of the intent.
Answered(i) == LET r == result[OriginOf[i]] IN r.out = "done" /\ SameTask(r.by, i)

Move(i) ==
    \/ Same(i)
    \/ status'[i] = "lost" /\ detail'[i] = "none"
    \/ status[i] = "new" /\ status'[i] = "new"
    \/ /\ detail'[i] = detail[i]
       /\ \/ status[i] = "new" /\ status'[i] \in {"scheduled", "approval_required"}
          \/ status[i] = "approval_required" /\ status'[i] = "approved"
          \/ status[i] \in Cancellable /\ status'[i] \in {"cancelled", "expired"}
    \/ /\ status[i] \in {"scheduled", "approved"}
       /\ \/ status'[i] = "failed" /\ detail'[i] = "refused"
          \/ status'[i] \in {"executing", "uncertain"} /\ detail'[i] = "none"
    \/ /\ status[i] \in {"executing", "uncertain"}
       /\ \/ status'[i] \in {"failed", "uncertain"} /\ detail'[i] # "refused"
          \/ status'[i] = "executed" /\ detail'[i] = "answered" /\ Answered(i) /\ broker' = broker

\* Saving one intent leaves the others alone.
LEMMA SaveShape ==
    ASSUME TypeOK, NEW i \in Intents, NEW s, NEW why, Save(i, s, why)
    PROVE  /\ status'[i] = s /\ detail'[i] = why
           /\ \A j \in Intents : j # i => Same(j)
  BY DEF Save, Same, TypeOK

\* A report is "executed" exactly when the result file says so.
LEMMA ReportIs ==
    ASSUME NEW r \in Results
    PROVE  /\ Report(r.out) \in {"executed", "failed", "uncertain"}
           /\ Report(r.out) = "executed" <=> r.out = "done"
  BY DEF Report, Results, NoResult, Outcomes

\* Settling moves the one intent and leaves the others.
LEMMA MoveSettle ==
    ASSUME TypeOK, NEW i \in Intents, NEW s, NEW why, Settle(i, s, why),
           \/ /\ status[i] \in {"scheduled", "approved"}
              /\ \/ s = "failed" /\ why = "refused"
                 \/ s \in {"executing", "uncertain"} /\ why = "none"
           \/ /\ status[i] \in {"executing", "uncertain"}
              /\ \/ s \in {"failed", "uncertain"} /\ why # "refused"
                 \/ s = "executed" /\ why = "answered" /\ Answered(i) /\ broker' = broker
    PROVE  \A j \in Intents : Move(j)
  BY SaveShape DEF Settle, Move

\* Every step moves every intent as above.
LEMMA MoveStep == TypeOK /\ CtlInv /\ [Next]_vars => \A i \in Intents : Move(i)
<1> SUFFICES ASSUME TypeOK, CtlInv, [Next]_vars PROVE \A i \in Intents : Move(i)
  OBVIOUS
<1>0. ASSUME UNCHANGED <<status, detail>>
      PROVE  \A i \in Intents : Move(i)
  BY <1>0 DEF Move, Same
<1>1. CASE Restart \/ DispatchDueIntents
  <2>1. detail' = detail
    BY <1>1 DEF Restart, DispatchDueIntents
  <2>2. \A i \in Intents : \/ status'[i] = status[i]
                           \/ status[i] = "scheduled" /\ status'[i] \in {"cancelled", "expired"}
    BY <1>1 DEF Restart, DispatchDueIntents
  <2> QED
    BY <2>1, <2>2 DEF Move, Same, Cancellable
<1>2. CASE NextIteration \/ VisitDue \/ VisitUnsettled \/ CrashController
  BY <1>0, <1>2 DEF NextIteration, VisitDue, VisitUnsettled, Visit, CrashController
<1>3. ASSUME NEW i \in Intents, \/ RefuseIntent(i) \/ AccountUnavailable(i)
                                \/ StartExecuting(i) \/ StartNotSaved(i)
      PROVE  \A j \in Intents : Move(j)
  <2>1. status[i] \in {"scheduled", "approved"}
    BY <1>3 DEF RefuseIntent, AccountUnavailable, StartExecuting, StartNotSaved, Working, At, CtlInv
  <2>2. CASE UNCHANGED <<status, detail>>
    BY <1>0, <2>2
  <2>3. CASE StartExecuting(i)
    BY <2>1, <2>3, SaveShape DEF StartExecuting, Move
  <2>4. CASE \/ Settle(i, "failed", "refused") \/ Settle(i, "executing", "none")
             \/ Settle(i, "uncertain", "none")
    BY <2>1, <2>4, MoveSettle
  <2> QED
    BY <1>3, <2>2, <2>3, <2>4 DEF RefuseIntent, AccountUnavailable, StartNotSaved
<1>4. ASSUME NEW i \in Intents,
             \/ ReadLedgerResult(i) \/ ReadLedgerClaim(i) \/ PostTask(i) \/ TaskNotPosted(i)
             \/ WaitAnswered(i) \/ WaitTimeout(i) \/ ReadLateClaim(i) \/ RetractTask(i)
             \/ ReconcileResult(i) \/ ReconcileClaim(i) \/ ReconcileTask(i)
      PROVE  \A j \in Intents : Move(j)
  <2> DEFINE r == result[OriginOf[i]]
  <2>1. status[i] \in {"executing", "uncertain"} /\ broker' = broker
    BY <1>4 DEF ReadLedgerResult, ReadLedgerClaim, PostTask, TaskNotPosted, WaitAnswered,
                WaitTimeout, ReadLateClaim, RetractTask, ReconcileResult, ReconcileClaim,
                ReconcileTask, OnClaim, Working, At, CtlInv, SendSteps, ReconcileSteps
  <2>2. CASE UNCHANGED <<status, detail>>
    BY <1>0, <2>2
  <2>3. CASE \/ Settle(i, "uncertain", "none") \/ Settle(i, "failed", "error")
             \/ Settle(i, "failed", "unclaimed") \/ Settle(i, "failed", "no_evidence")
    BY <2>1, <2>3, MoveSettle
  <2>4. CASE SameTask(r.by, i) /\ Settle(i, Report(r.out), "answered")
    <3>1. r \in Results
      BY ConstantsAssumption DEF TypeOK
    <3> QED
      BY <2>1, <2>4, <3>1, ReportIs, MoveSettle DEF Answered
  <2>5. CASE ReadLedgerResult(i) \/ WaitAnswered(i) \/ ReconcileResult(i)
    <3>1. SameTask(i, i)
      BY DEF SameTask
    <3> QED
      BY <2>2, <2>3, <2>4, <2>5, <3>1 DEF ReadLedgerResult, WaitAnswered, ReconcileResult, Reads
  <2>6. CASE ReadLedgerClaim(i) \/ ReadLateClaim(i) \/ ReconcileClaim(i) \/ ReconcileTask(i)
    BY <2>2, <2>3, <2>6 DEF ReadLedgerClaim, ReadLateClaim, OnClaim, ReconcileClaim, ReconcileTask
  <2>7. CASE PostTask(i) \/ TaskNotPosted(i) \/ WaitTimeout(i) \/ RetractTask(i)
    BY <2>2, <2>3, <2>7 DEF PostTask, TaskNotPosted, WaitTimeout, RetractTask
  <2> QED
    BY <1>4, <2>5, <2>6, <2>7
<1>5. ASSUME NEW i \in Intents, CreateIntent(i) \/ ApproveLocal(i) \/ DeleteLocal(i)
      PROVE  \A j \in Intents : Move(j)
  <2>1. detail' = detail /\ \A j \in Intents : j # i => status'[j] = status[j]
    BY <1>5 DEF CreateIntent, ApproveLocal, DeleteLocal, TypeOK
  <2>2. \/ status[i] = "new" /\ status'[i] \in {"scheduled", "approval_required"}
        \/ status[i] = "approval_required" /\ status'[i] = "approved"
        \/ status[i] \in Cancellable /\ status'[i] = "cancelled"
    BY <1>5 DEF CreateIntent, ApproveLocal, DeleteLocal, TypeOK
  <2> QED
    BY <2>1, <2>2 DEF Move, Same
<1>6. CASE LoseState
  BY <1>6 DEF LoseState, Move
<1>7. ASSUME NEW e \in EAs, EaStep(e) \/ CrashEA(e)
      PROVE  \A i \in Intents : Move(i)
  BY <1>0, <1>7 DEF EaStep, PollLocalOnce, RefuseTask, ReadFenceResult, ClaimOrigin, ExecuteTask,
                    WriteResult, DeleteTask, CrashEA, EaRest
<1>8. CASE \/ \E i \in Intents : Tick(i)
           \/ UNCHANGED vars
  BY <1>0, <1>8 DEF Tick, vars
<1> QED
  BY <1>1, <1>2, <1>3, <1>4, <1>5, <1>6, <1>7, <1>8
  DEF Next, ControllerStep, OperatorStep, Fault

(***************************************************************************)
(* What is held leaves no trace: only PostTask makes the first trace.      *)
(***************************************************************************)
Trace(i) ==
    \/ i \in {task[OriginOf[i]], claim[OriginOf[i]]}
    \/ i \in {result[OriginOf[i]].by, broker[OriginOf[i]].by}
    \/ \E e \in EAs : ea[e].task = i

\* No step makes a first trace of an intent but PostTask, which posts an
\* executing one.
LEMMA TraceStep ==
    ASSUME TypeOK, LedgerInv, [Next]_vars, NEW i \in Intents, Trace(i)'
    PROVE  Trace(i) \/ PostTask(i)
<1>0. OriginOf[i] \in Origins /\ i # NoIntent
  BY ConstantsAssumption
<1>1. CASE OwnStep
  <2>1. UNCHANGED <<claim, result, ea, broker>>
    BY <1>1, OwnStepShape
  <2>2. CASE \/ task' = task
             \/ \E o \in Origins : task' = [task EXCEPT ![o] = NoIntent]
    <3>1. task'[OriginOf[i]] \in {task[OriginOf[i]], NoIntent}
      BY <1>0, <2>2 DEF TypeOK
    <3> QED
      BY <1>0, <2>1, <3>1 DEF Trace
  <2>3. ASSUME NEW j \in Intents, PostTask(j), task' = [task EXCEPT ![OriginOf[j]] = j]
        PROVE  Trace(i) \/ PostTask(i)
    <3>1. task'[OriginOf[i]] = task[OriginOf[i]] \/ task'[OriginOf[i]] = j
      BY <1>0, <2>3 DEF TypeOK
    <3> QED
      BY <2>1, <2>3, <3>1 DEF Trace
  <2> QED
    BY <1>1, <2>2, <2>3, OwnStepShape
<1>2. ASSUME NEW e \in EAs, EaStep(e) \/ CrashEA(e)
      PROVE  Trace(i)
  <2> DEFINE t == ea[e].task
  <2>1. CASE /\ ea' = [ea EXCEPT ![e] = EaIdle] /\ UNCHANGED <<claim, result, broker>>
             /\ \/ task' = task
                \/ \E o \in Origins : task' = [task EXCEPT ![o] = NoIntent]
    <3>1. task'[OriginOf[i]] \in {task[OriginOf[i]], NoIntent}
      BY <1>0, <2>1 DEF TypeOK
    <3>2. \A f \in EAs : ea'[f].task \in {ea[f].task, NoIntent}
      BY <2>1 DEF TypeOK, EaIdle
    <3> QED
      BY <1>0, <2>1, <3>1, <3>2 DEF Trace
  <2>2. CASE PollLocalOnce(e) /\ UNCHANGED <<task, claim, result, broker>>
    <3>1. PICK o \in Origins : \A f \in EAs : ea'[f].task = ea[f].task \/ ea'[f].task = task[o]
      BY <2>2 DEF PollLocalOnce, TypeOK
    <3>2. task[o] = i => o = OriginOf[i]
      BY <1>0 DEF LedgerInv
    <3> QED
      BY <2>2, <3>1, <3>2 DEF Trace
  <2>3. CASE ea[e].pc # "idle" /\ UNCHANGED <<task, broker>>
             /\ (ReadFenceResult(e) \/ RefuseTask(e) \/ ClaimOrigin(e) \/ WriteResult(e))
    <3>1. \A f \in EAs : ea'[f].task = ea[f].task
      BY <2>3 DEF ReadFenceResult, RefuseTask, ClaimOrigin, WriteResult, EaGoTo, TypeOK
    <3>2. t \in Intents /\ OriginOf[t] \in Origins
      BY <2>3, EaTask
    <3>3. \A o \in Origins : claim'[o] \in {claim[o], t}
      BY <2>3, <3>2 DEF ReadFenceResult, RefuseTask, ClaimOrigin, WriteResult, Create, files, TypeOK
    <3>4. \A o \in Origins : result'[o].by \in {result[o].by, t}
      BY <2>3, <3>2 DEF ReadFenceResult, RefuseTask, ClaimOrigin, WriteResult, Create, files, TypeOK
    <3> QED
      BY <1>0, <2>3, <3>1, <3>3, <3>4 DEF Trace
  <2>4. CASE ExecuteTask(e) /\ UNCHANGED <<task, claim, result>>
    <3>1. \A f \in EAs : ea'[f].task = ea[f].task
      BY <2>4 DEF ExecuteTask, TypeOK
    <3>2. t \in Intents /\ OriginOf[t] \in Origins
      BY <2>4, EaTask DEF ExecuteTask, EaAt
    <3>3. \A o \in Origins : broker'[o].by \in {broker[o].by, t}
      BY <2>4, <3>2 DEF ExecuteTask, TypeOK
    <3> QED
      BY <1>0, <2>4, <3>1, <3>3 DEF Trace
  <2> QED
    BY <1>2, <2>1, <2>2, <2>3, <2>4, EaShape
<1>3. CASE UNCHANGED vars
  BY <1>3 DEF vars, files, Trace
<1> QED
  BY <1>1, <1>2, <1>3 DEF Next, OwnStep, Fault

\* Every step preserves HeldIntentLeavesNoTrace: an intent that is held after
\* the step was held before it, and so had no trace.
LEMMA HeldStep ==
    TypeOK /\ CtlInv /\ LedgerInv /\ HeldIntentLeavesNoTrace /\ [Next]_vars
        => HeldIntentLeavesNoTrace'
<1> SUFFICES ASSUME TypeOK, CtlInv, LedgerInv, HeldIntentLeavesNoTrace, [Next]_vars,
                    NEW i \in Intents, Held(i)'
             PROVE  ~ Trace(i)'
  BY DEF HeldIntentLeavesNoTrace, Trace
<1>1. Held(i)
  BY MoveStep DEF Move, Same, Held, Cancellable, CtlInv
<1>2. ~ Trace(i)
  BY <1>1 DEF HeldIntentLeavesNoTrace, Trace
<1>3. ~ PostTask(i)
  BY <1>1 DEF PostTask, Working, At, CtlInv, Held, SendSteps, Cancellable
<1> QED
  BY <1>2, <1>3, TraceStep

(***************************************************************************)
(* What is reported executed was accepted: the broker's answer to an       *)
(* origin never changes, since a second call would need a second claim.    *)
(***************************************************************************)
\* An answer of the broker to an origin is never replaced.
LEMMA BrokerStep ==
    ASSUME TypeOK, FenceInv, [Next]_vars, NEW o \in Origins, broker[o].calls > 0
    PROVE  broker'[o] = broker[o]
<1>1. CASE OwnStep
  BY <1>1, OwnStepShape
<1>2. ASSUME NEW e \in EAs, EaStep(e) \/ CrashEA(e)
      PROVE  broker'[o] = broker[o]
  <2>1. CASE ExecuteTask(e)
    <3>1. OriginOf[ea[e].task] \in Origins /\ broker[OriginOf[ea[e].task]].calls = 0
      BY <2>1, EaTask DEF ExecuteTask, EaAt, FenceInv
    <3>2. OriginOf[ea[e].task] # o
      BY <3>1
    <3> QED
      BY <2>1, <3>2 DEF ExecuteTask, TypeOK
  <2> QED
    BY <1>2, <2>1, EaShape DEF PollLocalOnce
<1>3. CASE UNCHANGED vars
  BY <1>3 DEF vars
<1> QED
  BY <1>1, <1>2, <1>3 DEF Next, OwnStep, Fault

\* Every step preserves ExecutedIsEarned.
LEMMA EarnedStep ==
    TypeOK /\ CtlInv /\ FenceInv /\ ExecutedIsEarned /\ [Next]_vars => ExecutedIsEarned'
<1> SUFFICES ASSUME TypeOK, CtlInv, FenceInv, ExecutedIsEarned, [Next]_vars,
                    NEW i \in Intents, status'[i] = "executed"
             PROVE  LET b == broker'[OriginOf[i]] IN
                    b.calls > 0 /\ b.out = "done" /\ SameTask(b.by, i)
  BY DEF ExecutedIsEarned, SameTask
<1> DEFINE o == OriginOf[i]
<1>1. o \in Origins
  BY ConstantsAssumption
<1>2. CASE status[i] = "executed"
  BY <1>1, <1>2, BrokerStep DEF ExecutedIsEarned
<1>3. CASE status[i] # "executed"
  <2>1. Answered(i) /\ broker' = broker
    BY <1>3, MoveStep DEF Move, Same, Cancellable
  <2>2. broker[o].calls = 1 /\ broker[o].by = result[o].by /\ broker[o].out = "done"
    BY <1>1, <2>1 DEF Answered, FenceInv
  <2> QED
    BY <2>1, <2>2 DEF Answered
<1> QED
  BY <1>2, <1>3

-----------------------------------------------------------------------------
(* The invariant holds initially and every step preserves it. *)

\* The invariant holds initially.
LEMMA InvInit == Init => IInv
<1> SUFFICES ASSUME Init PROVE IInv
  OBVIOUS
<1>1. TypeOK
  BY ConstantsAssumption
  DEF Init, TypeOK, Statuses, Details, Phases, CtlSteps, LoopSteps, Results, NoResult, EaSteps,
      EaIdle, Outcomes
<1>2. CtlInv
  BY DEF Init, CtlInv, At, SendSteps, ReconcileSteps, LoopSteps
<1>3. LedgerInv
  BY DEF Init, LedgerInv, NoResult
<1>4. FenceInv
  BY DEF Init, FenceInv, EaAt, EaIdle, NoResult
<1>5. HeldIntentLeavesNoTrace
  BY ConstantsAssumption DEF Init, HeldIntentLeavesNoTrace, NoResult, EaIdle
<1>6. ExecutedIsEarned
  BY DEF Init, ExecutedIsEarned
<1> QED
  BY <1>1, <1>2, <1>3, <1>4, <1>5, <1>6 DEF IInv

\* Every step preserves the invariant.
LEMMA InvStep == IInv /\ [Next]_vars => IInv'
  BY TypeStep, CtlStep, LedgerStep, FenceStep, HeldStep, EarnedStep DEF IInv

\* The conjunction of everything the safety properties rest on is invariant
\* under every step of the controller, the mailbox, the EA and the faults.
THEOREM Invariance == Spec => []IInv
  BY InvInit, InvStep, PTL DEF Spec

\* Every variable keeps its type: the state file, the mailbox and the program
\* counters of both programs.
THEOREM TypeCorrect == Spec => []TypeOK
<1>1. IInv => TypeOK
  BY DEF IInv
<1> QED
  BY <1>1, Invariance, PTL

\* ExecuteMutationWithOriginFence asks the broker at most once per origin, for
\* any number of charts, crashes and re-created intents.
THEOREM AtMostOnce == Spec => []AtMostOneAttempt
<1>1. IInv => AtMostOneAttempt
  BY DEF IInv, FenceInv, AtMostOneAttempt
<1> QED
  BY <1>1, Invariance, PTL

\* The controller says "executed" only of a request the broker accepted for
\* the same origin and digest.
THEOREM ExecutedEarned == Spec => []ExecutedIsEarned
<1>1. IInv => ExecutedIsEarned
  BY DEF IInv
<1> QED
  BY <1>1, Invariance, PTL

\* An intent that is not approved, not due, cancelled, expired or refused is
\* nowhere in the mailbox, in an EA or at the broker.
THEOREM HeldNoTrace == Spec => []HeldIntentLeavesNoTrace
<1>1. IInv => HeldIntentLeavesNoTrace
  BY DEF IInv
<1> QED
  BY <1>1, Invariance, PTL

\* No claim and no result file is ever replaced or removed.
THEOREM WriteOnce == Spec => EvidenceIsWriteOnce
<1> DEFINE Kept == \A o \in Origins : /\ claim[o]  # NoIntent => claim'[o] = claim[o]
                                      /\ result[o] # NoResult => result'[o] = result[o]
<1>1. ASSUME TypeOK, [Next]_vars PROVE Kept
  <2>1. CASE OwnStep
    BY <1>1, <2>1, OwnStepShape
  <2>2. ASSUME NEW e \in EAs, EaStep(e) \/ CrashEA(e) PROVE Kept
    <3>1. CASE ReadFenceResult(e) \/ RefuseTask(e) \/ ClaimOrigin(e) \/ WriteResult(e)
      <4> DEFINE t == OriginOf[ea[e].task]
      <4>1. t \in Origins
        BY <1>1, <3>1, EaTask DEF ReadFenceResult, RefuseTask, ClaimOrigin, WriteResult, EaAt
      <4>2. \A o \in Origins : claim[o] # NoIntent => claim'[o] = claim[o]
        BY <1>1, <3>1, <4>1 DEF ReadFenceResult, RefuseTask, ClaimOrigin, WriteResult, Create,
                                files, TypeOK
      <4>3. \A o \in Origins : result[o] # NoResult => result'[o] = result[o]
        BY <1>1, <3>1, <4>1 DEF ReadFenceResult, RefuseTask, ClaimOrigin, WriteResult, Create,
                                files, TypeOK
      <4> QED
        BY <4>2, <4>3
    <3>2. CASE UNCHANGED <<claim, result>>
      BY <3>2
    <3> QED
      BY <1>1, <2>2, <3>1, <3>2, EaShape
  <2>3. CASE UNCHANGED vars
    BY <2>3 DEF vars, files
  <2> QED
    BY <1>1, <2>1, <2>2, <2>3 DEF Next, OwnStep, Fault
<1>2. TypeOK /\ [Next]_vars => [Kept]_vars
  BY <1>1
<1> QED
  BY <1>2, TypeCorrect, PTL DEF Spec, EvidenceIsWriteOnce

\* Nothing that was dispatched, cancelled or expired is armed again, and no
\* final report changes but by the loss of the state file.
THEOREM NoReplayHolds == Spec => NoReplay
<1> DEFINE Kept == \A i \in Intents :
                     /\ status[i] \in Final => status'[i] \in {status[i], "lost"}
                     /\ status[i] \in Dispatched \cup {"lost"} =>
                           status'[i] \notin {"new"} \cup Cancellable
<1>1. TypeOK /\ CtlInv /\ [Next]_vars => Kept
  BY MoveStep DEF Move, Same, Final, Dispatched, Cancellable
<1>2. IInv /\ [Next]_vars => [Kept]_vars
  BY <1>1 DEF IInv
<1> QED
  BY <1>2, Invariance, PTL DEF Spec, NoReplay

-----------------------------------------------------------------------------
(***************************************************************************)
(* The refinement of BrokerContract.                                       *)
(***************************************************************************)
Rep(i) == IF detail[i] = "refused" THEN "dropped" ELSE Abs(status[i])

\* What a step may do to the report of one intent.
RepMove(i) ==
    \/ Rep(i)' = Rep(i)
    \/ Rep(i) = "held" /\ Rep(i)' \in {"dropped", "sent", "unknown"}
    \/ Rep(i) \in {"sent", "unknown"} /\ Rep(i)' = "failed"
    \/ Rep(i) = "sent" /\ Rep(i)' = "unknown"
    \/ Rep(i) \in {"sent", "unknown"} /\ Rep(i)' = "executed" /\ Answered(i)

\* The abstract reports of the concrete statuses.
LEMMA AbsIs ==
    /\ \A s \in {"new", "approval_required", "scheduled", "approved"} : Abs(s) = "held"
    /\ \A s \in {"cancelled", "expired"} : Abs(s) = "dropped"
    /\ Abs("executing") = "sent" /\ Abs("uncertain") = "unknown"
    /\ Abs("executed") = "executed" /\ Abs("failed") = "failed" /\ Abs("lost") = "lost"
  BY DEF Abs, Cancellable

\* What a move of an intent is, in the words of the contract.
LEMMA RepMoves ==
    ASSUME CtlInv, CtlInv', NEW i \in Intents, Move(i), status'[i] # "lost"
    PROVE  RepMove(i)
<1>1. /\ detail[i] = "refused" => status[i] = "failed"
      /\ detail'[i] = "refused" => status'[i] = "failed"
  BY DEF CtlInv
<1>2. CASE Same(i)
  BY <1>2 DEF RepMove, Rep, Same
<1>3. CASE status[i] = "new" /\ status'[i] = "new"
  BY <1>1, <1>3, AbsIs DEF RepMove, Rep
<1>4. CASE /\ detail'[i] = detail[i]
           /\ \/ status[i] = "new" /\ status'[i] \in {"scheduled", "approval_required"}
              \/ status[i] = "approval_required" /\ status'[i] = "approved"
              \/ status[i] \in Cancellable /\ status'[i] \in {"cancelled", "expired"}
  BY <1>1, <1>4, AbsIs DEF RepMove, Rep, Cancellable
<1>5. CASE /\ status[i] \in {"scheduled", "approved"}
           /\ \/ status'[i] = "failed" /\ detail'[i] = "refused"
              \/ status'[i] \in {"executing", "uncertain"} /\ detail'[i] = "none"
  BY <1>1, <1>5, AbsIs DEF RepMove, Rep
<1>6. CASE /\ status[i] \in {"executing", "uncertain"}
           /\ \/ status'[i] \in {"failed", "uncertain"} /\ detail'[i] # "refused"
              \/ status'[i] = "executed" /\ detail'[i] = "answered" /\ Answered(i)
  BY <1>1, <1>6, AbsIs DEF RepMove, Rep
<1> QED
  BY <1>2, <1>3, <1>4, <1>5, <1>6 DEF Move

\* A step on one intent alone, away from the broker, is a step of the contract.
LEMMA OneIntent ==
    ASSUME IInv, CtlInv', NEW i \in Intents, Move(i), status'[i] # "lost",
           \A j \in Intents : j # i => Same(j), broker' = broker
    PROVE  [Contract!Next]_(Contract!cvars)
<1>1. AbsAttempt' = AbsAttempt
  BY DEF AbsAttempt
<1>2. \A j \in Intents : j # i => Rep(j)' = Rep(j)
  BY DEF Same, Rep
<1>3. AbsReport = [j \in Intents |-> Rep(j)] /\ AbsReport' = [j \in Intents |-> Rep(j)']
  BY DEF AbsReport, Rep
<1>4. RepMove(i)
  BY RepMoves DEF IInv
<1>5. CASE Rep(i)' = Rep(i)
  <2>1. AbsReport' = AbsReport
    BY <1>2, <1>3, <1>5
  <2> QED
    BY <1>1, <2>1 DEF Contract!cvars
<1>6. CASE Rep(i)' # Rep(i)
  <2>1. Contract!Becomes({i}, Rep(i)') /\ AbsReport[i] = Rep(i)
    BY <1>2, <1>3 DEF Contract!Becomes
  <2>2. CASE Rep(i) = "held" /\ Rep(i)' = "dropped"
    <3>1. Contract!Drop({i})
      BY <1>1, <2>1, <2>2 DEF Contract!Drop
    <3> QED
      BY <3>1 DEF Contract!Next
  <2>3. CASE Rep(i) = "held" /\ Rep(i)' = "sent"
    BY <1>1, <2>1, <2>3 DEF Contract!Send, Contract!Next
  <2>4. CASE Rep(i) \in {"held", "sent"} /\ Rep(i)' = "unknown"
    BY <1>1, <2>1, <2>4 DEF Contract!Doubt, Contract!Next
  <2>5. CASE Rep(i) \in {"sent", "unknown"} /\ Rep(i)' = "failed"
    BY <1>1, <2>1, <2>5 DEF Contract!Fail, Contract!Next
  <2>6. CASE Rep(i) \in {"sent", "unknown"} /\ Rep(i)' = "executed" /\ Answered(i)
    <3> DEFINE o == OriginOf[i]
    <3>1. o \in Origins
      BY ConstantsAssumption
    <3>2. broker[o].calls = 1 /\ broker[o].by = result[o].by /\ broker[o].out = "done"
      BY <2>6, <3>1 DEF IInv, FenceInv, Answered
    <3>3. AbsAttempt[o] = [by |-> result[o].by, out |-> "done"]
      BY <3>1, <3>2 DEF AbsAttempt
    <3>4. Contract!Accepted(i)
      BY <2>6, <3>3 DEF Contract!Accepted, Contract!Nothing, Contract!Same, Answered, SameTask
    <3> QED
      BY <1>1, <2>1, <2>6, <3>4 DEF Contract!Confirm, Contract!Next
  <2> QED
    BY <1>4, <1>6, <2>2, <2>3, <2>4, <2>5, <2>6 DEF RepMove
<1> QED
  BY <1>5, <1>6

\* Every step of the implementation is a step of the contract.
LEMMA ContractStep == IInv /\ IInv' /\ [Next]_vars => [Contract!Next]_(Contract!cvars)
<1> SUFFICES ASSUME IInv, IInv', [Next]_vars PROVE [Contract!Next]_(Contract!cvars)
  OBVIOUS
<1>0. TypeOK /\ CtlInv /\ CtlInv' /\ \A i \in Intents : Move(i)
  BY MoveStep DEF IInv
<1>1. AbsReport = [j \in Intents |-> Rep(j)] /\ AbsReport' = [j \in Intents |-> Rep(j)']
  BY DEF AbsReport, Rep
<1>2. ASSUME UNCHANGED <<status, detail, broker>>
      PROVE  [Contract!Next]_(Contract!cvars)
  BY <1>2 DEF AbsReport, AbsAttempt, Contract!cvars
<1>3. CASE Restart \/ DispatchDueIntents
  <2> DEFINE S == {i \in Intents : status'[i] # status[i]}
  <2>1. UNCHANGED <<detail, broker>>
    BY <1>3 DEF Restart, DispatchDueIntents
  <2>2. \A i \in S : status[i] = "scheduled" /\ status'[i] \in {"cancelled", "expired"}
    BY <1>3 DEF Restart, DispatchDueIntents
  <2>3. \A i \in S : Rep(i) = "held" /\ Rep(i)' = "dropped"
    BY <1>0, <2>1, <2>2, AbsIs DEF Rep, CtlInv
  <2>4. \A i \in Intents : i \notin S => Rep(i)' = Rep(i)
    BY <2>1 DEF Rep
  <2>5. AbsReport' = [i \in Intents |-> IF i \in S THEN "dropped" ELSE AbsReport[i]]
    BY <1>1, <2>3, <2>4
  <2>6. AbsAttempt' = AbsAttempt
    BY <2>1 DEF AbsAttempt
  <2>7. Contract!Drop(S)
    BY <1>1, <2>3, <2>5, <2>6 DEF Contract!Drop, Contract!Becomes
  <2> QED
    BY <2>7 DEF Contract!Next
<1>4. CASE LoseState
  <2> DEFINE S == {i \in Intents : status[i] # "new"}
  <2>1. /\ \A i \in Intents : detail'[i] = "none"
        /\ \A i \in Intents : status'[i] = IF i \in S THEN "lost" ELSE "new"
        /\ broker' = broker
    BY <1>4 DEF LoseState
  <2>2. \A i \in S : Rep(i)' = "lost"
    BY <2>1, AbsIs DEF Rep
  <2>3. \A i \in Intents : i \notin S => Rep(i)' = Rep(i)
    BY <1>0, <2>1, AbsIs DEF Rep, CtlInv
  <2>4. AbsReport' = [i \in Intents |-> IF i \in S THEN "lost" ELSE AbsReport[i]]
    BY <1>1, <2>2, <2>3
  <2>5. AbsAttempt' = AbsAttempt
    BY <2>1 DEF AbsAttempt
  <2>6. Contract!Forget(S)
    BY <2>4, <2>5 DEF Contract!Forget, Contract!Becomes
  <2> QED
    BY <2>6 DEF Contract!Next
<1>5. ASSUME NEW i \in Intents,
             \/ RefuseIntent(i) \/ AccountUnavailable(i) \/ StartExecuting(i) \/ StartNotSaved(i)
             \/ ReadLedgerResult(i) \/ ReadLedgerClaim(i) \/ PostTask(i) \/ TaskNotPosted(i)
             \/ WaitAnswered(i) \/ WaitTimeout(i) \/ ReadLateClaim(i) \/ RetractTask(i)
             \/ ReconcileResult(i) \/ ReconcileClaim(i) \/ ReconcileTask(i)
             \/ CreateIntent(i) \/ ApproveLocal(i) \/ DeleteLocal(i)
      PROVE  [Contract!Next]_(Contract!cvars)
  <2>1. broker' = broker
    BY <1>5 DEF RefuseIntent, AccountUnavailable, StartExecuting, StartNotSaved, ReadLedgerResult,
                ReadLedgerClaim, PostTask, TaskNotPosted, WaitAnswered, WaitTimeout, ReadLateClaim,
                OnClaim, RetractTask, ReconcileResult, ReconcileClaim, ReconcileTask, CreateIntent,
                ApproveLocal, DeleteLocal
  <2>2. \/ UNCHANGED <<status, detail>>
        \/ \E s \in Statuses \ {"lost"}, why \in Details : Save(i, s, why)
        \/ /\ detail' = detail
           /\ \E s \in Statuses \ {"lost"} : status' = [status EXCEPT ![i] = s]
    <3>1. \A r \in Results : Report(r.out) \in Statuses \ {"lost"}
      BY ReportIs DEF Statuses, Dispatched
    <3>2. result[OriginOf[i]] \in Results /\ NoResult \in Results
      BY <1>0, ConstantsAssumption DEF TypeOK, Results
    <3>3. \A s, why : Settle(i, s, why) => Save(i, s, why)
      BY DEF Settle
    <3>4. {"executing", "failed", "uncertain", "approved", "scheduled", "approval_required",
           "cancelled"} \subseteq Statuses \ {"lost"}
      BY Names
    <3>5. CASE ReadLedgerResult(i) \/ WaitAnswered(i) \/ ReconcileResult(i)
      BY <3>1, <3>2, <3>3, <3>4, <3>5, Names DEF ReadLedgerResult, WaitAnswered, ReconcileResult, Reads
    <3>6. CASE \/ RefuseIntent(i) \/ AccountUnavailable(i) \/ StartExecuting(i)
               \/ StartNotSaved(i) \/ ReadLedgerClaim(i) \/ PostTask(i) \/ TaskNotPosted(i)
               \/ WaitTimeout(i) \/ ReadLateClaim(i) \/ RetractTask(i)
      BY <3>3, <3>4, <3>6, Names
      DEF RefuseIntent, AccountUnavailable, StartExecuting, StartNotSaved, ReadLedgerClaim,
          PostTask, TaskNotPosted, WaitTimeout, ReadLateClaim, OnClaim, RetractTask
    <3>7. CASE ReconcileClaim(i) \/ ReconcileTask(i)
      BY <3>3, <3>4, <3>7, Names DEF ReconcileClaim, ReconcileTask
    <3>8. CASE CreateIntent(i) \/ ApproveLocal(i) \/ DeleteLocal(i)
      BY <3>4, <3>8 DEF CreateIntent, ApproveLocal, DeleteLocal
    <3> QED
      BY <1>5, <3>5, <3>6, <3>7, <3>8
  <2>3. CASE UNCHANGED <<status, detail>>
    BY <1>2, <2>1, <2>3
  <2>4. CASE \E s \in Statuses \ {"lost"}, why \in Details : Save(i, s, why)
    <3>1. status'[i] # "lost" /\ \A j \in Intents : j # i => Same(j)
      BY <1>0, <2>4, SaveShape
    <3> QED
      BY <1>0, <2>1, <3>1, OneIntent
  <2>5. CASE /\ detail' = detail
             /\ \E s \in Statuses \ {"lost"} : status' = [status EXCEPT ![i] = s]
    <3>1. status'[i] # "lost" /\ \A j \in Intents : j # i => Same(j)
      BY <1>0, <2>5 DEF Same, TypeOK
    <3> QED
      BY <1>0, <2>1, <3>1, OneIntent
  <2> QED
    BY <2>2, <2>3, <2>4, <2>5
<1>6. ASSUME NEW e \in EAs, ExecuteTask(e)
      PROVE  [Contract!Next]_(Contract!cvars)
  <2> DEFINE i == ea[e].task
             o == OriginOf[i]
  <2>1. i \in Intents /\ o \in Origins /\ broker[o].calls = 0
    BY <1>0, <1>6, EaTask DEF ExecuteTask, EaAt, IInv, FenceInv
  <2>2. PICK out \in Outcomes :
          broker' = [broker EXCEPT ![o] = [calls |-> broker[o].calls + 1, by |-> i, out |-> out]]
    BY <1>6 DEF ExecuteTask
  <2>3. AbsReport' = AbsReport
    BY <1>6 DEF ExecuteTask, EaRest, AbsReport
  <2>4. AbsAttempt' = [AbsAttempt EXCEPT ![o] = [by |-> i, out |-> out]]
    <3>1. broker' = [broker EXCEPT ![o] = [calls |-> 1, by |-> i, out |-> out]]
      <4>1. broker[o].calls + 1 = 1
        BY <2>1
      <4> QED
        BY <2>2, <4>1
    <3>2. broker'[o] = [calls |-> 1, by |-> i, out |-> out]
      BY <1>0, <2>1, <3>1 DEF TypeOK
    <3>3. \A p \in Origins : p # o => broker'[p] = broker[p]
      BY <1>0, <3>1 DEF TypeOK
    <3> DEFINE G == [p \in Origins |-> IF broker'[p].calls = 0
                                     THEN [by |-> "nobody", out |-> "failed"]
                                     ELSE [by |-> broker'[p].by, out |-> broker'[p].out]]
    <3>4. G[o] = [by |-> i, out |-> out]
      BY <2>1, <3>2
    <3>5. \A p \in Origins : p # o => G[p] = AbsAttempt[p]
      BY <3>3 DEF AbsAttempt
    <3>6. G = [AbsAttempt EXCEPT ![o] = [by |-> i, out |-> out]]
      <4> HIDE DEF G
      <4>1. DOMAIN AbsAttempt = Origins /\ AbsAttempt = [p \in Origins |-> AbsAttempt[p]]
        BY DEF AbsAttempt
      <4>2. G = [p \in Origins |-> G[p]]
        BY DEF G
      <4> QED
        BY <3>4, <3>5, <4>1, <4>2
    <3>7. AbsAttempt' = G
      BY DEF AbsAttempt
    <3> QED
      BY <3>6, <3>7
  <2>5. AbsAttempt[o] = Contract!Nothing
    BY <2>1 DEF AbsAttempt, Contract!Nothing
  <2>6. ~ Held(i)
    <3>1. \A j \in Intents : Held(j) => ea[e].task # j
      BY DEF IInv, HeldIntentLeavesNoTrace
    <3> QED
      BY <2>1, <3>1
  <2>7. AbsReport[i] \notin {"held", "dropped"}
    BY <1>0, <2>1, <2>6, AbsIs DEF Held, AbsReport, TypeOK, Statuses, Dispatched, Cancellable
  <2>8. Contract!Attempt(i)
    BY <2>2, <2>3, <2>4, <2>5, <2>7 DEF Contract!Attempt, Outcomes, Contract!Outcomes
  <2> QED
    BY <2>1, <2>8 DEF Contract!Next
<1>7. ASSUME NEW e \in EAs, EaStep(e) \/ CrashEA(e), ~ ExecuteTask(e)
      PROVE  [Contract!Next]_(Contract!cvars)
  BY <1>2, <1>7 DEF EaStep, PollLocalOnce, RefuseTask, ReadFenceResult, ClaimOrigin, WriteResult,
                    DeleteTask, CrashEA, EaRest
<1>8. CASE \/ NextIteration \/ VisitDue \/ VisitUnsettled \/ CrashController
           \/ \E i \in Intents : Tick(i)
           \/ UNCHANGED vars
  BY <1>2, <1>8 DEF NextIteration, VisitDue, VisitUnsettled, Visit, CrashController, Tick, vars
<1> QED
  BY <1>3, <1>4, <1>5, <1>6, <1>7, <1>8 DEF Next, ControllerStep, OperatorStep, Fault

\* The controller, the mailbox and the EA together implement BrokerContract.
THEOREM ContractKept == Spec => KeepsContract
<1>1. Init => Contract!Init
  BY AbsIs DEF Init, Contract!Init, AbsReport, AbsAttempt, Contract!Nothing
<1> QED
  BY <1>1, ContractStep, Invariance, PTL DEF Spec, KeepsContract, Contract!Spec
=============================================================================

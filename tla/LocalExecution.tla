--------------------------- MODULE LocalExecution ---------------------------
(***************************************************************************)
(* The PC-local execution path: the controller of                          *)
(* local-failover/oak-local-telegram-failover.mjs, the FILE_COMMON mailbox *)
(* and the MetaTrader Expert Advisor mt5/OAK_Cloud_Manager_EA.mq5.         *)
(*                                                                         *)
(* The two programs share no lock and no connection.  They meet in a       *)
(* directory where every mutation has an origin (a Telegram line and an    *)
(* account) and every origin has a ledger of three files: task_, claim_    *)
(* and result_.  The controller writes and retracts tasks and reads the    *)
(* other two files, one read at a time; the EA reads tasks, creates the    *)
(* claim and the result with a move that never replaces a file, and sends  *)
(* the broker request between the two.  Either side may stop at any point. *)
(*                                                                         *)
(* An intent is saved with every change of status before the next await,   *)
(* so the status map is the durable state file and only `ctl' and `todo'   *)
(* are memory.  The entries of the MT5 window adapter take another path    *)
(* through the same mailbox, which is not part of this module.             *)
(***************************************************************************)
EXTENDS Naturals, FiniteSets

CONSTANTS
    Intents,    \* the intents an operator may ever create
    Origins,    \* canonical mutation origins, one ledger each
    OriginOf,   \* originKey of an intent
    DigestOf,   \* taskDigest of an intent
    Timed,      \* intents whose command carries a dueAt
    Closes,     \* intents of kind "close"
    Refusable,  \* intents whose envelope the EA's validation refuses
    EAs,        \* charts that run the EA on the account
    NoIntent,   \* the absence of an intent in a file or a program counter
    IoFaults,   \* may a file read come back empty, or a file write fail?
    MaxCrashes  \* bound on the crashes of a behaviour

ASSUME ConstantsAssumption ==
    /\ OriginOf \in [Intents -> Origins]
    /\ Timed \subseteq Intents
    /\ Closes \subseteq Intents
    /\ Refusable \subseteq Intents
    /\ NoIntent \notin Intents
    /\ IoFaults \in BOOLEAN
    /\ MaxCrashes \in Nat

VARIABLES
    status,   \* status of every intent in the state file
    detail,   \* why an intent failed, when a property tells the reasons apart
    due,      \* where the clock stands with respect to an intent's dueAt
    ctl,      \* the controller: the step it is at and the intent it works on
    todo,     \* the intents the current loop of the controller has yet to visit
    task,     \* ledger -> intent whose task file is there
    claim,    \* ledger -> intent whose claim file is there
    result,   \* ledger -> result file
    ea,       \* each EA: the step it is at, the task it read, the broker's answer
    broker,   \* ledger -> what the broker was asked (never read by the code)
    crashes   \* crashes so far

files == <<task, claim, result>>
vars  == <<status, detail, due, ctl, todo, files, ea, broker, crashes>>

-----------------------------------------------------------------------------
(* Values *)

Cancellable == {"approval_required", "scheduled", "approved"}
Dispatched  == {"executing", "executed", "failed", "uncertain"}
Statuses    == {"new", "cancelled", "expired", "lost"} \cup Cancellable \cup Dispatched

Details  == {"none", "refused", "error", "unclaimed", "no_evidence", "answered"}
Phases   == {"none", "future", "now", "late"}
Outcomes == {"done", "failed", "uncertain"}

NoResult  == [by |-> NoIntent, out |-> "failed"]
Results   == [by : Intents, out : Outcomes] \cup {NoResult}

\* Steps of executeIntent, of defaultMailboxDispatch and of reconcileIntentEvidence.
SendSteps      == {"send", "sendClaim", "post", "wait", "lateClaim", "retract"}
ReconcileSteps == {"recResult", "recClaim", "recTask"}
LoopSteps      == {"reconcile", "dispatch"}
CtlSteps       == SendSteps \cup ReconcileSteps \cup LoopSteps \cup {"down", "begin"}

EaSteps == {"idle", "refuse", "fence", "claim", "broker", "result", "delete"}
EaIdle  == [pc |-> "idle", task |-> NoIntent, out |-> "failed"]

\* Evidence matches a task when origin and digest agree.  The origin always
\* does: the ledger's file name is its hash.
SameTask(i, j) == OriginOf[i] = OriginOf[j] /\ DigestOf[i] = DigestOf[j]

\* What a read of a file returns.
Reads(content, absent) == IF IoFaults THEN {content, absent} ELSE {content}

At(step) == ctl.pc = step
GoTo(step, i) == ctl' = [ctl EXCEPT !.pc = step, !.i = i]

\* The status and the reason the controller saves for intent i.
Save(i, s, why) == /\ status' = [status EXCEPT ![i] = s]
                   /\ detail' = [detail EXCEPT ![i] = why]

\* Back to the loop the controller was in.
Return == ctl' = [ctl EXCEPT !.pc = ctl.loop, !.i = NoIntent, !.approving = FALSE]

Settle(i, s, why) == Save(i, s, why) /\ Return

Report(out) == IF out = "done" THEN "executed" ELSE out

-----------------------------------------------------------------------------
TypeOK ==
    /\ status \in [Intents -> Statuses]
    /\ detail \in [Intents -> Details]
    /\ due    \in [Intents -> Phases]
    /\ ctl    \in [pc : CtlSteps, i : Intents \cup {NoIntent},
                   loop : LoopSteps, approving : BOOLEAN]
    /\ todo   \subseteq Intents
    /\ task   \in [Origins -> Intents \cup {NoIntent}]
    /\ claim  \in [Origins -> Intents \cup {NoIntent}]
    /\ result \in [Origins -> Results]
    /\ ea     \in [EAs -> [pc : EaSteps, task : Intents \cup {NoIntent}, out : Outcomes]]
    /\ \A e \in EAs : ea[e].pc = "idle" <=> ea[e].task = NoIntent
    /\ broker \in [Origins -> [calls : Nat, by : Intents \cup {NoIntent}, out : Outcomes]]
    /\ crashes \in 0..MaxCrashes

Init ==
    /\ status = [i \in Intents |-> "new"]
    /\ detail = [i \in Intents |-> "none"]
    /\ due    = [i \in Intents |-> IF i \in Timed THEN "future" ELSE "none"]
    /\ ctl    = [pc |-> "down", i |-> NoIntent, loop |-> "reconcile", approving |-> FALSE]
    /\ todo   = {}
    /\ task   = [o \in Origins |-> NoIntent]
    /\ claim  = [o \in Origins |-> NoIntent]
    /\ result = [o \in Origins |-> NoResult]
    /\ ea     = [e \in EAs |-> EaIdle]
    /\ broker = [o \in Origins |-> [calls |-> 0, by |-> NoIntent, out |-> "failed"]]
    /\ crashes = 0

-----------------------------------------------------------------------------
(* The controller's loop: reconcile, dispatch what is due, serve commands. *)

UnsettledExecutingOnly == {i \in Intents : status[i] = "executing"}

Unsettled == {i \in Intents : status[i] \in {"executing", "uncertain"}}

\* Mutants, here and below: a plausible bug in the definition that follows.
RestartRearms ==
    /\ At("down")
    /\ status' = [i \in Intents |-> IF status[i] = "executing" THEN "approved" ELSE status[i]]
    /\ todo' = {}
    /\ ctl' = [ctl EXCEPT !.pc = "reconcile", !.loop = "reconcile"]
    /\ UNCHANGED <<detail, due, files, ea, broker, crashes>>

\* main: startup cancels the timed closes, then reconciles.
Restart ==
    /\ At("down")
    /\ status' = [i \in Intents |-> IF i \in Closes /\ status[i] = "scheduled"
                                    THEN "cancelled" ELSE status[i]]
    /\ todo' = Unsettled
    /\ ctl' = [ctl EXCEPT !.pc = "reconcile", !.loop = "reconcile"]
    /\ UNCHANGED <<detail, due, files, ea, broker, crashes>>

DispatchNeverExpires ==
    /\ At("reconcile")
    /\ todo = {}
    /\ todo' = {i \in Intents : \/ status[i] = "approved"
                                \/ status[i] = "scheduled" /\ due[i] = "now"}
    /\ ctl' = [ctl EXCEPT !.pc = "dispatch", !.loop = "dispatch"]
    /\ UNCHANGED <<status, detail, due, files, ea, broker, crashes>>

\* dispatchDueIntents: one reading of the clock expires the late intents and
\* fixes the list of those to execute.
DispatchDueIntents ==
    LET Late  == {i \in Intents : status[i] = "scheduled" /\ due[i] = "late"}
        Ready == {i \in Intents : \/ status[i] = "approved"
                                  \/ status[i] = "scheduled" /\ due[i] = "now"}
    IN  /\ At("reconcile")
        /\ todo = {}
        /\ status' = [i \in Intents |-> IF i \in Late THEN "expired" ELSE status[i]]
        /\ todo' = Ready
        /\ ctl' = [ctl EXCEPT !.pc = "dispatch", !.loop = "dispatch"]
        /\ UNCHANGED <<detail, due, files, ea, broker, crashes>>

NextIteration ==
    /\ At("dispatch")
    /\ todo = {}
    /\ todo' = Unsettled
    /\ ctl' = [ctl EXCEPT !.pc = "reconcile", !.loop = "reconcile"]
    /\ UNCHANGED <<status, detail, due, files, ea, broker, crashes>>

Visit(loop, step) ==
    \E i \in todo :
        /\ At(loop)
        /\ todo' = todo \ {i}
        /\ GoTo(step, i)
        /\ UNCHANGED <<status, detail, due, files, ea, broker, crashes>>

VisitDue       == Visit("dispatch", "begin")
VisitUnsettled == Visit("reconcile", "recResult")

\* Telegram lines are handled at the end of an iteration.
Serving == At("dispatch") /\ todo = {}

\* createIntent.  The command record of a line is durable, so a line that is
\* processed again has lost its state file.
CreateIntent(i) ==
    /\ Serving
    /\ status[i] = "new"
    /\ \A j \in Intents : OriginOf[j] = OriginOf[i] => status[j] \in {"new", "lost"}
    /\ status' = [status EXCEPT ![i] = IF due[i] = "future" THEN "scheduled"
                                                            ELSE "approval_required"]
    /\ UNCHANGED <<detail, due, ctl, todo, files, ea, broker, crashes>>

\* approveLocal: executed before the next line is read.  (An intent that waits
\* for approval has no dueAt ahead of it, so approval never arms it.)
ApproveLocal(i) ==
    /\ Serving
    /\ status[i] = "approval_required"
    /\ status' = [status EXCEPT ![i] = "approved"]
    /\ ctl' = [ctl EXCEPT !.pc = "begin", !.i = i, !.approving = TRUE]
    /\ UNCHANGED <<detail, due, todo, files, ea, broker, crashes>>

DeleteLocalUncertain(i) ==
    /\ Serving
    /\ status[i] \in Cancellable \cup {"uncertain"}
    /\ status' = [status EXCEPT ![i] = "cancelled"]
    /\ UNCHANGED <<detail, due, ctl, todo, files, ea, broker, crashes>>

\* deleteLocal
DeleteLocal(i) ==
    /\ Serving
    /\ status[i] \in Cancellable
    /\ status' = [status EXCEPT ![i] = "cancelled"]
    /\ UNCHANGED <<detail, due, ctl, todo, files, ea, broker, crashes>>

-----------------------------------------------------------------------------
(* executeIntent and defaultMailboxDispatch: one step per await. *)

Working(step, i) == At(step) /\ ctl.i = i

\* The heartbeat names another account, or an EA that is too old.
RefuseIntent(i) ==
    /\ Working("begin", i)
    /\ Settle(i, "failed", "refused")
    /\ UNCHANGED <<due, todo, files, ea, broker, crashes>>

\* No fresh heartbeat: selectAccount throws.  The pass over due intents turns
\* that into a failure; approveLocal leaves the intent approved for the next pass.
AccountUnavailable(i) ==
    /\ Working("begin", i)
    /\ IF ctl.approving THEN Return /\ UNCHANGED <<status, detail>>
                        ELSE Settle(i, "failed", "refused")
    /\ UNCHANGED <<due, todo, files, ea, broker, crashes>>

\* The intent is saved as executing before anything leaves the controller.
StartExecuting(i) ==
    /\ Working("begin", i)
    /\ Save(i, "executing", "none")
    /\ GoTo("send", i)
    /\ UNCHANGED <<due, todo, files, ea, broker, crashes>>

\* That save fails: the pass calls the intent uncertain; an approval leaves it
\* executing, for the next reconciliation.
StartNotSaved(i) ==
    /\ IoFaults
    /\ Working("begin", i)
    /\ Settle(i, IF ctl.approving THEN "executing" ELSE "uncertain", "none")
    /\ UNCHANGED <<due, todo, files, ea, broker, crashes>>

ReadLedgerResult(i) ==
    LET o == OriginOf[i] IN
    /\ Working("send", i)
    /\ \E seen \in Reads(result[o], NoResult) :
          \/ /\ seen = NoResult
             /\ GoTo("sendClaim", i)
             /\ UNCHANGED <<status, detail>>
          \/ /\ seen # NoResult
             /\ SameTask(seen.by, i)
             /\ Settle(i, Report(seen.out), "answered")
          \/ /\ seen # NoResult
             /\ ~ SameTask(seen.by, i)
             /\ Settle(i, "failed", "error")
    /\ UNCHANGED <<due, todo, files, ea, broker, crashes>>

\* What a claim without a result says: a claim of the same task leaves the
\* outcome unknown, a claim of another is a conflict the dispatch throws on.
OnClaim(step, next, i) ==
    /\ Working(step, i)
    /\ \E seen \in Reads(claim[OriginOf[i]], NoIntent) :
          \/ /\ seen = NoIntent
             /\ GoTo(next, i)
             /\ UNCHANGED <<status, detail>>
          \/ /\ seen # NoIntent
             /\ SameTask(seen, i)
             /\ Settle(i, "uncertain", "none")
          \/ /\ seen # NoIntent
             /\ ~ SameTask(seen, i)
             /\ Settle(i, "failed", "error")
    /\ UNCHANGED <<due, todo, files, ea, broker, crashes>>

ReadLedgerClaim(i) == OnClaim("sendClaim", "post", i)

PostTask(i) ==
    /\ Working("post", i)
    /\ task[OriginOf[i]] = NoIntent
    /\ task' = [task EXCEPT ![OriginOf[i]] = i]
    /\ GoTo("wait", i)
    /\ UNCHANGED <<status, detail, due, todo, claim, result, ea, broker, crashes>>

\* Another task is in the ledger's slot, or the write fails.
TaskNotPosted(i) ==
    /\ Working("post", i)
    /\ task[OriginOf[i]] # NoIntent \/ IoFaults
    /\ Settle(i, "failed", "error")
    /\ UNCHANGED <<due, todo, files, ea, broker, crashes>>

\* The wait loop takes a result that names this very task.
WaitAnswered(i) ==
    LET r == result[OriginOf[i]] IN
    /\ Working("wait", i)
    /\ r.by = i
    /\ Settle(i, Report(r.out), "answered")
    /\ UNCHANGED <<due, todo, files, ea, broker, crashes>>

\* localTaskTimeoutMs went by; the last look at the result came before.
WaitTimeout(i) ==
    /\ Working("wait", i)
    /\ GoTo("lateClaim", i)
    /\ UNCHANGED <<status, detail, due, todo, files, ea, broker, crashes>>

ReadLateClaim(i) == OnClaim("lateClaim", "retract", i)

\* No claim was seen: take the task back, if it is still there.
RetractTask(i) ==
    LET o == OriginOf[i] IN
    /\ Working("retract", i)
    /\ \/ task' = [task EXCEPT ![o] = IF @ = i THEN NoIntent ELSE @]
       \/ IoFaults /\ UNCHANGED task
    /\ Settle(i, "failed", "unclaimed")
    /\ UNCHANGED <<due, todo, claim, result, ea, broker, crashes>>

-----------------------------------------------------------------------------
(* reconcileIntentEvidence: the result, the claim and the task, one after the
   other, while the EA goes on writing them. *)

ReconcileResult(i) ==
    /\ Working("recResult", i)
    /\ \E seen \in Reads(result[OriginOf[i]], NoResult) :
          \/ /\ seen = NoResult
             /\ GoTo("recClaim", i)
             /\ UNCHANGED <<status, detail>>
          \/ /\ seen # NoResult
             /\ IF SameTask(seen.by, i)
                THEN Settle(i, Report(seen.out), "answered")
                ELSE Settle(i, "uncertain", "none")
    /\ UNCHANGED <<due, todo, files, ea, broker, crashes>>

ReconcileClaim(i) ==
    /\ Working("recClaim", i)
    /\ \E seen \in Reads(claim[OriginOf[i]], NoIntent) :
          IF seen = NoIntent
          THEN GoTo("recTask", i) /\ UNCHANGED <<status, detail>>
          ELSE Settle(i, "uncertain", "none")
    /\ UNCHANGED <<due, todo, files, ea, broker, crashes>>

ReconcileTaskReplays(i) ==
    /\ Working("recTask", i)
    /\ \E seen \in Reads(task[OriginOf[i]], NoIntent) :
          IF seen # NoIntent THEN Settle(i, "uncertain", "none")
                             ELSE Settle(i, "approved", "none")
    /\ UNCHANGED <<due, todo, files, ea, broker, crashes>>

ReconcileTask(i) ==
    /\ Working("recTask", i)
    /\ \E seen \in Reads(task[OriginOf[i]], NoIntent) :
          \/ /\ seen # NoIntent
             /\ Settle(i, "uncertain", "none")
          \/ /\ seen = NoIntent
             /\ status[i] = "executing"
             /\ Settle(i, "failed", "no_evidence")
          \/ /\ seen = NoIntent
             /\ status[i] # "executing"
             /\ Return
             /\ UNCHANGED <<status, detail>>
    /\ UNCHANGED <<due, todo, files, ea, broker, crashes>>

-----------------------------------------------------------------------------
(* The EA: PollLocalOnce and ExecuteMutationWithOriginFence. *)

EaAt(e, step) == ea[e].pc = step
EaGoTo(e, step) == ea' = [ea EXCEPT ![e].pc = step]
EaRest == <<status, detail, due, ctl, todo, crashes>>

\* The task a poll finds is read into the EA; the file stays where it is.
PollLocalOnce(e) ==
    \E o \in Origins :
        /\ EaAt(e, "idle")
        /\ task[o] # NoIntent
        /\ ea' = [ea EXCEPT ![e] = [pc   |-> IF task[o] \in Refusable THEN "refuse" ELSE "fence",
                                    task |-> task[o],
                                    out  |-> "failed"]]
        /\ UNCHANGED <<EaRest, files, broker>>

\* AtomicCreateCommonText: a file that exists wins, and a write may fail.
Create(file, o, content, absent) ==
    IF file[o] = absent
    THEN {[file EXCEPT ![o] = content]} \cup (IF IoFaults THEN {file} ELSE {})
    ELSE {file}

\* An invalid envelope gets a failed result and no claim.
RefuseTask(e) ==
    LET i == ea[e].task IN
    /\ EaAt(e, "refuse")
    /\ result' \in Create(result, OriginOf[i], [by |-> i, out |-> "failed"], NoResult)
    /\ EaGoTo(e, "delete")
    /\ UNCHANGED <<EaRest, task, claim, broker>>

\* A result that is there already, of this task or of another, ends the fence.
ReadFenceResult(e) ==
    /\ EaAt(e, "fence")
    /\ \E seen \in Reads(result[OriginOf[ea[e].task]], NoResult) :
          EaGoTo(e, IF seen = NoResult THEN "claim" ELSE "delete")
    /\ UNCHANGED <<EaRest, files, broker>>

ClaimOriginAnyway(e) ==
    LET i == ea[e].task IN
    /\ EaAt(e, "claim")
    /\ claim' \in Create(claim, OriginOf[i], i, NoIntent)
    /\ EaGoTo(e, "broker")
    /\ UNCHANGED <<EaRest, task, result, broker>>

\* The move succeeds for one EA; whoever finds the file there gives up.
ClaimOrigin(e) ==
    LET i == ea[e].task
        o == OriginOf[i]
    IN  /\ EaAt(e, "claim")
        /\ claim' \in Create(claim, o, i, NoIntent)
        /\ EaGoTo(e, IF claim' # claim THEN "broker" ELSE "delete")
        /\ UNCHANGED <<EaRest, task, result, broker>>

\* ExecuteTask: the only broker-facing call.
ExecuteTask(e) ==
    LET i == ea[e].task
        o == OriginOf[i]
    IN  /\ EaAt(e, "broker")
        /\ \E out \in Outcomes :
              /\ broker' = [broker EXCEPT ![o] = [calls |-> @.calls + 1, by |-> i, out |-> out]]
              /\ ea' = [ea EXCEPT ![e] = [pc |-> "result", task |-> i, out |-> out]]
        /\ UNCHANGED <<EaRest, files>>

WriteResult(e) ==
    LET i == ea[e].task IN
    /\ EaAt(e, "result")
    /\ result' \in Create(result, OriginOf[i], [by |-> i, out |-> ea[e].out], NoResult)
    /\ EaGoTo(e, "delete")
    /\ UNCHANGED <<EaRest, task, claim, broker>>

\* The task file is deleted by path, whatever it holds by now.
DeleteTask(e) ==
    LET o == OriginOf[ea[e].task] IN
    /\ EaAt(e, "delete")
    /\ \/ task' = [task EXCEPT ![o] = NoIntent]
       \/ IoFaults /\ UNCHANGED task
    /\ ea' = [ea EXCEPT ![e] = EaIdle]
    /\ UNCHANGED <<EaRest, claim, result, broker>>

EaStep(e) ==
    \/ PollLocalOnce(e)
    \/ RefuseTask(e)
    \/ ReadFenceResult(e)
    \/ ClaimOrigin(e)
    \/ ExecuteTask(e)
    \/ WriteResult(e)
    \/ DeleteTask(e)

-----------------------------------------------------------------------------
(* Time and faults *)

\* The clock reaches an intent's dueAt, and then the end of its two minutes
\* of grace.  Only a scheduled intent is compared with the clock again.  No
\* await, hence no time, separates the choice of an intent from its start.
Choosing == At("begin") \/ (At("dispatch") /\ todo # {})

Tick(i) ==
    /\ ~ Choosing
    /\ due[i] \in {"future", "now"}
    /\ status[i] \in {"new", "scheduled"}
    /\ due' = [due EXCEPT ![i] = IF @ = "future" THEN "now" ELSE "late"]
    /\ UNCHANGED <<status, detail, ctl, todo, files, ea, broker, crashes>>

CrashController ==
    /\ ~ At("down")
    /\ crashes < MaxCrashes
    /\ crashes' = crashes + 1
    /\ ctl' = [pc |-> "down", i |-> NoIntent, loop |-> "reconcile", approving |-> FALSE]
    /\ todo' = {}
    /\ UNCHANGED <<status, detail, due, files, ea, broker>>

CrashEA(e) ==
    /\ ~ EaAt(e, "idle")
    /\ crashes < MaxCrashes
    /\ crashes' = crashes + 1
    /\ ea' = [ea EXCEPT ![e] = EaIdle]
    /\ UNCHANGED <<status, detail, due, ctl, todo, files, broker>>

\* A corrupt state file is read as an empty one.  (In failover mode nothing is
\* executed until the operator has seen to it; in local-primary mode startup
\* lifts the block and saves the empty state over the file.)  The controller
\* goes on with no intents, and with the mailbox as it was.
LoseState ==
    /\ At("down")
    /\ \E i \in Intents : status[i] \notin {"new", "lost"}
    /\ crashes < MaxCrashes
    /\ crashes' = crashes + 1
    /\ status' = [i \in Intents |-> IF status[i] = "new" THEN "new" ELSE "lost"]
    /\ detail' = [i \in Intents |-> "none"]
    /\ UNCHANGED <<due, ctl, todo, files, ea, broker>>

-----------------------------------------------------------------------------
ControllerStep ==
    \/ Restart \/ DispatchDueIntents \/ NextIteration
    \/ VisitDue \/ VisitUnsettled
    \/ \E i \in Intents :
          \/ RefuseIntent(i) \/ AccountUnavailable(i)
          \/ StartExecuting(i) \/ StartNotSaved(i)
          \/ ReadLedgerResult(i) \/ ReadLedgerClaim(i)
          \/ PostTask(i) \/ TaskNotPosted(i)
          \/ WaitAnswered(i) \/ WaitTimeout(i)
          \/ ReadLateClaim(i) \/ RetractTask(i)
          \/ ReconcileResult(i) \/ ReconcileClaim(i) \/ ReconcileTask(i)

OperatorStep == \E i \in Intents : CreateIntent(i) \/ ApproveLocal(i) \/ DeleteLocal(i)

Fault == CrashController \/ LoseState \/ \E e \in EAs : CrashEA(e)

Next ==
    \/ ControllerStep
    \/ OperatorStep
    \/ \E e \in EAs : EaStep(e)
    \/ \E i \in Intents : Tick(i)
    \/ Fault

Spec == Init /\ [][Next]_vars

\* The process is started again, its loop runs on, the terminal's timer keeps
\* polling and the clock advances.  Operators and faults owe nothing.
Fairness ==
    /\ WF_vars(ControllerStep)
    /\ \A e \in EAs : WF_vars(EaStep(e))
    /\ \A i \in Intents : WF_vars(Tick(i))

FairSpec == Spec /\ Fairness

-----------------------------------------------------------------------------
(* Properties *)

\* One origin reaches the broker at most once: whatever is crashed, retried,
\* re-created after a lost state file or polled by two charts, the claim made
\* before the broker call (ExecuteMutationWithOriginFence) is never made twice.
AtMostOneAttempt == \A o \in Origins : broker[o].calls <= 1

\* An intent is reported executed only when the broker did accept a request of
\* that very origin and digest (applyEnvelopeToIntent, reconcileIntentEvidence).
ExecutedIsEarned ==
    \A i \in Intents :
        status[i] = "executed" =>
            LET asked == broker[OriginOf[i]] IN
            asked.calls > 0 /\ asked.out = "done" /\ SameTask(asked.by, i)

\* An intent that was never approved or due, that was cancelled, expired or
\* refused, has left no trace outside the state file: no task for an EA to
\* find later, no claim, no broker call ("delete-cancel never executes",
\* behavior case 16).
Held(i) == \/ status[i] \in {"new", "cancelled", "expired"} \cup Cancellable
           \/ detail[i] = "refused"

HeldIntentLeavesNoTrace ==
    \A i \in Intents :
        Held(i) => /\ i \notin {task[OriginOf[i]], claim[OriginOf[i]]}
                   /\ i \notin {result[OriginOf[i]].by, broker[OriginOf[i]].by}
                   /\ \A e \in EAs : ea[e].task # i

\* The two evidence files are write-once: nothing replaces or removes a claim
\* or a result, whatever task arrives for the ledger later.
EvidenceIsWriteOnce ==
    [][\A o \in Origins :
          /\ claim[o]  # NoIntent => claim'[o] = claim[o]
          /\ result[o] # NoResult => result'[o] = result[o]]_vars

\* No replay: an intent that was dispatched, cancelled or expired is never
\* armed again, and a final report is changed by nothing but the loss of the
\* state file.  Only "uncertain" may still be resolved.
Final == {"executed", "failed", "cancelled", "expired"}

NoReplay ==
    [][\A i \in Intents :
          /\ status[i] \in Final => status'[i] \in {status[i], "lost"}
          /\ status[i] \in Dispatched \cup {"lost"} =>
                status'[i] \notin {"new"} \cup Cancellable]_vars

\* Once the EA has left a result for the task, an intent reported uncertain
\* does not stay so: reconcileExecutingIntents finds it.
ResultIsFound ==
    \A i \in Intents :
        LET r == result[OriginOf[i]] IN
        (status[i] = "uncertain" /\ r # NoResult /\ SameTask(r.by, i) /\ r.out = "done")
            ~> status[i] \in {"executed", "lost"}

\* Every armed intent leaves the armed statuses, and every executing one is
\* settled, in spite of crashes.
ArmedIntentSettles ==
    \A i \in Intents :
        status[i] \in {"scheduled", "approved", "executing"}
            ~> status[i] \in Final \cup {"uncertain", "lost"}

-----------------------------------------------------------------------------
(* The contract this path implements: BrokerContract, with every intent's
   status read as a report and the broker's history as the attempt. *)

Abs(s) == CASE s \in {"new"} \cup Cancellable -> "held"
            [] s \in {"cancelled", "expired"}  -> "dropped"
            [] s = "executing"                 -> "sent"
            [] s = "uncertain"                 -> "unknown"
            [] OTHER                           -> s

AbsReport == [i \in Intents |-> IF detail[i] = "refused" THEN "dropped" ELSE Abs(status[i])]

AbsAttempt == [o \in Origins |-> IF broker[o].calls = 0
                                 THEN [by |-> "nobody", out |-> "failed"]
                                 ELSE [by |-> broker[o].by, out |-> broker[o].out]]

Contract == INSTANCE BrokerContract WITH report <- AbsReport, attempt <- AbsAttempt

\* Every step of the controller, the mailbox, the EA and the faults is a step of
\* the contract or changes nothing the contract speaks of.
KeepsContract == Contract!Spec

-----------------------------------------------------------------------------
(* The inductive invariant behind the safety properties. *)

\* The intent the controller works on is where its step says it is, and so are
\* those its loop has yet to visit.
CtlInv ==
    /\ ctl.pc \in {"down"} \cup LoopSteps => ctl.i = NoIntent
    /\ ctl.pc \notin {"down"} \cup LoopSteps => ctl.i \in Intents
    /\ At("begin") => status[ctl.i] \in {"scheduled", "approved"}
    /\ ctl.pc \in SendSteps => status[ctl.i] = "executing"
    /\ ctl.pc \in ReconcileSteps => status[ctl.i] \in {"executing", "uncertain"}
    /\ ctl.pc \in SendSteps \cup {"begin"} => ctl.loop = "dispatch"
    /\ ctl.pc \in ReconcileSteps => ctl.loop = "reconcile"
    /\ ctl.pc \in LoopSteps => ctl.loop = ctl.pc
    /\ At("down") => todo = {}
    /\ ctl.i \notin todo
    /\ \A i \in todo : IF ctl.loop = "dispatch"
                       THEN status[i] \in {"scheduled", "approved"}
                       ELSE status[i] \in {"executing", "uncertain"}
    /\ \A i \in Intents : /\ detail[i] = "refused" => status[i] = "failed"
                          /\ status[i] = "executing" => detail[i] = "none"

\* A ledger only holds evidence of its own origin.
LedgerInv ==
    \A o \in Origins : /\ task[o] # NoIntent => OriginOf[task[o]] = o
                       /\ claim[o] # NoIntent => OriginOf[claim[o]] = o
                       /\ result[o].by # NoIntent => OriginOf[result[o].by] = o

\* The claim stands between an origin and the broker: an EA about to call it
\* made the claim, alone and before any call.
FenceInv ==
    /\ \A o \in Origins :
          /\ broker[o].calls <= 1
          /\ broker[o].calls = 1 => claim[o] # NoIntent /\ broker[o].by = claim[o]
          /\ broker[o].calls = 0 => broker[o].by = NoIntent
          /\ result[o].out # "failed" =>
                broker[o].calls = 1 /\ broker[o].by = result[o].by /\ broker[o].out = result[o].out
    /\ \A e \in EAs :
          LET i == ea[e].task IN
          /\ EaAt(e, "broker") => claim[OriginOf[i]] = i /\ broker[OriginOf[i]].calls = 0
          /\ EaAt(e, "result") => /\ broker[OriginOf[i]].calls = 1
                                  /\ broker[OriginOf[i]].by = i
                                  /\ broker[OriginOf[i]].out = ea[e].out
    /\ \A e, f \in EAs :
          EaAt(e, "broker") /\ EaAt(f, "broker") /\ e # f =>
              OriginOf[ea[e].task] # OriginOf[ea[f].task]

IInv == TypeOK /\ CtlInv /\ LedgerInv /\ FenceInv /\ HeldIntentLeavesNoTrace /\ ExecutedIsEarned

=============================================================================

------------------------------ MODULE UiEntry ------------------------------
(***************************************************************************)
(* Timed entries through the MT5 window: dispatchOne and reconcileOne of   *)
(* local-failover/mt5-ui-entry-adapter.mjs, the script mt5-ui-entry.ps1    *)
(* they run, the entry_prepare action of the EA, and the part of the       *)
(* controller that starts, restarts and reconciles such an entry.          *)
(*                                                                         *)
(* The broker knows nothing of Telegram lines: an order is placed by       *)
(* pressing a button of the terminal's order window, and the only proof is *)
(* a position with the entry's comment in a snapshot the EA takes.  Before *)
(* the window is opened the EA closes opposite exposure (or advances the   *)
(* TP of a position of the same side, and there is no entry at all).       *)
(*                                                                         *)
(* Calls of the adapter are serialized, a terminal has one order window,   *)
(* and one chart of it runs the EA (LocalExecution has several).  The      *)
(* script does not outlive the call that runs it: execFile kills it at its *)
(* timeout and libuv's job object kills it with the controller.  Whether   *)
(* the button was pressed before that is the question.                     *)
(***************************************************************************)
EXTENDS Naturals

CONSTANTS
    Intents,    \* timed entries an operator may ever create
    Origins,    \* canonical mutation origins, one ledger each
    OriginOf,   \* originKey of an intent
    DigestOf,   \* taskDigest of an intent
    SymbolOf,   \* symbol of an intent
    NoIntent,   \* nobody: no file, no window, nothing in hand
    MaxFaults   \* bound on the crashes, failing calls and windows opened by hand

ASSUME UiAssumption ==
    /\ OriginOf \in [Intents -> Origins]
    /\ {NoIntent, "torn", "operator"} \cap Intents = {}
    /\ MaxFaults \in Nat

VARIABLES
    status,   \* status of every intent in the state file
    detail,   \* the envelope it was last given
    late,     \* is the intent's window for late reconciliation over?
    ctl,      \* the controller: its step, the intent in hand, the envelope to persist
    claim,    \* ledger -> claim file of the adapter
    result,   \* ledger -> result file of the adapter
    work,     \* ledger -> taskId in ui-entry/<ledger>/task.json
    proof,    \* ledger -> intent that left reconciled.json
    ptask,    \* preparation ledger -> task file
    pclaim,   \* preparation ledger -> claim file
    presult,  \* preparation ledger -> result file
    ea,       \* the EA: its step, the preparation in hand, its outcome
    window,   \* whose contents the terminal's order window shows
    order,    \* ledger -> what became of the order (never read but through the EA)
    clicks,   \* ledger -> how often Buy/Sell was pressed (never read)
    netted,   \* ledger -> intent whose netting the broker confirmed to the EA (never read)
    rolled,   \* ledger -> intent for which a TP was advanced (never read)
    faults    \* crashes, failing calls and windows opened by hand so far

saved  == <<status, detail, late>>
files  == <<claim, result, work, proof>>
mail   == <<ptask, pclaim, presult>>
market == <<order, clicks, netted, rolled>>
vars   == <<saved, ctl, files, mail, ea, window, market, faults>>

-----------------------------------------------------------------------------
(* Values *)

Statuses == {"new", "scheduled", "executing", "executed", "failed", "uncertain", "lost"}
Active   == {"scheduled", "executing"}
Settled  == {"executed", "failed", "uncertain", "lost"}

\* What dispatchOne may return: done, failed, failed because the EA did not
\* answer the preparation, REVERSAL_INCOMPLETE, uncertain.
Envelopes == {"done", "failed", "unanswered", "reversal", "uncertain"}

Torn     == "torn"        \* a file that was created and not written
NoResult == [by |-> NoIntent, out |-> "failed"]
TornFile == [by |-> "torn", out |-> "failed"]
Results  == [by : Intents, out : Envelopes] \cup {NoResult, TornFile}

\* What ExecuteEntryPrepareTask may answer: a guard refused, a TP was advanced,
\* the fields are ready (with or without netting), netting was left half done.
Answers == {"refused", "rolled", "ready", "readyNetted", "incomplete"}

CtlSteps == {"down", "loop", "inspect", "claim", "prepare", "await", "lateClaim",
             "retract", "open", "fill", "submit", "clicked", "abort", "verify",
             "close", "verifyAgain", "persist", "persistProof", "finish", "lateProof"}
EaSteps  == {"idle", "fence", "execute", "result", "delete"}
EaIdle   == [at |-> "idle", i |-> NoIntent, out |-> "refused"]
Orders   == {"none", "queued", "open", "closed", "refused"}

At(step) == ctl.at = step
Hand     == ctl.i
Ledger   == OriginOf[Hand]

GoTo(step)          == ctl' = [ctl EXCEPT !.at = step]
PersistAs(env)      == ctl' = [ctl EXCEPT !.at = "persist", !.env = env]
AbortAs(env)        == ctl' = [ctl EXCEPT !.at = "abort", !.env = env]

Report(env) == CASE env = "done"      -> "executed"
                 [] env = "uncertain" -> "uncertain"
                 [] OTHER             -> "failed"

Same(i, j) == OriginOf[i] = OriginOf[j] /\ DigestOf[i] = DigestOf[j]

\* evidenceMatches, of a file that can be read.
Matches(file, i) == file \in Intents /\ Same(file, i)

\* One more crash, failing call or window opened by hand.
Fault == faults < MaxFaults /\ faults' = faults + 1

-----------------------------------------------------------------------------
TypeOK ==
    /\ status \in [Intents -> Statuses]
    /\ detail \in [Intents -> Envelopes \cup {"none", "noEvidence"}]
    /\ late   \in [Intents -> BOOLEAN]
    /\ ctl    \in [at : CtlSteps, i : Intents \cup {NoIntent}, env : Envelopes]
    /\ ctl.i = NoIntent <=> ctl.at \in {"down", "loop"}
    /\ claim   \in [Origins -> Intents \cup {NoIntent, Torn}]
    /\ result  \in [Origins -> Results]
    /\ work    \in [Origins -> Intents \cup {NoIntent}]
    /\ proof   \in [Origins -> Intents \cup {NoIntent}]
    /\ ptask   \in [Origins -> Intents \cup {NoIntent}]
    /\ pclaim  \in [Origins -> Intents \cup {NoIntent}]
    /\ presult \in [Origins -> Answers \cup {"none"}]
    /\ ea      \in [at : EaSteps, i : Intents \cup {NoIntent}, out : Answers]
    /\ ea.i = NoIntent <=> ea.at = "idle"
    /\ window  \in Intents \cup {NoIntent, "operator"}
    /\ order   \in [Origins -> Orders]
    /\ clicks  \in [Origins -> Nat]
    /\ netted  \in [Origins -> Intents \cup {NoIntent}]
    /\ rolled  \in [Origins -> Intents \cup {NoIntent}]
    /\ faults  \in 0..MaxFaults

Init ==
    /\ status  = [i \in Intents |-> "new"]
    /\ detail  = [i \in Intents |-> "none"]
    /\ late    = [i \in Intents |-> FALSE]
    /\ ctl     = [at |-> "loop", i |-> NoIntent, env |-> "failed"]
    /\ claim   = [o \in Origins |-> NoIntent]
    /\ result  = [o \in Origins |-> NoResult]
    /\ work    = [o \in Origins |-> NoIntent]
    /\ proof   = [o \in Origins |-> NoIntent]
    /\ ptask   = [o \in Origins |-> NoIntent]
    /\ pclaim  = [o \in Origins |-> NoIntent]
    /\ presult = [o \in Origins |-> "none"]
    /\ ea      = EaIdle
    /\ window  = NoIntent
    /\ order   = [o \in Origins |-> "none"]
    /\ clicks  = [o \in Origins |-> 0]
    /\ netted  = [o \in Origins |-> NoIntent]
    /\ rolled  = [o \in Origins |-> NoIntent]
    /\ faults  = 0

-----------------------------------------------------------------------------
(* The controller: arm, start, reconcile, restart. *)

SettleAs(i, env) ==
    /\ status' = [status EXCEPT ![i] = Report(env)]
    /\ detail' = [detail EXCEPT ![i] = env]
    /\ ctl'    = [at |-> "loop", i |-> NoIntent, env |-> "failed"]
    /\ UNCHANGED late

\* applyEnvelopeToIntent of the intent in hand, and back to the loop.
Settle(env) == SettleAs(Hand, env)

Take(i, step) == ctl' = [at |-> step, i |-> i, env |-> "failed"]

\* createIntent with activeScheduledEntryConflict: one active timed entry per
\* account and symbol.  A line is processed again only when its state was lost.
Arm(i) ==
    /\ At("loop")
    /\ status[i] = "new"
    /\ \A j \in Intents :
          /\ OriginOf[j] = OriginOf[i] => status[j] \in {"new", "lost"}
          /\ SymbolOf[j] = SymbolOf[i] => status[j] \notin Active
    /\ status' = [status EXCEPT ![i] = "scheduled"]
    /\ UNCHANGED <<detail, late, ctl, files, mail, ea, window, market, faults>>

\* executeIntent of a due entry, up to the adapter.
Start(i) ==
    /\ At("loop")
    /\ status[i] = "scheduled"
    /\ status' = [status EXCEPT ![i] = "executing"]
    /\ Take(i, "inspect")
    /\ UNCHANGED <<detail, late, files, mail, ea, window, market, faults>>

\* reconcileLateUiEntry: only what is already reported uncertain, for two hours.
LateProofAllowed(i) == status[i] = "uncertain" /\ ~late[i]

\* What the result of a ledger says of an intent that maps to it.
Evidence(i) ==
    LET r == result[OriginOf[i]] IN
    IF Matches(r.by, i) THEN r.out ELSE "uncertain"

\* reconcileIntentEvidence with reconcileLateUiEntry, up to the EA's snapshot.
\* (The entry's own ledger never has a task file.)
Reconcile(i) ==
    LET o == OriginOf[i]
        r == result[o] IN
    /\ At("loop")
    /\ status[i] \in {"executing", "uncertain"}
    /\ \/ /\ r.by \in Intents
          /\ ~(Matches(r.by, i) /\ r.out = "uncertain" /\ LateProofAllowed(i))
          /\ SettleAs(i, Evidence(i))
       \/ /\ Matches(r.by, i)
          /\ r.out = "uncertain"
          /\ LateProofAllowed(i)
          /\ IF Matches(proof[o], i) THEN SettleAs(i, "done")
             ELSE IF work[o] = i THEN Take(i, "lateProof") /\ UNCHANGED saved
             ELSE SettleAs(i, "uncertain")
       \/ /\ r \in {NoResult, TornFile}
          /\ claim[o] \in Intents
          /\ SettleAs(i, "uncertain")
       \/ /\ r \in {NoResult, TornFile}
          /\ claim[o] \notin Intents
          /\ status[i] = "executing"
          /\ SettleAs(i, "noEvidence")
    /\ UNCHANGED <<files, mail, ea, window, market, faults>>

\* Neither the result nor the claim can be read.
ReconcileBlind(i) ==
    /\ At("loop")
    /\ status[i] = "executing"
    /\ Fault
    /\ SettleAs(i, "noEvidence")
    /\ UNCHANGED <<files, mail, ea, window, market>>

HopefulPositionSeen(o) == order[o] \in {"queued", "open"}

\* readMatchingPosition: comment, symbol, side and lots agree.
PositionSeen(o) == order[o] = "open"

\* reconcileOne with the snapshot it has asked for.
ReadLateProof ==
    /\ At("lateProof")
    /\ PositionSeen(Ledger)
    /\ proof' = [proof EXCEPT ![Ledger] = Hand]
    /\ Settle("done")
    /\ UNCHANGED <<claim, result, work, mail, ea, window, market, faults>>

\* An open order window may hide the position, and a busy EA does not answer.
NoLateProof ==
    /\ At("lateProof")
    /\ ~PositionSeen(Ledger) \/ window # NoIntent \/ ea.at # "idle"
    /\ Settle("uncertain")
    /\ UNCHANGED <<files, mail, ea, window, market, faults>>

LateProofFails ==
    /\ At("lateProof")
    /\ Fault
    /\ Settle("uncertain")
    /\ UNCHANGED <<files, mail, ea, window, market>>

Restart ==
    /\ At("down")
    /\ GoTo("loop")
    /\ UNCHANGED <<saved, files, mail, ea, window, market, faults>>

-----------------------------------------------------------------------------
(* dispatchOne: claim and preparation. *)

InspectExistingEvidence ==
    /\ At("inspect")
    /\ IF result[Ledger] = NoResult /\ claim[Ledger] = NoIntent
       THEN GoTo("claim") /\ UNCHANGED saved
       ELSE Settle(Evidence(Hand))
    /\ UNCHANGED <<files, mail, ea, window, market, faults>>

\* An error of access reads as an absent file.
InspectBlind ==
    /\ At("inspect")
    /\ Fault
    /\ GoTo("claim")
    /\ UNCHANGED <<saved, files, mail, ea, window, market>>

ClaimEntryAnyway ==
    /\ At("claim")
    /\ claim' = [claim EXCEPT ![Ledger] = Hand]
    /\ GoTo("prepare")
    /\ UNCHANGED <<saved, result, work, proof, mail, ea, window, market, faults>>

\* The exclusive creation of the claim decides who dispatches.
ClaimEntry ==
    /\ At("claim")
    /\ \/ /\ claim[Ledger] = NoIntent
          /\ claim' = [claim EXCEPT ![Ledger] = Hand]
          /\ GoTo("prepare")
          /\ UNCHANGED saved
       \/ /\ claim[Ledger] # NoIntent
          /\ Settle(Evidence(Hand))
          /\ UNCHANGED claim
    /\ UNCHANGED <<result, work, proof, mail, ea, window, market, faults>>

\* The claim cannot be created, or is created and cannot be written.
ClaimFails ==
    /\ At("claim")
    /\ claim[Ledger] = NoIntent
    /\ Fault
    /\ \E content \in {NoIntent, Torn} : claim' = [claim EXCEPT ![Ledger] = content]
    /\ Settle("failed")
    /\ UNCHANGED <<result, work, proof, mail, ea, window, market>>

\* dispatchEa(buildPrepareTask(task)), the mailbox protocol of LocalExecution on a
\* ledger of its own: nobody has used it before the claim was made.
PostPreparation ==
    /\ At("prepare")
    /\ ptask' = [ptask EXCEPT ![Ledger] = Hand]
    /\ GoTo("await")
    /\ UNCHANGED <<saved, files, pclaim, presult, ea, window, market, faults>>

PostFails ==
    /\ At("prepare")
    /\ Fault
    /\ PersistAs("failed")
    /\ UNCHANGED <<saved, files, mail, ea, window, market>>

\* What the adapter makes of the EA's answer when there is nothing to submit.
AnswerEnvelope(answer) == CASE answer = "refused"    -> "failed"
                            [] answer = "incomplete" -> "reversal"
                            [] answer = "rolled"     -> "done"

PreparationAnswered ==
    LET answer == presult[Ledger] IN
    /\ At("await")
    /\ \/ answer \in {"refused", "incomplete", "rolled"} /\ PersistAs(AnswerEnvelope(answer))
       \/ answer \in {"ready", "readyNetted"} /\ GoTo("open")
    /\ UNCHANGED <<saved, files, mail, ea, window, market, faults>>

PreparationNeverLate == FALSE /\ UNCHANGED vars

PreparationLate ==
    /\ At("await")
    /\ GoTo("lateClaim")
    /\ UNCHANGED <<saved, files, mail, ea, window, market, faults>>

ReadLateClaim ==
    /\ At("lateClaim")
    /\ IF pclaim[Ledger] # NoIntent THEN PersistAs("uncertain") ELSE GoTo("retract")
    /\ UNCHANGED <<saved, files, mail, ea, window, market, faults>>

\* "did not claim the task before timeout": nothing has been heard of the EA.
RetractPreparation ==
    /\ At("retract")
    /\ ptask' = [ptask EXCEPT ![Ledger] = NoIntent]
    /\ PersistAs("unanswered")
    /\ UNCHANGED <<saved, files, pclaim, presult, ea, window, market, faults>>

RetractFails ==
    /\ At("retract")
    /\ Fault
    /\ PersistAs("unanswered")
    /\ UNCHANGED <<saved, files, mail, ea, window, market>>

-----------------------------------------------------------------------------
(* dispatchOne: the order window (mt5-ui-entry.ps1). *)

\* Before the submit a failure is told with what netting has already changed.
NotSubmitted == IF presult[Ledger] = "readyNetted" THEN "reversal" ELSE "failed"

\* Mode prepare refuses a terminal whose order window is open.
OpenOrderWindow ==
    /\ At("open")
    /\ work' = [work EXCEPT ![Ledger] = Hand]
    /\ \/ window = NoIntent /\ window' = Hand /\ GoTo("fill")
       \/ UNCHANGED window /\ PersistAs(NotSubmitted)
    /\ UNCHANGED <<saved, claim, result, proof, mail, ea, market, faults>>

\* A slow terminal opens it when the script has stopped waiting (3 s).
WindowComesLate ==
    /\ At("open")
    /\ Fault
    /\ window = NoIntent
    /\ window' = Hand
    /\ work' = [work EXCEPT ![Ledger] = Hand]
    /\ PersistAs(NotSubmitted)
    /\ UNCHANGED <<saved, claim, result, proof, mail, ea, market>>

\* The runner cannot write task.json or start the script.
RunnerFails ==
    /\ At("open")
    /\ Fault
    /\ AbortAs(NotSubmitted)
    /\ UNCHANGED <<saved, files, mail, ea, window, market>>

FillOrderWindow ==
    /\ At("fill")
    /\ window = Hand
    /\ GoTo("submit")
    /\ UNCHANGED <<saved, files, mail, ea, window, market, faults>>

\* A field does not take its value: the script closes the window it opened.
FillFails ==
    /\ At("fill")
    /\ window' = IF window = Hand THEN NoIntent ELSE window
    /\ PersistAs(NotSubmitted)
    /\ UNCHANGED <<saved, files, mail, ea, market, faults>>

\* The script is killed at its timeout, with the window open.
FillTimesOut ==
    /\ At("fill")
    /\ AbortAs(NotSubmitted)
    /\ UNCHANGED <<saved, files, mail, ea, window, market, faults>>

\* Mode submit presses Buy or Sell once, in the window that was prepared.
PressButton ==
    /\ At("submit")
    /\ window = Hand
    /\ clicks' = [clicks EXCEPT ![Ledger] = @ + 1]
    /\ order'  = [order EXCEPT ![Ledger] = "queued"]
    /\ GoTo("clicked")
    /\ UNCHANGED <<saved, files, mail, ea, window, netted, rolled, faults>>

\* The window is gone, a field was changed or the button stays disabled.
SubmitRefused ==
    /\ At("submit")
    /\ PersistAs(NotSubmitted)
    /\ UNCHANGED <<saved, files, mail, ea, window, market, faults>>

\* The script is killed before it answers, the button pressed or not.
SubmitTimesOut ==
    /\ ctl.at \in {"submit", "clicked"}
    /\ AbortAs("uncertain")
    /\ UNCHANGED <<saved, files, mail, ea, window, market, faults>>

SubmitAnswered ==
    /\ At("clicked")
    /\ GoTo("verify")
    /\ UNCHANGED <<saved, files, mail, ea, window, market, faults>>

\* Write-Result throws after PostMessage, and the catch block's does not: the
\* answer says that nothing was submitted.
SubmitAnswerWrong ==
    /\ At("clicked")
    /\ Fault
    /\ PersistAs(NotSubmitted)
    /\ UNCHANGED <<saved, files, mail, ea, window, market>>

-----------------------------------------------------------------------------
(* dispatchOne: proof, closing, result. *)

VerifyPosition ==
    /\ ctl.at \in {"verify", "verifyAgain"}
    /\ PositionSeen(Ledger)
    /\ ctl' = [ctl EXCEPT !.at = IF At("verify") THEN "persistProof" ELSE "persist",
                          !.env = "done"]
    /\ UNCHANGED <<saved, files, mail, ea, window, market, faults>>

\* The last attempt of a round of snapshots.
VerifyGivesUp ==
    /\ \/ At("verify")      /\ GoTo("close")
       \/ At("verifyAgain") /\ PersistAs("uncertain")
    /\ UNCHANGED <<saved, files, mail, ea, window, market, faults>>

VerifyFails ==
    /\ ctl.at \in {"verify", "verifyAgain"}
    /\ Fault
    /\ PersistAs("uncertain")
    /\ UNCHANGED <<saved, files, mail, ea, window, market>>

AfterClose ==
    \/ At("abort")  /\ GoTo("persist")     /\ UNCHANGED saved
    \/ At("close")  /\ GoTo("verifyAgain") /\ UNCHANGED saved
    \/ At("finish") /\ Settle(ctl.env)

\* Mode close closes whatever order window the terminal shows.
CloseOrderWindow ==
    /\ AfterClose
    /\ window' = NoIntent
    /\ UNCHANGED <<files, mail, ea, market, faults>>

CloseFails ==
    /\ AfterClose
    /\ Fault
    /\ UNCHANGED <<files, mail, ea, window, market>>

\* persistFinal.  The claim has kept everybody else from the result.
PersistFinal ==
    /\ ctl.at \in {"persist", "persistProof"}
    /\ result' = [result EXCEPT ![Ledger] = [by |-> Hand, out |-> ctl.env]]
    /\ IF At("persist") THEN Settle(ctl.env) ELSE GoTo("finish") /\ UNCHANGED saved
    /\ UNCHANGED <<claim, work, proof, mail, ea, window, market, faults>>

PersistFails ==
    /\ ctl.at \in {"persist", "persistProof"}
    /\ Fault
    /\ \E content \in {NoResult, TornFile} : result' = [result EXCEPT ![Ledger] = content]
    /\ IF At("persist")
       THEN Settle("uncertain")
       ELSE ctl' = [ctl EXCEPT !.at = "finish", !.env = "uncertain"] /\ UNCHANGED saved
    /\ UNCHANGED <<claim, work, proof, mail, ea, window, market>>

-----------------------------------------------------------------------------
(* The EA, as LocalExecution has it, with one chart and this action. *)

EaLedger == OriginOf[ea.i]

EaPolls ==
    /\ ea.at = "idle"
    /\ \E o \in Origins :
          /\ ptask[o] # NoIntent
          /\ ea' = [ea EXCEPT !.at = "fence", !.i = ptask[o]]
    /\ UNCHANGED <<saved, ctl, files, mail, window, market, faults>>

EaFence ==
    /\ ea.at = "fence"
    /\ IF presult[EaLedger] # "none" \/ pclaim[EaLedger] # NoIntent
       THEN ea' = [ea EXCEPT !.at = "delete"] /\ UNCHANGED pclaim
       ELSE /\ ea' = [ea EXCEPT !.at = "execute"]
            /\ pclaim' = [pclaim EXCEPT ![EaLedger] = ea.i]
    /\ UNCHANGED <<saved, ctl, files, ptask, presult, window, market, faults>>

Nets(answer) == answer \in {"readyNetted", "incomplete"}

\* ExecuteEntryPrepareTask: a TP is advanced, or PrepareMarketEntryFields closes
\* opposite exposure and may then fail.  (What a transport error leaves at the
\* broker is unknown; the EA counts it as nothing, and so does netted.)
EaExecutes ==
    /\ ea.at = "execute"
    /\ \E answer \in Answers :
          /\ ea' = [ea EXCEPT !.at = "result", !.out = answer]
          /\ netted' = IF Nets(answer) THEN [netted EXCEPT ![EaLedger] = ea.i] ELSE netted
          /\ rolled' = IF answer = "rolled" THEN [rolled EXCEPT ![EaLedger] = ea.i]
                                            ELSE rolled
    /\ UNCHANGED <<saved, ctl, files, mail, window, order, clicks, faults>>

EaWritesResult ==
    /\ ea.at = "result"
    /\ presult' = [presult EXCEPT ![EaLedger] = ea.out]
    /\ ea' = [ea EXCEPT !.at = "delete"]
    /\ UNCHANGED <<saved, ctl, files, ptask, pclaim, window, market, faults>>

EaWriteFails ==
    /\ ea.at = "result"
    /\ Fault
    /\ ea' = [ea EXCEPT !.at = "delete"]
    /\ UNCHANGED <<saved, ctl, files, mail, window, market>>

EaDeletesTask ==
    /\ ea.at = "delete"
    /\ ptask' = [ptask EXCEPT ![EaLedger] = NoIntent]
    /\ ea' = EaIdle
    /\ UNCHANGED <<saved, ctl, files, pclaim, presult, window, market, faults>>

-----------------------------------------------------------------------------
(* The broker, the operator, time and crashes. *)

OrderAnswered(o) ==
    /\ order[o] = "queued"
    /\ \E answer \in {"open", "refused"} : order' = [order EXCEPT ![o] = answer]
    /\ UNCHANGED <<saved, ctl, files, mail, ea, window, clicks, netted, rolled, faults>>

\* A stop, a target, an operator or the netting of a later entry.
PositionCloses(o) ==
    /\ order[o] = "open"
    /\ order' = [order EXCEPT ![o] = "closed"]
    /\ UNCHANGED <<saved, ctl, files, mail, ea, window, clicks, netted, rolled, faults>>

OperatorOpensWindow ==
    /\ window = NoIntent
    /\ Fault
    /\ window' = "operator"
    /\ UNCHANGED <<saved, ctl, files, mail, ea, market>>

\* His own, or one an entry has left.
OperatorClosesWindow ==
    /\ window # NoIntent
    /\ window' = NoIntent
    /\ UNCHANGED <<saved, ctl, files, mail, ea, market, faults>>

\* scheduledEntryLateReconcileMaxAgeMs after the start; looked at only then.
AgeOut(i) ==
    /\ status[i] = "uncertain" /\ ~late[i]
    /\ late' = [late EXCEPT ![i] = TRUE]
    /\ UNCHANGED <<status, detail, ctl, files, mail, ea, window, market, faults>>

\* A file may have been created and not written.
CrashController ==
    /\ ~At("down")
    /\ Fault
    /\ ctl' = [at |-> "down", i |-> NoIntent, env |-> "failed"]
    /\ \/ UNCHANGED <<claim, result>>
       \/ /\ At("claim") /\ claim[Ledger] = NoIntent
          /\ claim' = [claim EXCEPT ![Ledger] = Torn]
          /\ UNCHANGED result
       \/ /\ ctl.at \in {"persist", "persistProof"}
          /\ result' = [result EXCEPT ![Ledger] = TornFile]
          /\ UNCHANGED claim
    /\ UNCHANGED <<saved, work, proof, mail, ea, window, market>>

CrashEA ==
    /\ ea.at # "idle"
    /\ Fault
    /\ ea' = EaIdle
    /\ UNCHANGED <<saved, ctl, files, mail, window, market>>

\* The state file is lost with the process.
LoseState ==
    /\ At("down")
    /\ \E i \in Intents : status[i] \notin {"new", "lost"}
    /\ status' = [i \in Intents |-> IF status[i] = "new" THEN "new" ELSE "lost"]
    /\ detail' = [i \in Intents |-> "none"]
    /\ UNCHANGED <<late, ctl, files, mail, ea, window, market, faults>>

-----------------------------------------------------------------------------
DispatchStep ==
    \/ InspectExistingEvidence \/ ClaimEntry \/ PostPreparation
    \/ PreparationAnswered \/ PreparationLate \/ ReadLateClaim \/ RetractPreparation
    \/ OpenOrderWindow \/ FillOrderWindow \/ FillFails \/ FillTimesOut
    \/ PressButton \/ SubmitRefused \/ SubmitTimesOut \/ SubmitAnswered
    \/ VerifyPosition \/ VerifyGivesUp \/ CloseOrderWindow \/ PersistFinal
    \/ ReadLateProof \/ NoLateProof \/ Restart

FailingStep ==
    \/ InspectBlind \/ ClaimFails \/ PostFails \/ RetractFails \/ RunnerFails
    \/ WindowComesLate \/ SubmitAnswerWrong \/ VerifyFails \/ CloseFails \/ PersistFails
    \/ LateProofFails \/ EaWriteFails \/ CrashController \/ CrashEA \/ LoseState
    \/ \E i \in Intents : ReconcileBlind(i)

EaStep == EaPolls \/ EaFence \/ EaExecutes \/ EaWritesResult \/ EaDeletesTask

Environment ==
    \/ OperatorOpensWindow \/ OperatorClosesWindow
    \/ \E o \in Origins : OrderAnswered(o) \/ PositionCloses(o)
    \/ \E i \in Intents : AgeOut(i) \/ Arm(i)

\* runOneIteration comes to an intent.
Visit(i) == Start(i) \/ Reconcile(i)

Next ==
    \/ DispatchStep
    \/ FailingStep
    \/ EaStep
    \/ Environment
    \/ \E i \in Intents : Visit(i)

Spec == Init /\ [][Next]_vars

\* The loop visits every intent, calls return or time out, the process is started
\* again, the EA polls and the broker answers.
Fairness ==
    /\ WF_vars(DispatchStep)
    /\ WF_vars(EaStep)
    /\ \A o \in Origins : WF_vars(OrderAnswered(o))
    /\ \A i \in Intents : SF_vars(Visit(i))

FairSpec == Spec /\ Fairness

-----------------------------------------------------------------------------
(* Properties *)

\* The button is pressed at most once for a Telegram line, and never after a TP
\* was advanced in its place: across crashes, lost state files, unreadable and
\* half-written evidence ("automatic replay is disabled").
AtMostOneClick ==
    \A o \in Origins : /\ clicks[o] <= 1
                       /\ rolled[o] # NoIntent => clicks[o] = 0

\* Every armed entry is started, and every started one gets a report, whatever
\* hangs, fails or stops on the way.
EntrySettles == \A i \in Intents : status[i] \in Active ~> status[i] \in Settled

-----------------------------------------------------------------------------
(* The contract of the PC-local path, kept here too. *)

AbsReport == [i \in Intents |-> CASE status[i] \in {"new", "scheduled"} -> "held"
                                  [] status[i] = "executing"            -> "sent"
                                  [] status[i] = "uncertain"            -> "unknown"
                                  [] OTHER                              -> status[i]]

\* What the broker did for an origin: a TP advanced or an order answered.
AbsAttempt ==
    [o \in Origins |->
        CASE rolled[o] # NoIntent           -> [by |-> rolled[o], out |-> "done"]
          [] order[o] \in {"open", "closed"} -> [by |-> claim[o], out |-> "done"]
          [] order[o] = "refused"           -> [by |-> claim[o], out |-> "failed"]
          [] OTHER                          -> [by |-> "nobody", out |-> "failed"]]

Contract == INSTANCE BrokerContract WITH report <- AbsReport, attempt <- AbsAttempt

\* Every step is a step of BrokerContract: an entry is only reported executed
\* when a position of its own line and task was seen or its TP advanced, no line
\* is attempted twice, and nothing reported is armed again.
KeepsContract == Contract!Spec

=============================================================================

--------------------------- MODULE UiEntryProofs ---------------------------
(***************************************************************************)
(* Proofs about UiEntry, for any intents, lines and number of faults.      *)
(*                                                                         *)
(* The button is pressed only with the claim of the ledger in hand and     *)
(* only after the EA's answer to the preparation allowed it; the claim is  *)
(* never given up, and the EA prepares a ledger once.  From this follow    *)
(* AtMostOneClick and, with what the evidence files say, the refinement of *)
(* BrokerContract.                                                         *)
(***************************************************************************)
EXTENDS UiEntry, TLAPS

-----------------------------------------------------------------------------
(* The inductive invariant *)

Owning  == {"prepare", "await", "lateClaim", "retract", "open", "fill", "submit", "clicked",
            "abort", "verify", "close", "verifyAgain", "persist", "persistProof", "finish"}
Unsent  == {"prepare", "await", "lateClaim", "retract", "open", "fill", "submit"}
Cleared == {"open", "fill", "submit"}
Ready   == {"ready", "readyNetted"}

Begun == {i \in Intents : status[i] \notin {"new", "scheduled"}}

\* What the controller has in hand was started, and it has the ledger's claim from
\* the moment it won it.
Holding ==
    /\ ctl.at \notin {"down", "loop", "lateProof"} => status[Hand] = "executing"
    /\ ctl.at = "lateProof" => status[Hand] = "uncertain" /\ work[Ledger] = Hand
    /\ ctl.at \in Owning => claim[Ledger] = Hand

\* Everything done for a ledger is done for the intent that has claimed it.
Claimed ==
    \A o \in Origins :
        /\ claim[o] \in Intents => OriginOf[claim[o]] = o /\ claim[o] \in Begun
        /\ ptask[o] # NoIntent => claim[o] = ptask[o]
        /\ work[o] # NoIntent => claim[o] = work[o]
        /\ rolled[o] # NoIntent => claim[o] = rolled[o]
        /\ clicks[o] # 0 => claim[o] \in Intents

\* The EA prepares a ledger once, and its answer says whether a TP was advanced.
Prepared ==
    /\ ea.i # NoIntent => claim[EaLedger] = ea.i
    /\ ea.at \in {"execute", "result"} =>
         presult[EaLedger] = "none" /\ pclaim[EaLedger] # NoIntent
    /\ ea.at = "execute" => rolled[EaLedger] = NoIntent
    /\ ea.at = "result" => (ea.out = "rolled" <=> rolled[EaLedger] # NoIntent)
    /\ \A o \in Origins :
          /\ pclaim[o] = NoIntent => presult[o] = "none" /\ rolled[o] = NoIntent
          /\ presult[o] # "none" => (presult[o] = "rolled" <=> rolled[o] # NoIntent)

\* The button is pressed once, and only after an answer that allows it.
Pressed ==
    /\ ctl.at \in Unsent => clicks[Ledger] = 0
    /\ ctl.at \in Cleared => presult[Ledger] \in Ready
    /\ \A o \in Origins :
          /\ clicks[o] \in {0, 1}
          /\ order[o] = "none" <=> clicks[o] = 0
          /\ clicks[o] # 0 => presult[o] \in Ready

\* What says "done" of an intent says it of one the broker has served.
Served ==
    {i \in Intents :
        LET o == OriginOf[i] IN
        /\ claim[o] \in Intents /\ Same(claim[o], i)
        /\ rolled[o] # NoIntent \/ order[o] \in {"open", "closed"}}
Evident ==
    /\ \A o \in Origins :
          /\ result[o].by \in Intents /\ result[o].out = "done" =>
               OriginOf[result[o].by] = o /\ result[o].by \in Served
          /\ proof[o] # NoIntent => OriginOf[proof[o]] = o /\ proof[o] \in Served
    /\ ctl.env = "done" => ctl.i \in Served

IInv == TypeOK /\ Holding /\ Claimed /\ Prepared /\ Pressed /\ Evident

-----------------------------------------------------------------------------
(* Types *)

\* What the proofs below take from the types (the flag late is about nothing).
InHand ==
    /\ ctl \in [at : CtlSteps, i : Intents \cup {NoIntent}, env : Envelopes]
    /\ ctl.i = NoIntent <=> ctl.at \in {"down", "loop"}
InFiles ==
    /\ status \in [Intents -> Statuses]
    /\ claim \in [Origins -> Intents \cup {NoIntent, Torn}]
    /\ result \in [Origins -> Results]
    /\ work \in [Origins -> Intents \cup {NoIntent}]
    /\ proof \in [Origins -> Intents \cup {NoIntent}]
    /\ ptask \in [Origins -> Intents \cup {NoIntent}]
    /\ pclaim \in [Origins -> Intents \cup {NoIntent}]
    /\ presult \in [Origins -> Answers \cup {"none"}]
    /\ ea \in [at : EaSteps, i : Intents \cup {NoIntent}, out : Answers]
    /\ ea.i = NoIntent <=> ea.at = "idle"
    /\ window \in Intents \cup {NoIntent, "operator"}
    /\ order \in [Origins -> Orders] /\ clicks \in [Origins -> Nat]
    /\ netted \in [Origins -> Intents \cup {NoIntent}]
    /\ rolled \in [Origins -> Intents \cup {NoIntent}]
    /\ faults \in 0..MaxFaults
Typed == InHand /\ InFiles
Labelled ==
    /\ detail \in [Intents -> Envelopes \cup {"none", "noEvidence"}]
    /\ late \in [Intents -> BOOLEAN]
\* Constants.
Named ==
    /\ OriginOf \in [Intents -> Origins] /\ MaxFaults \in Nat
    /\ NoIntent \notin Intents /\ "torn" \notin Intents

\* The type invariant is these and no more.
LEMMA Facts == Named /\ (TypeOK <=> Typed /\ Labelled)
  BY UiAssumption DEF Named, TypeOK, Typed, InHand, InFiles, Labelled

\* One more fault is within its bound.
LEMMA FaultCounts == Named /\ faults \in 0..MaxFaults /\ Fault => faults' \in 0..MaxFaults
  BY DEF Named, Fault

\* Every step keeps the types.
LEMMA InHandStep == Typed /\ [Next]_vars => InHand'
<1> USE DEF saved, files, mail, market, At, Hand, Ledger, GoTo, PersistAs, AbortAs, EaLedger
<1>1. ASSUME Named, Typed, InspectExistingEvidence PROVE InHand'
  BY <1>1 DEF InspectExistingEvidence, Settle, SettleAs, Typed, InHand, InFiles, Named,
      CtlSteps, Envelopes
<1>2. ASSUME Named, Typed, ClaimEntry PROVE InHand'
  BY <1>2 DEF ClaimEntry, Settle, SettleAs, Typed, InHand, InFiles, Named, CtlSteps, Envelopes
<1>3. ASSUME Named, Typed, PostPreparation PROVE InHand'
  BY <1>3 DEF PostPreparation, Typed, InHand, InFiles, Named, CtlSteps, Envelopes
<1>4. ASSUME Named, Typed, PreparationAnswered PROVE InHand'
  BY ZenonT(60), <1>4 DEF PreparationAnswered, AnswerEnvelope, Typed, InHand, InFiles, Named,
      CtlSteps, Envelopes
<1>5. ASSUME Named, Typed, PreparationLate PROVE InHand'
  BY <1>5 DEF PreparationLate, Typed, InHand, InFiles, Named, CtlSteps, Envelopes
<1>6. ASSUME Named, Typed, ReadLateClaim PROVE InHand'
  BY ZenonT(60), <1>6 DEF ReadLateClaim, Typed, InHand, InFiles, Named, CtlSteps, Envelopes
<1>7. ASSUME Named, Typed, RetractPreparation PROVE InHand'
  BY <1>7 DEF RetractPreparation, Typed, InHand, InFiles, Named, CtlSteps, Envelopes
<1>8. ASSUME Named, Typed, OpenOrderWindow PROVE InHand'
  BY ZenonT(60), <1>8 DEF OpenOrderWindow, NotSubmitted, Typed, InHand, InFiles, Named, CtlSteps, Envelopes
<1>9. ASSUME Named, Typed, FillOrderWindow PROVE InHand'
  BY <1>9 DEF FillOrderWindow, Typed, InHand, InFiles, Named, CtlSteps, Envelopes
<1>10. ASSUME Named, Typed, FillFails PROVE InHand'
  BY <1>10 DEF FillFails, NotSubmitted, Typed, InHand, InFiles, Named, CtlSteps, Envelopes
<1>11. ASSUME Named, Typed, FillTimesOut PROVE InHand'
  BY <1>11 DEF FillTimesOut, NotSubmitted, Typed, InHand, InFiles, Named, CtlSteps, Envelopes
<1>12. ASSUME Named, Typed, PressButton PROVE InHand'
  BY <1>12 DEF PressButton, Typed, InHand, InFiles, Named, CtlSteps, Envelopes
<1>13. ASSUME Named, Typed, SubmitRefused PROVE InHand'
  BY <1>13 DEF SubmitRefused, NotSubmitted, Typed, InHand, InFiles, Named, CtlSteps, Envelopes
<1>14. ASSUME Named, Typed, SubmitTimesOut PROVE InHand'
  BY <1>14 DEF SubmitTimesOut, Typed, InHand, InFiles, Named, CtlSteps, Envelopes
<1>15. ASSUME Named, Typed, SubmitAnswered PROVE InHand'
  BY <1>15 DEF SubmitAnswered, Typed, InHand, InFiles, Named, CtlSteps, Envelopes
<1>16. ASSUME Named, Typed, VerifyPosition PROVE InHand'
  BY <1>16 DEF VerifyPosition, PositionSeen, Typed, InHand, InFiles, Named, CtlSteps, Envelopes
<1>17. ASSUME Named, Typed, VerifyGivesUp PROVE InHand'
  BY <1>17 DEF VerifyGivesUp, Typed, InHand, InFiles, Named, CtlSteps, Envelopes
<1>18. ASSUME Named, Typed, CloseOrderWindow PROVE InHand'
  BY <1>18 DEF CloseOrderWindow, AfterClose, Settle, SettleAs, Typed, InHand, InFiles,
      Named, CtlSteps, Envelopes
<1>19. ASSUME Named, Typed, PersistFinal PROVE InHand'
  BY <1>19 DEF PersistFinal, Settle, SettleAs, Typed, InHand, InFiles, Named, CtlSteps,
      Envelopes
<1>20. ASSUME Named, Typed, ReadLateProof PROVE InHand'
  BY <1>20 DEF ReadLateProof, PositionSeen, Settle, SettleAs, Typed, InHand, InFiles,
      Named, CtlSteps, Envelopes
<1>21. ASSUME Named, Typed, NoLateProof PROVE InHand'
  BY <1>21 DEF NoLateProof, Settle, SettleAs, Typed, InHand, InFiles, Named, CtlSteps, Envelopes
<1>22. ASSUME Named, Typed, Restart PROVE InHand'
  BY <1>22 DEF Restart, Typed, InHand, InFiles, Named, CtlSteps, Envelopes
<1>23. ASSUME Named, Typed, InspectBlind PROVE InHand'
  BY <1>23 DEF InspectBlind, Typed, InHand, InFiles, Named, CtlSteps, Envelopes
<1>24. ASSUME Named, Typed, ClaimFails PROVE InHand'
  BY <1>24 DEF ClaimFails, Settle, SettleAs, Typed, InHand, InFiles, Named, CtlSteps, Envelopes
<1>25. ASSUME Named, Typed, PostFails PROVE InHand'
  BY <1>25 DEF PostFails, Typed, InHand, InFiles, Named, CtlSteps, Envelopes
<1>26. ASSUME Named, Typed, RetractFails PROVE InHand'
  BY <1>26 DEF RetractFails, Typed, InHand, InFiles, Named, CtlSteps, Envelopes
<1>27. ASSUME Named, Typed, RunnerFails PROVE InHand'
  BY <1>27 DEF RunnerFails, NotSubmitted, Typed, InHand, InFiles, Named, CtlSteps, Envelopes
<1>28. ASSUME Named, Typed, WindowComesLate PROVE InHand'
  BY <1>28 DEF WindowComesLate, NotSubmitted, Typed, InHand, InFiles, Named, CtlSteps, Envelopes
<1>29. ASSUME Named, Typed, SubmitAnswerWrong PROVE InHand'
  BY <1>29 DEF SubmitAnswerWrong, NotSubmitted, Typed, InHand, InFiles, Named, CtlSteps,
      Envelopes
<1>30. ASSUME Named, Typed, VerifyFails PROVE InHand'
  BY <1>30 DEF VerifyFails, Typed, InHand, InFiles, Named, CtlSteps, Envelopes
<1>31. ASSUME Named, Typed, CloseFails PROVE InHand'
  BY <1>31 DEF CloseFails, AfterClose, Settle, SettleAs, Typed, InHand, InFiles, Named,
      CtlSteps, Envelopes
<1>32. ASSUME Named, Typed, PersistFails PROVE InHand'
  <2>1. ctl' \in {[at |-> "loop", i |-> NoIntent, env |-> "failed"],
                  [ctl EXCEPT !.at = "finish", !.env = "uncertain"]}
    BY <1>32 DEF PersistFails, Settle, SettleAs
  <2>2. ctl.i # NoIntent
    BY <1>32 DEF PersistFails, Typed, InHand
  <2>3. CASE ctl' = [at |-> "loop", i |-> NoIntent, env |-> "failed"]
    BY <2>3 DEF InHand, CtlSteps, Envelopes
  <2>4. CASE ctl' = [ctl EXCEPT !.at = "finish", !.env = "uncertain"]
    BY <1>32, <2>2, <2>4 DEF Typed, InHand, CtlSteps, Envelopes
  <2> QED
    BY <2>1, <2>3, <2>4
<1>33. ASSUME Named, Typed, LateProofFails PROVE InHand'
  BY <1>33 DEF LateProofFails, Settle, SettleAs, Typed, InHand, InFiles, Named, CtlSteps,
      Envelopes
<1>34. ASSUME Named, Typed, EaWriteFails PROVE InHand'
  BY <1>34 DEF EaWriteFails, Typed, InHand, InFiles, Named, CtlSteps, Envelopes
<1>35. ASSUME Named, Typed, CrashController PROVE InHand'
  BY <1>35 DEF CrashController, Typed, InHand, InFiles, Named, CtlSteps, Envelopes
<1>36. ASSUME Named, Typed, CrashEA PROVE InHand'
  BY <1>36 DEF CrashEA, Typed, InHand, InFiles, Named, CtlSteps, Envelopes
<1>37. ASSUME Named, Typed, LoseState PROVE InHand'
  BY <1>37 DEF LoseState, Typed, InHand, InFiles, Named, CtlSteps, Envelopes
<1>38. ASSUME Named, Typed, EaPolls PROVE InHand'
  BY <1>38 DEF EaPolls, Typed, InHand, InFiles, Named, CtlSteps, Envelopes
<1>39. ASSUME Named, Typed, EaFence PROVE InHand'
  BY <1>39 DEF EaFence, Typed, InHand, InFiles, Named, CtlSteps, Envelopes
<1>40. ASSUME Named, Typed, EaExecutes PROVE InHand'
  BY <1>40 DEF EaExecutes, Nets, Typed, InHand, InFiles, Named, CtlSteps, Envelopes
<1>41. ASSUME Named, Typed, EaWritesResult PROVE InHand'
  BY <1>41 DEF EaWritesResult, Typed, InHand, InFiles, Named, CtlSteps, Envelopes
<1>42. ASSUME Named, Typed, EaDeletesTask PROVE InHand'
  BY <1>42 DEF EaDeletesTask, Typed, InHand, InFiles, Named, CtlSteps, Envelopes
<1>43. ASSUME Named, Typed, OperatorOpensWindow PROVE InHand'
  BY <1>43 DEF OperatorOpensWindow, Typed, InHand, InFiles, Named, CtlSteps, Envelopes
<1>44. ASSUME Named, Typed, OperatorClosesWindow PROVE InHand'
  BY <1>44 DEF OperatorClosesWindow, Typed, InHand, InFiles, Named, CtlSteps, Envelopes
<1>45. ASSUME Named, Typed, NEW i \in Intents, ReconcileBlind(i) PROVE InHand'
  BY <1>45 DEF ReconcileBlind, SettleAs, Typed, InHand, InFiles, Named, CtlSteps, Envelopes
<1>46. ASSUME Named, Typed, NEW i \in Intents, Start(i) PROVE InHand'
  BY <1>46 DEF Start, Take, Typed, InHand, InFiles, Named, CtlSteps, Envelopes
<1>47. ASSUME Named, Typed, NEW i \in Intents, Reconcile(i) PROVE InHand'
  BY <1>47 DEF Reconcile, SettleAs, Take, LateProofAllowed, Typed, InHand, InFiles, Named,
      CtlSteps, Envelopes
<1>48. ASSUME Named, Typed, NEW i \in Intents, Arm(i) PROVE InHand'
  BY <1>48 DEF Arm, Typed, InHand, InFiles, Named, CtlSteps, Envelopes
<1>49. ASSUME Named, Typed, NEW i \in Intents, AgeOut(i) PROVE InHand'
  BY <1>49 DEF AgeOut, Typed, InHand, InFiles, Named, CtlSteps, Envelopes
<1>50. ASSUME Named, Typed, NEW o \in Origins, OrderAnswered(o) PROVE InHand'
  BY <1>50 DEF OrderAnswered, Typed, InHand, InFiles, Named, CtlSteps, Envelopes
<1>51. ASSUME Named, Typed, NEW o \in Origins, PositionCloses(o) PROVE InHand'
  BY <1>51 DEF PositionCloses, Typed, InHand, InFiles, Named, CtlSteps, Envelopes
<1>52. ASSUME Named, Typed, UNCHANGED vars PROVE InHand'
  BY <1>52 DEF vars, Typed, InHand, InFiles, Named, CtlSteps, Envelopes
<1> QED
  BY Facts, <1>1, <1>2, <1>3, <1>4, <1>5, <1>6, <1>7, <1>8, <1>9, <1>10, <1>11, <1>12,
      <1>13, <1>14, <1>15, <1>16, <1>17, <1>18, <1>19, <1>20, <1>21, <1>22, <1>23, <1>24,
      <1>25, <1>26, <1>27, <1>28, <1>29, <1>30, <1>31, <1>32, <1>33, <1>34, <1>35, <1>36,
      <1>37, <1>38, <1>39, <1>40, <1>41, <1>42, <1>43, <1>44, <1>45, <1>46, <1>47, <1>48,
      <1>49, <1>50, <1>51, <1>52 DEF Next, DispatchStep, FailingStep, EaStep, Environment,
      Visit

\* Every step keeps the types of the files.
LEMMA InFilesStep == Typed /\ [Next]_vars => InFiles'
<1> USE DEF saved, files, mail, market, At, Hand, Ledger, GoTo, PersistAs, AbortAs, EaLedger
<1>1. ASSUME Named, Typed, InspectExistingEvidence PROVE InFiles'
  BY <1>1, FaultCounts DEF InspectExistingEvidence, Settle, SettleAs, Typed, InHand,
      InFiles, Named, EaSteps, EaIdle, Envelopes, Statuses, Results, NoResult, TornFile,
      Torn, Answers, Orders, Report
<1>2. ASSUME Named, Typed, ClaimEntry PROVE InFiles'
  BY <1>2, FaultCounts DEF ClaimEntry, Settle, SettleAs, Typed, InHand, InFiles, Named,
      EaSteps, EaIdle, Envelopes, Statuses, Results, NoResult, TornFile, Torn, Answers,
      Orders, Report
<1>3. ASSUME Named, Typed, PostPreparation PROVE InFiles'
  BY <1>3, FaultCounts DEF PostPreparation, Typed, InHand, InFiles, Named, EaSteps,
      EaIdle, Envelopes, Statuses, Results, NoResult, TornFile, Torn, Answers, Orders,
      Report
<1>4. ASSUME Named, Typed, PreparationAnswered PROVE InFiles'
  BY <1>4, FaultCounts DEF PreparationAnswered, AnswerEnvelope, Typed, InHand, InFiles,
      Named, EaSteps, EaIdle, Envelopes, Statuses, Results, NoResult, TornFile, Torn,
      Answers, Orders, Report
<1>5. ASSUME Named, Typed, PreparationLate PROVE InFiles'
  BY <1>5, FaultCounts DEF PreparationLate, Typed, InHand, InFiles, Named, EaSteps,
      EaIdle, Envelopes, Statuses, Results, NoResult, TornFile, Torn, Answers, Orders,
      Report
<1>6. ASSUME Named, Typed, ReadLateClaim PROVE InFiles'
  BY <1>6, FaultCounts DEF ReadLateClaim, Typed, InHand, InFiles, Named, EaSteps, EaIdle,
      Envelopes, Statuses, Results, NoResult, TornFile, Torn, Answers, Orders, Report
<1>7. ASSUME Named, Typed, RetractPreparation PROVE InFiles'
  BY <1>7, FaultCounts DEF RetractPreparation, Typed, InHand, InFiles, Named, EaSteps,
      EaIdle, Envelopes, Statuses, Results, NoResult, TornFile, Torn, Answers, Orders,
      Report
<1>8. ASSUME Named, Typed, OpenOrderWindow PROVE InFiles'
  BY <1>8, FaultCounts DEF OpenOrderWindow, NotSubmitted, Typed, InHand, InFiles, Named,
      EaSteps, EaIdle, Envelopes, Statuses, Results, NoResult, TornFile, Torn, Answers,
      Orders, Report
<1>9. ASSUME Named, Typed, FillOrderWindow PROVE InFiles'
  BY <1>9, FaultCounts DEF FillOrderWindow, Typed, InHand, InFiles, Named, EaSteps,
      EaIdle, Envelopes, Statuses, Results, NoResult, TornFile, Torn, Answers, Orders,
      Report
<1>10. ASSUME Named, Typed, FillFails PROVE InFiles'
  BY <1>10, FaultCounts DEF FillFails, NotSubmitted, Typed, InHand, InFiles, Named,
      EaSteps, EaIdle, Envelopes, Statuses, Results, NoResult, TornFile, Torn, Answers,
      Orders, Report
<1>11. ASSUME Named, Typed, FillTimesOut PROVE InFiles'
  BY <1>11, FaultCounts DEF FillTimesOut, NotSubmitted, Typed, InHand, InFiles, Named,
      EaSteps, EaIdle, Envelopes, Statuses, Results, NoResult, TornFile, Torn, Answers,
      Orders, Report
<1>12. ASSUME Named, Typed, PressButton PROVE InFiles'
  BY <1>12, FaultCounts DEF PressButton, Typed, InHand, InFiles, Named, EaSteps, EaIdle,
      Envelopes, Statuses, Results, NoResult, TornFile, Torn, Answers, Orders, Report
<1>13. ASSUME Named, Typed, SubmitRefused PROVE InFiles'
  BY <1>13, FaultCounts DEF SubmitRefused, NotSubmitted, Typed, InHand, InFiles, Named,
      EaSteps, EaIdle, Envelopes, Statuses, Results, NoResult, TornFile, Torn, Answers,
      Orders, Report
<1>14. ASSUME Named, Typed, SubmitTimesOut PROVE InFiles'
  BY <1>14, FaultCounts DEF SubmitTimesOut, Typed, InHand, InFiles, Named, EaSteps,
      EaIdle, Envelopes, Statuses, Results, NoResult, TornFile, Torn, Answers, Orders,
      Report
<1>15. ASSUME Named, Typed, SubmitAnswered PROVE InFiles'
  BY <1>15, FaultCounts DEF SubmitAnswered, Typed, InHand, InFiles, Named, EaSteps,
      EaIdle, Envelopes, Statuses, Results, NoResult, TornFile, Torn, Answers, Orders,
      Report
<1>16. ASSUME Named, Typed, VerifyPosition PROVE InFiles'
  BY <1>16, FaultCounts DEF VerifyPosition, PositionSeen, Typed, InHand, InFiles, Named,
      EaSteps, EaIdle, Envelopes, Statuses, Results, NoResult, TornFile, Torn, Answers,
      Orders, Report
<1>17. ASSUME Named, Typed, VerifyGivesUp PROVE InFiles'
  BY <1>17, FaultCounts DEF VerifyGivesUp, Typed, InHand, InFiles, Named, EaSteps, EaIdle,
      Envelopes, Statuses, Results, NoResult, TornFile, Torn, Answers, Orders, Report
<1>18. ASSUME Named, Typed, CloseOrderWindow PROVE InFiles'
  BY <1>18, FaultCounts DEF CloseOrderWindow, AfterClose, Settle, SettleAs, Typed, InHand,
      InFiles, Named, EaSteps, EaIdle, Envelopes, Statuses, Results, NoResult, TornFile,
      Torn, Answers, Orders, Report
<1>19. ASSUME Named, Typed, PersistFinal PROVE InFiles'
  BY <1>19, FaultCounts DEF PersistFinal, Settle, SettleAs, Typed, InHand, InFiles, Named,
      EaSteps, EaIdle, Envelopes, Statuses, Results, NoResult, TornFile, Torn, Answers,
      Orders, Report
<1>20. ASSUME Named, Typed, ReadLateProof PROVE InFiles'
  BY <1>20, FaultCounts DEF ReadLateProof, PositionSeen, Settle, SettleAs, Typed, InHand,
      InFiles, Named, EaSteps, EaIdle, Envelopes, Statuses, Results, NoResult, TornFile,
      Torn, Answers, Orders, Report
<1>21. ASSUME Named, Typed, NoLateProof PROVE InFiles'
  BY <1>21, FaultCounts DEF NoLateProof, Settle, SettleAs, Typed, InHand, InFiles, Named,
      EaSteps, EaIdle, Envelopes, Statuses, Results, NoResult, TornFile, Torn, Answers,
      Orders, Report
<1>22. ASSUME Named, Typed, Restart PROVE InFiles'
  BY <1>22, FaultCounts DEF Restart, Typed, InHand, InFiles, Named, EaSteps, EaIdle,
      Envelopes, Statuses, Results, NoResult, TornFile, Torn, Answers, Orders, Report
<1>23. ASSUME Named, Typed, InspectBlind PROVE InFiles'
  BY <1>23, FaultCounts DEF InspectBlind, Typed, InHand, InFiles, Named, EaSteps, EaIdle,
      Envelopes, Statuses, Results, NoResult, TornFile, Torn, Answers, Orders, Report
<1>24. ASSUME Named, Typed, ClaimFails PROVE InFiles'
  BY <1>24, FaultCounts DEF ClaimFails, Settle, SettleAs, Typed, InHand, InFiles, Named,
      EaSteps, EaIdle, Envelopes, Statuses, Results, NoResult, TornFile, Torn, Answers,
      Orders, Report
<1>25. ASSUME Named, Typed, PostFails PROVE InFiles'
  BY <1>25, FaultCounts DEF PostFails, Typed, InHand, InFiles, Named, EaSteps, EaIdle,
      Envelopes, Statuses, Results, NoResult, TornFile, Torn, Answers, Orders, Report
<1>26. ASSUME Named, Typed, RetractFails PROVE InFiles'
  BY <1>26, FaultCounts DEF RetractFails, Typed, InHand, InFiles, Named, EaSteps, EaIdle,
      Envelopes, Statuses, Results, NoResult, TornFile, Torn, Answers, Orders, Report
<1>27. ASSUME Named, Typed, RunnerFails PROVE InFiles'
  BY <1>27, FaultCounts DEF RunnerFails, NotSubmitted, Typed, InHand, InFiles, Named,
      EaSteps, EaIdle, Envelopes, Statuses, Results, NoResult, TornFile, Torn, Answers,
      Orders, Report
<1>28. ASSUME Named, Typed, WindowComesLate PROVE InFiles'
  BY <1>28, FaultCounts DEF WindowComesLate, NotSubmitted, Typed, InHand, InFiles, Named,
      EaSteps, EaIdle, Envelopes, Statuses, Results, NoResult, TornFile, Torn, Answers,
      Orders, Report
<1>29. ASSUME Named, Typed, SubmitAnswerWrong PROVE InFiles'
  BY <1>29, FaultCounts DEF SubmitAnswerWrong, NotSubmitted, Typed, InHand, InFiles,
      Named, EaSteps, EaIdle, Envelopes, Statuses, Results, NoResult, TornFile, Torn,
      Answers, Orders, Report
<1>30. ASSUME Named, Typed, VerifyFails PROVE InFiles'
  BY <1>30, FaultCounts DEF VerifyFails, Typed, InHand, InFiles, Named, EaSteps, EaIdle,
      Envelopes, Statuses, Results, NoResult, TornFile, Torn, Answers, Orders, Report
<1>31. ASSUME Named, Typed, CloseFails PROVE InFiles'
  BY <1>31, FaultCounts DEF CloseFails, AfterClose, Settle, SettleAs, Typed, InHand,
      InFiles, Named, EaSteps, EaIdle, Envelopes, Statuses, Results, NoResult, TornFile,
      Torn, Answers, Orders, Report
<1>32. ASSUME Named, Typed, PersistFails PROVE InFiles'
  BY <1>32, FaultCounts DEF PersistFails, Settle, SettleAs, Typed, InHand, InFiles, Named,
      EaSteps, EaIdle, Envelopes, Statuses, Results, NoResult, TornFile, Torn, Answers,
      Orders, Report
<1>33. ASSUME Named, Typed, LateProofFails PROVE InFiles'
  BY <1>33, FaultCounts DEF LateProofFails, Settle, SettleAs, Typed, InHand, InFiles,
      Named, EaSteps, EaIdle, Envelopes, Statuses, Results, NoResult, TornFile, Torn,
      Answers, Orders, Report
<1>34. ASSUME Named, Typed, EaWriteFails PROVE InFiles'
  BY <1>34, FaultCounts DEF EaWriteFails, Typed, InHand, InFiles, Named, EaSteps, EaIdle,
      Envelopes, Statuses, Results, NoResult, TornFile, Torn, Answers, Orders, Report
<1>35. ASSUME Named, Typed, CrashController PROVE InFiles'
  BY <1>35, FaultCounts DEF CrashController, Typed, InHand, InFiles, Named, EaSteps,
      EaIdle, Envelopes, Statuses, Results, NoResult, TornFile, Torn, Answers, Orders,
      Report
<1>36. ASSUME Named, Typed, CrashEA PROVE InFiles'
  BY <1>36, FaultCounts DEF CrashEA, Typed, InHand, InFiles, Named, EaSteps, EaIdle,
      Envelopes, Statuses, Results, NoResult, TornFile, Torn, Answers, Orders, Report
<1>37. ASSUME Named, Typed, LoseState PROVE InFiles'
  BY <1>37, FaultCounts DEF LoseState, Typed, InHand, InFiles, Named, EaSteps, EaIdle,
      Envelopes, Statuses, Results, NoResult, TornFile, Torn, Answers, Orders, Report
<1>38. ASSUME Named, Typed, EaPolls PROVE InFiles'
  BY ZenonT(60), <1>38, FaultCounts DEF EaPolls, Typed, InHand, InFiles, Named, EaSteps, EaIdle,
      Envelopes, Statuses, Results, NoResult, TornFile, Torn, Answers, Orders, Report
<1>39. ASSUME Named, Typed, EaFence PROVE InFiles'
  BY <1>39, FaultCounts DEF EaFence, Typed, InHand, InFiles, Named, EaSteps, EaIdle,
      Envelopes, Statuses, Results, NoResult, TornFile, Torn, Answers, Orders, Report
<1>40. ASSUME Named, Typed, EaExecutes PROVE InFiles'
  BY ZenonT(60), <1>40, FaultCounts DEF EaExecutes, Nets, Typed, InHand, InFiles, Named, EaSteps,
      EaIdle, Envelopes, Statuses, Results, NoResult, TornFile, Torn, Answers, Orders,
      Report
<1>41. ASSUME Named, Typed, EaWritesResult PROVE InFiles'
  BY <1>41, FaultCounts DEF EaWritesResult, Typed, InHand, InFiles, Named, EaSteps,
      EaIdle, Envelopes, Statuses, Results, NoResult, TornFile, Torn, Answers, Orders,
      Report
<1>42. ASSUME Named, Typed, EaDeletesTask PROVE InFiles'
  BY <1>42, FaultCounts DEF EaDeletesTask, Typed, InHand, InFiles, Named, EaSteps, EaIdle,
      Envelopes, Statuses, Results, NoResult, TornFile, Torn, Answers, Orders, Report
<1>43. ASSUME Named, Typed, OperatorOpensWindow PROVE InFiles'
  BY <1>43, FaultCounts DEF OperatorOpensWindow, Typed, InHand, InFiles, Named, EaSteps,
      EaIdle, Envelopes, Statuses, Results, NoResult, TornFile, Torn, Answers, Orders,
      Report
<1>44. ASSUME Named, Typed, OperatorClosesWindow PROVE InFiles'
  BY <1>44, FaultCounts DEF OperatorClosesWindow, Typed, InHand, InFiles, Named, EaSteps,
      EaIdle, Envelopes, Statuses, Results, NoResult, TornFile, Torn, Answers, Orders,
      Report
<1>45. ASSUME Named, Typed, NEW i \in Intents, ReconcileBlind(i) PROVE InFiles'
  BY <1>45, FaultCounts DEF ReconcileBlind, SettleAs, Typed, InHand, InFiles, Named,
      EaSteps, EaIdle, Envelopes, Statuses, Results, NoResult, TornFile, Torn, Answers,
      Orders, Report
<1>46. ASSUME Named, Typed, NEW i \in Intents, Start(i) PROVE InFiles'
  BY <1>46, FaultCounts DEF Start, Take, Typed, InHand, InFiles, Named, EaSteps, EaIdle,
      Envelopes, Statuses, Results, NoResult, TornFile, Torn, Answers, Orders, Report
<1>47. ASSUME Named, Typed, NEW i \in Intents, Reconcile(i) PROVE InFiles'
  BY <1>47, FaultCounts DEF Reconcile, SettleAs, Take, LateProofAllowed, Typed, InHand,
      InFiles, Named, EaSteps, EaIdle, Envelopes, Statuses, Results, NoResult, TornFile,
      Torn, Answers, Orders, Report
<1>48. ASSUME Named, Typed, NEW i \in Intents, Arm(i) PROVE InFiles'
  BY <1>48, FaultCounts DEF Arm, Typed, InHand, InFiles, Named, EaSteps, EaIdle,
      Envelopes, Statuses, Results, NoResult, TornFile, Torn, Answers, Orders, Report
<1>49. ASSUME Named, Typed, NEW i \in Intents, AgeOut(i) PROVE InFiles'
  BY <1>49, FaultCounts DEF AgeOut, Typed, InHand, InFiles, Named, EaSteps, EaIdle,
      Envelopes, Statuses, Results, NoResult, TornFile, Torn, Answers, Orders, Report
<1>50. ASSUME Named, Typed, NEW o \in Origins, OrderAnswered(o) PROVE InFiles'
  BY <1>50, FaultCounts DEF OrderAnswered, Typed, InHand, InFiles, Named, EaSteps, EaIdle,
      Envelopes, Statuses, Results, NoResult, TornFile, Torn, Answers, Orders, Report
<1>51. ASSUME Named, Typed, NEW o \in Origins, PositionCloses(o) PROVE InFiles'
  BY <1>51, FaultCounts DEF PositionCloses, Typed, InHand, InFiles, Named, EaSteps,
      EaIdle, Envelopes, Statuses, Results, NoResult, TornFile, Torn, Answers, Orders,
      Report
<1>52. ASSUME Named, Typed, UNCHANGED vars PROVE InFiles'
  BY <1>52 DEF vars, Typed, InHand, InFiles, Named, EaSteps, EaIdle, Envelopes, Statuses,
      Results, NoResult, TornFile, Torn, Answers, Orders, Report
<1> QED
  BY Facts, <1>1, <1>2, <1>3, <1>4, <1>5, <1>6, <1>7, <1>8, <1>9, <1>10, <1>11, <1>12,
      <1>13, <1>14, <1>15, <1>16, <1>17, <1>18, <1>19, <1>20, <1>21, <1>22, <1>23, <1>24,
      <1>25, <1>26, <1>27, <1>28, <1>29, <1>30, <1>31, <1>32, <1>33, <1>34, <1>35, <1>36,
      <1>37, <1>38, <1>39, <1>40, <1>41, <1>42, <1>43, <1>44, <1>45, <1>46, <1>47, <1>48,
      <1>49, <1>50, <1>51, <1>52 DEF Next, DispatchStep, FailingStep, EaStep, Environment,
      Visit

\* What is reported of an outcome.
LEMMA Reports == \A env : Report(env) \in {"executed", "failed", "uncertain"}
  BY DEF Report
\* What a ledger's result says of an intent.
LEMMA EvidenceIsAnEnvelope == Named /\ Typed => \A i \in Intents : Evidence(i) \in Envelopes
<1> SUFFICES ASSUME Named, Typed, NEW i \in Intents PROVE Evidence(i) \in Envelopes
  OBVIOUS
<1>1. result[OriginOf[i]] \in Results
  BY DEF Named, Typed, InFiles
<1>2. result[OriginOf[i]].out \in Envelopes
  BY <1>1 DEF Results, NoResult, TornFile, Envelopes
<1> QED
  BY <1>2 DEF Evidence, Envelopes

\* Every step keeps the details.
LEMMA LabelledStep == Typed /\ Labelled /\ [Next]_vars => Labelled'
<1> USE DEF saved, files, mail, market, At, Hand, Ledger, GoTo, PersistAs, AbortAs, EaLedger
<1>1. ASSUME Named, Typed, Labelled, InspectExistingEvidence PROVE Labelled'
  BY <1>1, EvidenceIsAnEnvelope DEF InspectExistingEvidence, Settle, SettleAs, Typed,
      InHand, InFiles, Labelled, Envelopes
<1>2. ASSUME Named, Typed, Labelled, ClaimEntry PROVE Labelled'
  BY <1>2, EvidenceIsAnEnvelope DEF ClaimEntry, Settle, SettleAs, Typed, InHand, InFiles,
      Labelled, Envelopes
<1>3. ASSUME Named, Typed, Labelled, PostPreparation PROVE Labelled'
  BY <1>3 DEF PostPreparation, Typed, InHand, InFiles, Labelled, Envelopes, LateProofAllowed
<1>4. ASSUME Named, Typed, Labelled, PreparationAnswered PROVE Labelled'
  BY <1>4 DEF PreparationAnswered, AnswerEnvelope, Typed, InHand, InFiles, Labelled,
      Envelopes, LateProofAllowed
<1>5. ASSUME Named, Typed, Labelled, PreparationLate PROVE Labelled'
  BY <1>5 DEF PreparationLate, Typed, InHand, InFiles, Labelled, Envelopes, LateProofAllowed
<1>6. ASSUME Named, Typed, Labelled, ReadLateClaim PROVE Labelled'
  BY <1>6 DEF ReadLateClaim, Typed, InHand, InFiles, Labelled, Envelopes, LateProofAllowed
<1>7. ASSUME Named, Typed, Labelled, RetractPreparation PROVE Labelled'
  BY <1>7 DEF RetractPreparation, Typed, InHand, InFiles, Labelled, Envelopes, LateProofAllowed
<1>8. ASSUME Named, Typed, Labelled, OpenOrderWindow PROVE Labelled'
  BY <1>8 DEF OpenOrderWindow, NotSubmitted, Typed, InHand, InFiles, Labelled, Envelopes,
      LateProofAllowed
<1>9. ASSUME Named, Typed, Labelled, FillOrderWindow PROVE Labelled'
  BY <1>9 DEF FillOrderWindow, Typed, InHand, InFiles, Labelled, Envelopes, LateProofAllowed
<1>10. ASSUME Named, Typed, Labelled, FillFails PROVE Labelled'
  BY <1>10 DEF FillFails, NotSubmitted, Typed, InHand, InFiles, Labelled, Envelopes,
      LateProofAllowed
<1>11. ASSUME Named, Typed, Labelled, FillTimesOut PROVE Labelled'
  BY <1>11 DEF FillTimesOut, NotSubmitted, Typed, InHand, InFiles, Labelled, Envelopes,
      LateProofAllowed
<1>12. ASSUME Named, Typed, Labelled, PressButton PROVE Labelled'
  BY <1>12 DEF PressButton, Typed, InHand, InFiles, Labelled, Envelopes, LateProofAllowed
<1>13. ASSUME Named, Typed, Labelled, SubmitRefused PROVE Labelled'
  BY <1>13 DEF SubmitRefused, NotSubmitted, Typed, InHand, InFiles, Labelled, Envelopes,
      LateProofAllowed
<1>14. ASSUME Named, Typed, Labelled, SubmitTimesOut PROVE Labelled'
  BY <1>14 DEF SubmitTimesOut, Typed, InHand, InFiles, Labelled, Envelopes, LateProofAllowed
<1>15. ASSUME Named, Typed, Labelled, SubmitAnswered PROVE Labelled'
  BY <1>15 DEF SubmitAnswered, Typed, InHand, InFiles, Labelled, Envelopes, LateProofAllowed
<1>16. ASSUME Named, Typed, Labelled, VerifyPosition PROVE Labelled'
  BY <1>16 DEF VerifyPosition, PositionSeen, Typed, InHand, InFiles, Labelled, Envelopes,
      LateProofAllowed
<1>17. ASSUME Named, Typed, Labelled, VerifyGivesUp PROVE Labelled'
  BY <1>17 DEF VerifyGivesUp, Typed, InHand, InFiles, Labelled, Envelopes, LateProofAllowed
<1>18. ASSUME Named, Typed, Labelled, CloseOrderWindow PROVE Labelled'
  BY <1>18 DEF CloseOrderWindow, AfterClose, Settle, SettleAs, Typed, InHand, InFiles,
      Labelled, Envelopes, LateProofAllowed
<1>19. ASSUME Named, Typed, Labelled, PersistFinal PROVE Labelled'
  BY <1>19 DEF PersistFinal, Settle, SettleAs, Typed, InHand, InFiles, Labelled,
      Envelopes, LateProofAllowed
<1>20. ASSUME Named, Typed, Labelled, ReadLateProof PROVE Labelled'
  BY <1>20 DEF ReadLateProof, PositionSeen, Settle, SettleAs, Typed, InHand, InFiles,
      Labelled, Envelopes, LateProofAllowed
<1>21. ASSUME Named, Typed, Labelled, NoLateProof PROVE Labelled'
  BY <1>21 DEF NoLateProof, Settle, SettleAs, Typed, InHand, InFiles, Labelled, Envelopes,
      LateProofAllowed
<1>22. ASSUME Named, Typed, Labelled, Restart PROVE Labelled'
  BY <1>22 DEF Restart, Typed, InHand, InFiles, Labelled, Envelopes, LateProofAllowed
<1>23. ASSUME Named, Typed, Labelled, InspectBlind PROVE Labelled'
  BY <1>23 DEF InspectBlind, Typed, InHand, InFiles, Labelled, Envelopes, LateProofAllowed
<1>24. ASSUME Named, Typed, Labelled, ClaimFails PROVE Labelled'
  BY <1>24 DEF ClaimFails, Settle, SettleAs, Typed, InHand, InFiles, Labelled, Envelopes,
      LateProofAllowed
<1>25. ASSUME Named, Typed, Labelled, PostFails PROVE Labelled'
  BY <1>25 DEF PostFails, Typed, InHand, InFiles, Labelled, Envelopes, LateProofAllowed
<1>26. ASSUME Named, Typed, Labelled, RetractFails PROVE Labelled'
  BY <1>26 DEF RetractFails, Typed, InHand, InFiles, Labelled, Envelopes, LateProofAllowed
<1>27. ASSUME Named, Typed, Labelled, RunnerFails PROVE Labelled'
  BY <1>27 DEF RunnerFails, NotSubmitted, Typed, InHand, InFiles, Labelled, Envelopes,
      LateProofAllowed
<1>28. ASSUME Named, Typed, Labelled, WindowComesLate PROVE Labelled'
  BY <1>28 DEF WindowComesLate, NotSubmitted, Typed, InHand, InFiles, Labelled, Envelopes,
      LateProofAllowed
<1>29. ASSUME Named, Typed, Labelled, SubmitAnswerWrong PROVE Labelled'
  BY <1>29 DEF SubmitAnswerWrong, NotSubmitted, Typed, InHand, InFiles, Labelled,
      Envelopes, LateProofAllowed
<1>30. ASSUME Named, Typed, Labelled, VerifyFails PROVE Labelled'
  BY <1>30 DEF VerifyFails, Typed, InHand, InFiles, Labelled, Envelopes, LateProofAllowed
<1>31. ASSUME Named, Typed, Labelled, CloseFails PROVE Labelled'
  BY <1>31 DEF CloseFails, AfterClose, Settle, SettleAs, Typed, InHand, InFiles, Labelled,
      Envelopes, LateProofAllowed
<1>32. ASSUME Named, Typed, Labelled, PersistFails PROVE Labelled'
  BY <1>32 DEF PersistFails, Settle, SettleAs, Typed, InHand, InFiles, Labelled,
      Envelopes, LateProofAllowed
<1>33. ASSUME Named, Typed, Labelled, LateProofFails PROVE Labelled'
  BY <1>33 DEF LateProofFails, Settle, SettleAs, Typed, InHand, InFiles, Labelled,
      Envelopes, LateProofAllowed
<1>34. ASSUME Named, Typed, Labelled, EaWriteFails PROVE Labelled'
  BY <1>34 DEF EaWriteFails, Typed, InHand, InFiles, Labelled, Envelopes, LateProofAllowed
<1>35. ASSUME Named, Typed, Labelled, CrashController PROVE Labelled'
  BY <1>35 DEF CrashController, Typed, InHand, InFiles, Labelled, Envelopes, LateProofAllowed
<1>36. ASSUME Named, Typed, Labelled, CrashEA PROVE Labelled'
  BY <1>36 DEF CrashEA, Typed, InHand, InFiles, Labelled, Envelopes, LateProofAllowed
<1>37. ASSUME Named, Typed, Labelled, LoseState PROVE Labelled'
  BY <1>37 DEF LoseState, Typed, InHand, InFiles, Labelled, Envelopes, LateProofAllowed
<1>38. ASSUME Named, Typed, Labelled, EaPolls PROVE Labelled'
  BY <1>38 DEF EaPolls, Typed, InHand, InFiles, Labelled, Envelopes, LateProofAllowed
<1>39. ASSUME Named, Typed, Labelled, EaFence PROVE Labelled'
  BY <1>39 DEF EaFence, Typed, InHand, InFiles, Labelled, Envelopes, LateProofAllowed
<1>40. ASSUME Named, Typed, Labelled, EaExecutes PROVE Labelled'
  BY <1>40 DEF EaExecutes, Nets, Typed, InHand, InFiles, Labelled, Envelopes, LateProofAllowed
<1>41. ASSUME Named, Typed, Labelled, EaWritesResult PROVE Labelled'
  BY <1>41 DEF EaWritesResult, Typed, InHand, InFiles, Labelled, Envelopes, LateProofAllowed
<1>42. ASSUME Named, Typed, Labelled, EaDeletesTask PROVE Labelled'
  BY <1>42 DEF EaDeletesTask, Typed, InHand, InFiles, Labelled, Envelopes, LateProofAllowed
<1>43. ASSUME Named, Typed, Labelled, OperatorOpensWindow PROVE Labelled'
  BY <1>43 DEF OperatorOpensWindow, Typed, InHand, InFiles, Labelled, Envelopes,
      LateProofAllowed
<1>44. ASSUME Named, Typed, Labelled, OperatorClosesWindow PROVE Labelled'
  BY <1>44 DEF OperatorClosesWindow, Typed, InHand, InFiles, Labelled, Envelopes,
      LateProofAllowed
<1>45. ASSUME Named, Typed, Labelled, NEW i \in Intents, ReconcileBlind(i) PROVE Labelled'
  BY <1>45 DEF ReconcileBlind, SettleAs, Typed, InHand, InFiles, Labelled, Envelopes,
      LateProofAllowed
<1>46. ASSUME Named, Typed, Labelled, NEW i \in Intents, Start(i) PROVE Labelled'
  BY <1>46 DEF Start, Take, Typed, InHand, InFiles, Labelled, Envelopes, LateProofAllowed
<1>47. ASSUME Named, Typed, Labelled, NEW i \in Intents, Reconcile(i) PROVE Labelled'
  <2>1. UNCHANGED late
    BY <1>47 DEF Reconcile, SettleAs, Take, saved
  <2>2. detail' = detail \/ \E env \in Envelopes \cup {"noEvidence"} : detail' = [detail EXCEPT ![i] = env]
    BY <1>47, EvidenceIsAnEnvelope DEF Reconcile, SettleAs, Take, saved, Envelopes
  <2> QED
    BY <1>47, <2>1, <2>2 DEF Labelled
<1>48. ASSUME Named, Typed, Labelled, NEW i \in Intents, Arm(i) PROVE Labelled'
  BY <1>48 DEF Arm, Typed, InHand, InFiles, Labelled, Envelopes, LateProofAllowed
<1>49. ASSUME Named, Typed, Labelled, NEW i \in Intents, AgeOut(i) PROVE Labelled'
  BY <1>49 DEF AgeOut, Typed, InHand, InFiles, Labelled, Envelopes, LateProofAllowed
<1>50. ASSUME Named, Typed, Labelled, NEW o \in Origins, OrderAnswered(o) PROVE Labelled'
  BY <1>50 DEF OrderAnswered, Typed, InHand, InFiles, Labelled, Envelopes, LateProofAllowed
<1>51. ASSUME Named, Typed, Labelled, NEW o \in Origins, PositionCloses(o) PROVE Labelled'
  BY <1>51 DEF PositionCloses, Typed, InHand, InFiles, Labelled, Envelopes, LateProofAllowed
<1>52. ASSUME Named, Typed, Labelled, UNCHANGED vars PROVE Labelled'
  BY <1>52 DEF vars, Typed, InHand, InFiles, Labelled, Envelopes, LateProofAllowed
<1> QED
  BY Facts, <1>1, <1>2, <1>3, <1>4, <1>5, <1>6, <1>7, <1>8, <1>9, <1>10, <1>11, <1>12,
      <1>13, <1>14, <1>15, <1>16, <1>17, <1>18, <1>19, <1>20, <1>21, <1>22, <1>23, <1>24,
      <1>25, <1>26, <1>27, <1>28, <1>29, <1>30, <1>31, <1>32, <1>33, <1>34, <1>35, <1>36,
      <1>37, <1>38, <1>39, <1>40, <1>41, <1>42, <1>43, <1>44, <1>45, <1>46, <1>47, <1>48,
      <1>49, <1>50, <1>51, <1>52 DEF Next, DispatchStep, FailingStep, EaStep, Environment,
      Visit

\* The moves of the controller that a branch makes hard to read; NotDone: the step
\* does not turn the envelope into "done".
NotDone == ctl'.env = "done" => ctl.env = "done"
LEMMA Moves ==
    ASSUME Typed
    PROVE  /\ PreparationAnswered =>
                /\ ctl.at = "await" /\ ctl'.i = ctl.i
                /\ ctl'.at = "persist" \/ (ctl'.at = "open" /\ presult[Ledger] \in Ready)
           /\ ReadLateClaim =>
                /\ ctl.at = "lateClaim" /\ ctl'.i = ctl.i /\ ctl'.at \in {"persist", "retract"}
                /\ NotDone
           /\ OpenOrderWindow =>
                /\ ctl.at = "open" /\ ctl'.i = ctl.i /\ ctl'.at \in {"fill", "persist"}
                /\ NotDone
           /\ VerifyGivesUp =>
                /\ NotDone
                /\ ctl.at \in {"verify", "verifyAgain"} /\ ctl'.i = ctl.i
                /\ ctl'.at \in {"close", "persist"}
           /\ PersistFails =>
                /\ NotDone
                /\ ctl.at \in {"persist", "persistProof"}
                /\ \/ ctl'.at = "finish" /\ ctl'.i = ctl.i /\ UNCHANGED status
                   \/ ctl'.at = "loop"
<1> USE DEF At, GoTo, PersistAs, NotDone
<1>1. ctl \in [at : CtlSteps, i : Intents \cup {NoIntent}, env : Envelopes]
  BY DEF Typed, InHand
<1>2. ASSUME PreparationAnswered
      PROVE  /\ ctl.at = "await" /\ ctl'.i = ctl.i
             /\ ctl'.at = "persist" \/ (ctl'.at = "open" /\ presult[Ledger] \in Ready)
  <2>1. ctl.at = "await"
    BY <1>2 DEF PreparationAnswered
  <2>2. CASE PersistAs(AnswerEnvelope(presult[Ledger]))
    BY <1>1, <2>1, <2>2
  <2>3. CASE GoTo("open") /\ presult[Ledger] \in Ready
    BY <1>1, <2>1, <2>3
  <2> QED
    BY <1>2, <2>2, <2>3 DEF PreparationAnswered, Ready
<1>3. ReadLateClaim =>
        /\ ctl.at = "lateClaim" /\ ctl'.i = ctl.i /\ ctl'.at \in {"persist", "retract"}
        /\ NotDone
  <2> CASE pclaim[Ledger] # NoIntent
    BY <1>1 DEF ReadLateClaim
  <2> CASE pclaim[Ledger] = NoIntent
    BY <1>1 DEF ReadLateClaim
  <2> QED
    OBVIOUS
<1>4. OpenOrderWindow =>
        /\ ctl.at = "open" /\ ctl'.i = ctl.i /\ ctl'.at \in {"fill", "persist"}
        /\ NotDone
  <2> DEFINE env == NotSubmitted
  <2>0. env # "done"
    BY DEF NotSubmitted
  <2> HIDE DEF env
  <2>1. OpenOrderWindow => ctl.at = "open" /\ (GoTo("fill") \/ PersistAs(env))
    BY DEF OpenOrderWindow, env
  <2> QED
    BY <1>1, <2>0, <2>1
<1>5. VerifyGivesUp =>
        /\ NotDone
        /\ ctl.at \in {"verify", "verifyAgain"} /\ ctl'.i = ctl.i
        /\ ctl'.at \in {"close", "persist"}
  <2>1. VerifyGivesUp => \/ At("verify") /\ GoTo("close")
                         \/ At("verifyAgain") /\ PersistAs("uncertain")
    BY DEF VerifyGivesUp
  <2> QED
    BY <1>1, <2>1
<1>6. ASSUME PersistFails
      PROVE  /\ NotDone
             /\ ctl.at \in {"persist", "persistProof"}
             /\ \/ ctl'.at = "finish" /\ ctl'.i = ctl.i /\ UNCHANGED status
                \/ ctl'.at = "loop"
  <2>1. \/ Settle("uncertain")
        \/ ctl' = [ctl EXCEPT !.at = "finish", !.env = "uncertain"] /\ UNCHANGED saved
    BY <1>6 DEF PersistFails
  <2>2. CASE Settle("uncertain")
    BY <1>6, <2>2 DEF PersistFails, Settle, SettleAs
  <2>3. CASE ctl' = [ctl EXCEPT !.at = "finish", !.env = "uncertain"] /\ UNCHANGED saved
    BY <1>1, <1>6, <2>3 DEF PersistFails, saved
  <2> QED
    BY <2>1, <2>2, <2>3
<1> QED
  BY <1>2, <1>3, <1>4, <1>5, <1>6

\* What was started is never armed again.
LEMMA BegunStays == Typed /\ [Next]_vars => Begun \subseteq Begun'
<1> USE DEF saved, files, mail, market, At, Hand, Ledger, GoTo, PersistAs, AbortAs, EaLedger
<1>1. ASSUME Named, Typed, InspectExistingEvidence PROVE Begun \subseteq Begun'
  BY <1>1, Reports DEF InspectExistingEvidence, Settle, SettleAs, Begun, Typed, InHand,
      InFiles, Named
<1>2. ASSUME Named, Typed, ClaimEntry PROVE Begun \subseteq Begun'
  BY <1>2, Reports DEF ClaimEntry, Settle, SettleAs, Begun, Typed, InHand, InFiles, Named
<1>3. ASSUME Named, Typed, PostPreparation PROVE Begun \subseteq Begun'
  BY <1>3, Reports DEF PostPreparation, Begun, Typed, InHand, InFiles, Named
<1>4. ASSUME Named, Typed, PreparationAnswered PROVE Begun \subseteq Begun'
  BY <1>4, Reports DEF PreparationAnswered, AnswerEnvelope, Begun, Typed, InHand, InFiles, Named
<1>5. ASSUME Named, Typed, PreparationLate PROVE Begun \subseteq Begun'
  BY <1>5, Reports DEF PreparationLate, Begun, Typed, InHand, InFiles, Named
<1>6. ASSUME Named, Typed, ReadLateClaim PROVE Begun \subseteq Begun'
  BY <1>6, Reports DEF ReadLateClaim, Begun, Typed, InHand, InFiles, Named
<1>7. ASSUME Named, Typed, RetractPreparation PROVE Begun \subseteq Begun'
  BY <1>7, Reports DEF RetractPreparation, Begun, Typed, InHand, InFiles, Named
<1>8. ASSUME Named, Typed, OpenOrderWindow PROVE Begun \subseteq Begun'
  BY <1>8, Reports DEF OpenOrderWindow, NotSubmitted, Begun, Typed, InHand, InFiles, Named
<1>9. ASSUME Named, Typed, FillOrderWindow PROVE Begun \subseteq Begun'
  BY <1>9, Reports DEF FillOrderWindow, Begun, Typed, InHand, InFiles, Named
<1>10. ASSUME Named, Typed, FillFails PROVE Begun \subseteq Begun'
  BY <1>10, Reports DEF FillFails, NotSubmitted, Begun, Typed, InHand, InFiles, Named
<1>11. ASSUME Named, Typed, FillTimesOut PROVE Begun \subseteq Begun'
  BY <1>11, Reports DEF FillTimesOut, NotSubmitted, Begun, Typed, InHand, InFiles, Named
<1>12. ASSUME Named, Typed, PressButton PROVE Begun \subseteq Begun'
  BY <1>12, Reports DEF PressButton, Begun, Typed, InHand, InFiles, Named
<1>13. ASSUME Named, Typed, SubmitRefused PROVE Begun \subseteq Begun'
  BY <1>13, Reports DEF SubmitRefused, NotSubmitted, Begun, Typed, InHand, InFiles, Named
<1>14. ASSUME Named, Typed, SubmitTimesOut PROVE Begun \subseteq Begun'
  BY <1>14, Reports DEF SubmitTimesOut, Begun, Typed, InHand, InFiles, Named
<1>15. ASSUME Named, Typed, SubmitAnswered PROVE Begun \subseteq Begun'
  BY <1>15, Reports DEF SubmitAnswered, Begun, Typed, InHand, InFiles, Named
<1>16. ASSUME Named, Typed, VerifyPosition PROVE Begun \subseteq Begun'
  BY <1>16, Reports DEF VerifyPosition, PositionSeen, Begun, Typed, InHand, InFiles, Named
<1>17. ASSUME Named, Typed, VerifyGivesUp PROVE Begun \subseteq Begun'
  BY <1>17, Reports DEF VerifyGivesUp, Begun, Typed, InHand, InFiles, Named
<1>18. ASSUME Named, Typed, CloseOrderWindow PROVE Begun \subseteq Begun'
  BY <1>18, Reports DEF CloseOrderWindow, AfterClose, Settle, SettleAs, Begun, Typed,
      InHand, InFiles, Named
<1>19. ASSUME Named, Typed, PersistFinal PROVE Begun \subseteq Begun'
  BY <1>19, Reports DEF PersistFinal, Settle, SettleAs, Begun, Typed, InHand, InFiles, Named
<1>20. ASSUME Named, Typed, ReadLateProof PROVE Begun \subseteq Begun'
  BY <1>20, Reports DEF ReadLateProof, PositionSeen, Settle, SettleAs, Begun, Typed,
      InHand, InFiles, Named
<1>21. ASSUME Named, Typed, NoLateProof PROVE Begun \subseteq Begun'
  BY <1>21, Reports DEF NoLateProof, Settle, SettleAs, Begun, Typed, InHand, InFiles, Named
<1>22. ASSUME Named, Typed, Restart PROVE Begun \subseteq Begun'
  BY <1>22, Reports DEF Restart, Begun, Typed, InHand, InFiles, Named
<1>23. ASSUME Named, Typed, InspectBlind PROVE Begun \subseteq Begun'
  BY <1>23, Reports DEF InspectBlind, Begun, Typed, InHand, InFiles, Named
<1>24. ASSUME Named, Typed, ClaimFails PROVE Begun \subseteq Begun'
  BY <1>24, Reports DEF ClaimFails, Settle, SettleAs, Begun, Typed, InHand, InFiles, Named
<1>25. ASSUME Named, Typed, PostFails PROVE Begun \subseteq Begun'
  BY <1>25, Reports DEF PostFails, Begun, Typed, InHand, InFiles, Named
<1>26. ASSUME Named, Typed, RetractFails PROVE Begun \subseteq Begun'
  BY <1>26, Reports DEF RetractFails, Begun, Typed, InHand, InFiles, Named
<1>27. ASSUME Named, Typed, RunnerFails PROVE Begun \subseteq Begun'
  BY <1>27, Reports DEF RunnerFails, NotSubmitted, Begun, Typed, InHand, InFiles, Named
<1>28. ASSUME Named, Typed, WindowComesLate PROVE Begun \subseteq Begun'
  BY <1>28, Reports DEF WindowComesLate, NotSubmitted, Begun, Typed, InHand, InFiles, Named
<1>29. ASSUME Named, Typed, SubmitAnswerWrong PROVE Begun \subseteq Begun'
  BY <1>29, Reports DEF SubmitAnswerWrong, NotSubmitted, Begun, Typed, InHand, InFiles, Named
<1>30. ASSUME Named, Typed, VerifyFails PROVE Begun \subseteq Begun'
  BY <1>30, Reports DEF VerifyFails, Begun, Typed, InHand, InFiles, Named
<1>31. ASSUME Named, Typed, CloseFails PROVE Begun \subseteq Begun'
  BY <1>31, Reports DEF CloseFails, AfterClose, Settle, SettleAs, Begun, Typed, InHand,
      InFiles, Named
<1>32. ASSUME Named, Typed, PersistFails PROVE Begun \subseteq Begun'
  BY <1>32, Reports DEF PersistFails, Settle, SettleAs, Begun, Typed, InHand, InFiles, Named
<1>33. ASSUME Named, Typed, LateProofFails PROVE Begun \subseteq Begun'
  BY <1>33, Reports DEF LateProofFails, Settle, SettleAs, Begun, Typed, InHand, InFiles, Named
<1>34. ASSUME Named, Typed, EaWriteFails PROVE Begun \subseteq Begun'
  BY <1>34, Reports DEF EaWriteFails, Begun, Typed, InHand, InFiles, Named
<1>35. ASSUME Named, Typed, CrashController PROVE Begun \subseteq Begun'
  BY <1>35, Reports DEF CrashController, Begun, Typed, InHand, InFiles, Named
<1>36. ASSUME Named, Typed, CrashEA PROVE Begun \subseteq Begun'
  BY <1>36, Reports DEF CrashEA, Begun, Typed, InHand, InFiles, Named
<1>37. ASSUME Named, Typed, LoseState PROVE Begun \subseteq Begun'
  BY <1>37, Reports DEF LoseState, Begun, Typed, InHand, InFiles, Named
<1>38. ASSUME Named, Typed, EaPolls PROVE Begun \subseteq Begun'
  BY <1>38, Reports DEF EaPolls, Begun, Typed, InHand, InFiles, Named
<1>39. ASSUME Named, Typed, EaFence PROVE Begun \subseteq Begun'
  BY <1>39, Reports DEF EaFence, Begun, Typed, InHand, InFiles, Named
<1>40. ASSUME Named, Typed, EaExecutes PROVE Begun \subseteq Begun'
  BY <1>40, Reports DEF EaExecutes, Nets, Begun, Typed, InHand, InFiles, Named
<1>41. ASSUME Named, Typed, EaWritesResult PROVE Begun \subseteq Begun'
  BY <1>41, Reports DEF EaWritesResult, Begun, Typed, InHand, InFiles, Named
<1>42. ASSUME Named, Typed, EaDeletesTask PROVE Begun \subseteq Begun'
  BY <1>42, Reports DEF EaDeletesTask, Begun, Typed, InHand, InFiles, Named
<1>43. ASSUME Named, Typed, OperatorOpensWindow PROVE Begun \subseteq Begun'
  BY <1>43, Reports DEF OperatorOpensWindow, Begun, Typed, InHand, InFiles, Named
<1>44. ASSUME Named, Typed, OperatorClosesWindow PROVE Begun \subseteq Begun'
  BY <1>44, Reports DEF OperatorClosesWindow, Begun, Typed, InHand, InFiles, Named
<1>45. ASSUME Named, Typed, NEW i \in Intents, ReconcileBlind(i) PROVE Begun \subseteq Begun'
  BY <1>45, Reports DEF ReconcileBlind, SettleAs, Begun, Typed, InHand, InFiles, Named
<1>46. ASSUME Named, Typed, NEW i \in Intents, Start(i) PROVE Begun \subseteq Begun'
  BY <1>46, Reports DEF Start, Take, Begun, Typed, InHand, InFiles, Named
<1>47. ASSUME Named, Typed, NEW i \in Intents, Reconcile(i) PROVE Begun \subseteq Begun'
  BY <1>47, Reports DEF Reconcile, SettleAs, Take, LateProofAllowed, Begun, Typed, InHand,
      InFiles, Named
<1>48. ASSUME Named, Typed, NEW i \in Intents, Arm(i) PROVE Begun \subseteq Begun'
  BY <1>48, Reports DEF Arm, Begun, Typed, InHand, InFiles, Named
<1>49. ASSUME Named, Typed, NEW i \in Intents, AgeOut(i) PROVE Begun \subseteq Begun'
  BY <1>49, Reports DEF AgeOut, Begun, Typed, InHand, InFiles, Named
<1>50. ASSUME Named, Typed, NEW o \in Origins, OrderAnswered(o) PROVE Begun \subseteq Begun'
  BY <1>50, Reports DEF OrderAnswered, Begun, Typed, InHand, InFiles, Named
<1>51. ASSUME Named, Typed, NEW o \in Origins, PositionCloses(o) PROVE Begun \subseteq Begun'
  BY <1>51, Reports DEF PositionCloses, Begun, Typed, InHand, InFiles, Named
<1>52. ASSUME Named, Typed, UNCHANGED vars PROVE Begun \subseteq Begun'
  BY <1>52 DEF vars, Begun, Typed, InHand, InFiles, Named
<1> QED
  BY Facts, <1>1, <1>2, <1>3, <1>4, <1>5, <1>6, <1>7, <1>8, <1>9, <1>10, <1>11, <1>12,
      <1>13, <1>14, <1>15, <1>16, <1>17, <1>18, <1>19, <1>20, <1>21, <1>22, <1>23, <1>24,
      <1>25, <1>26, <1>27, <1>28, <1>29, <1>30, <1>31, <1>32, <1>33, <1>34, <1>35, <1>36,
      <1>37, <1>38, <1>39, <1>40, <1>41, <1>42, <1>43, <1>44, <1>45, <1>46, <1>47, <1>48,
      <1>49, <1>50, <1>51, <1>52 DEF Next, DispatchStep, FailingStep, EaStep, Environment,
      Visit

-----------------------------------------------------------------------------
(* The claim *)

\* What is in hand stays claimed and executing.
LEMMA HoldingStep == Typed /\ Holding /\ Claimed /\ [Next]_vars => Holding'
<1> USE DEF saved, files, mail, market, At, Hand, Ledger, GoTo, PersistAs, AbortAs, EaLedger
<1>1. ASSUME Named, Typed, Holding, Claimed, InspectExistingEvidence PROVE Holding'
  BY <1>1 DEF InspectExistingEvidence, Settle, SettleAs, Holding, Claimed, Owning, Typed,
      InHand, InFiles, Named
<1>2. ASSUME Named, Typed, Holding, Claimed, ClaimEntry PROVE Holding'
  BY <1>2 DEF ClaimEntry, Settle, SettleAs, Holding, Claimed, Owning, Typed, InHand,
      InFiles, Named
<1>3. ASSUME Named, Typed, Holding, Claimed, PostPreparation PROVE Holding'
  BY <1>3 DEF PostPreparation, Holding, Claimed, Owning, Typed, InHand, InFiles, Named
<1>4. ASSUME Named, Typed, Holding, Claimed, PreparationAnswered PROVE Holding'
  <2>1. UNCHANGED <<status, claim>>
    BY <1>4 DEF PreparationAnswered
  <2> QED
    BY <1>4, <2>1, Moves DEF Holding, Owning, Typed, InHand, Ledger, Hand
<1>5. ASSUME Named, Typed, Holding, Claimed, PreparationLate PROVE Holding'
  BY <1>5 DEF PreparationLate, Holding, Claimed, Owning, Typed, InHand, InFiles, Named
<1>6. ASSUME Named, Typed, Holding, Claimed, ReadLateClaim PROVE Holding'
  <2>1. UNCHANGED <<status, claim>>
    BY <1>6 DEF ReadLateClaim
  <2> QED
    BY <1>6, <2>1, Moves DEF Holding, Owning, Typed, InHand, Ledger, Hand
<1>7. ASSUME Named, Typed, Holding, Claimed, RetractPreparation PROVE Holding'
  BY <1>7 DEF RetractPreparation, Holding, Claimed, Owning, Typed, InHand, InFiles, Named
<1>8. ASSUME Named, Typed, Holding, Claimed, OpenOrderWindow PROVE Holding'
  <2>1. UNCHANGED <<status, claim>>
    BY <1>8 DEF OpenOrderWindow
  <2> QED
    BY <1>8, <2>1, Moves DEF Holding, Owning, Typed, InHand, Ledger, Hand
<1>9. ASSUME Named, Typed, Holding, Claimed, FillOrderWindow PROVE Holding'
  BY <1>9 DEF FillOrderWindow, Holding, Claimed, Owning, Typed, InHand, InFiles, Named
<1>10. ASSUME Named, Typed, Holding, Claimed, FillFails PROVE Holding'
  BY <1>10 DEF FillFails, NotSubmitted, Holding, Claimed, Owning, Typed, InHand, InFiles, Named
<1>11. ASSUME Named, Typed, Holding, Claimed, FillTimesOut PROVE Holding'
  BY <1>11 DEF FillTimesOut, NotSubmitted, Holding, Claimed, Owning, Typed, InHand,
      InFiles, Named
<1>12. ASSUME Named, Typed, Holding, Claimed, PressButton PROVE Holding'
  BY <1>12 DEF PressButton, Holding, Claimed, Owning, Typed, InHand, InFiles, Named
<1>13. ASSUME Named, Typed, Holding, Claimed, SubmitRefused PROVE Holding'
  BY <1>13 DEF SubmitRefused, NotSubmitted, Holding, Claimed, Owning, Typed, InHand,
      InFiles, Named
<1>14. ASSUME Named, Typed, Holding, Claimed, SubmitTimesOut PROVE Holding'
  BY <1>14 DEF SubmitTimesOut, Holding, Claimed, Owning, Typed, InHand, InFiles, Named
<1>15. ASSUME Named, Typed, Holding, Claimed, SubmitAnswered PROVE Holding'
  BY <1>15 DEF SubmitAnswered, Holding, Claimed, Owning, Typed, InHand, InFiles, Named
<1>16. ASSUME Named, Typed, Holding, Claimed, VerifyPosition PROVE Holding'
  BY <1>16 DEF VerifyPosition, PositionSeen, Holding, Claimed, Owning, Typed, InHand,
      InFiles, Named
<1>17. ASSUME Named, Typed, Holding, Claimed, VerifyGivesUp PROVE Holding'
  <2>1. UNCHANGED <<status, claim>>
    BY <1>17 DEF VerifyGivesUp
  <2> QED
    BY <1>17, <2>1, Moves DEF Holding, Owning, Typed, InHand, Ledger, Hand
<1>18. ASSUME Named, Typed, Holding, Claimed, CloseOrderWindow PROVE Holding'
  BY <1>18 DEF CloseOrderWindow, AfterClose, Settle, SettleAs, Holding, Claimed, Owning,
      Typed, InHand, InFiles, Named
<1>19. ASSUME Named, Typed, Holding, Claimed, PersistFinal PROVE Holding'
  BY <1>19 DEF PersistFinal, Settle, SettleAs, Holding, Claimed, Owning, Typed, InHand,
      InFiles, Named
<1>20. ASSUME Named, Typed, Holding, Claimed, ReadLateProof PROVE Holding'
  BY <1>20 DEF ReadLateProof, PositionSeen, Settle, SettleAs, Holding, Claimed, Owning,
      Typed, InHand, InFiles, Named
<1>21. ASSUME Named, Typed, Holding, Claimed, NoLateProof PROVE Holding'
  BY <1>21 DEF NoLateProof, Settle, SettleAs, Holding, Claimed, Owning, Typed, InHand,
      InFiles, Named
<1>22. ASSUME Named, Typed, Holding, Claimed, Restart PROVE Holding'
  BY <1>22 DEF Restart, Holding, Claimed, Owning, Typed, InHand, InFiles, Named
<1>23. ASSUME Named, Typed, Holding, Claimed, InspectBlind PROVE Holding'
  BY <1>23 DEF InspectBlind, Holding, Claimed, Owning, Typed, InHand, InFiles, Named
<1>24. ASSUME Named, Typed, Holding, Claimed, ClaimFails PROVE Holding'
  BY <1>24 DEF ClaimFails, Settle, SettleAs, Holding, Claimed, Owning, Typed, InHand,
      InFiles, Named
<1>25. ASSUME Named, Typed, Holding, Claimed, PostFails PROVE Holding'
  BY <1>25 DEF PostFails, Holding, Claimed, Owning, Typed, InHand, InFiles, Named
<1>26. ASSUME Named, Typed, Holding, Claimed, RetractFails PROVE Holding'
  BY <1>26 DEF RetractFails, Holding, Claimed, Owning, Typed, InHand, InFiles, Named
<1>27. ASSUME Named, Typed, Holding, Claimed, RunnerFails PROVE Holding'
  BY <1>27 DEF RunnerFails, NotSubmitted, Holding, Claimed, Owning, Typed, InHand,
      InFiles, Named
<1>28. ASSUME Named, Typed, Holding, Claimed, WindowComesLate PROVE Holding'
  BY <1>28 DEF WindowComesLate, NotSubmitted, Holding, Claimed, Owning, Typed, InHand,
      InFiles, Named
<1>29. ASSUME Named, Typed, Holding, Claimed, SubmitAnswerWrong PROVE Holding'
  BY <1>29 DEF SubmitAnswerWrong, NotSubmitted, Holding, Claimed, Owning, Typed, InHand,
      InFiles, Named
<1>30. ASSUME Named, Typed, Holding, Claimed, VerifyFails PROVE Holding'
  BY <1>30 DEF VerifyFails, Holding, Claimed, Owning, Typed, InHand, InFiles, Named
<1>31. ASSUME Named, Typed, Holding, Claimed, CloseFails PROVE Holding'
  BY <1>31 DEF CloseFails, AfterClose, Settle, SettleAs, Holding, Claimed, Owning, Typed,
      InHand, InFiles, Named
<1>32. ASSUME Named, Typed, Holding, Claimed, PersistFails PROVE Holding'
  <2>1. UNCHANGED <<claim>>
    BY <1>32 DEF PersistFails
  <2> QED
    BY <1>32, <2>1, Moves DEF Holding, Owning, Typed, InHand, Ledger, Hand
<1>33. ASSUME Named, Typed, Holding, Claimed, LateProofFails PROVE Holding'
  BY <1>33 DEF LateProofFails, Settle, SettleAs, Holding, Claimed, Owning, Typed, InHand,
      InFiles, Named
<1>34. ASSUME Named, Typed, Holding, Claimed, EaWriteFails PROVE Holding'
  BY <1>34 DEF EaWriteFails, Holding, Claimed, Owning, Typed, InHand, InFiles, Named
<1>35. ASSUME Named, Typed, Holding, Claimed, CrashController PROVE Holding'
  BY <1>35 DEF CrashController, Holding, Claimed, Owning, Typed, InHand, InFiles, Named
<1>36. ASSUME Named, Typed, Holding, Claimed, CrashEA PROVE Holding'
  BY <1>36 DEF CrashEA, Holding, Claimed, Owning, Typed, InHand, InFiles, Named
<1>37. ASSUME Named, Typed, Holding, Claimed, LoseState PROVE Holding'
  BY <1>37 DEF LoseState, Holding, Claimed, Owning, Typed, InHand, InFiles, Named
<1>38. ASSUME Named, Typed, Holding, Claimed, EaPolls PROVE Holding'
  BY <1>38 DEF EaPolls, Holding, Claimed, Owning, Typed, InHand, InFiles, Named
<1>39. ASSUME Named, Typed, Holding, Claimed, EaFence PROVE Holding'
  BY <1>39 DEF EaFence, Holding, Claimed, Owning, Typed, InHand, InFiles, Named
<1>40. ASSUME Named, Typed, Holding, Claimed, EaExecutes PROVE Holding'
  BY <1>40 DEF EaExecutes, Nets, Holding, Claimed, Owning, Typed, InHand, InFiles, Named
<1>41. ASSUME Named, Typed, Holding, Claimed, EaWritesResult PROVE Holding'
  BY <1>41 DEF EaWritesResult, Holding, Claimed, Owning, Typed, InHand, InFiles, Named
<1>42. ASSUME Named, Typed, Holding, Claimed, EaDeletesTask PROVE Holding'
  BY <1>42 DEF EaDeletesTask, Holding, Claimed, Owning, Typed, InHand, InFiles, Named
<1>43. ASSUME Named, Typed, Holding, Claimed, OperatorOpensWindow PROVE Holding'
  BY <1>43 DEF OperatorOpensWindow, Holding, Claimed, Owning, Typed, InHand, InFiles, Named
<1>44. ASSUME Named, Typed, Holding, Claimed, OperatorClosesWindow PROVE Holding'
  BY <1>44 DEF OperatorClosesWindow, Holding, Claimed, Owning, Typed, InHand, InFiles, Named
<1>45. ASSUME Named, Typed, Holding, Claimed, NEW i \in Intents, ReconcileBlind(i)
      PROVE Holding'
  BY <1>45 DEF ReconcileBlind, SettleAs, Holding, Claimed, Owning, Typed, InHand, InFiles, Named
<1>46. ASSUME Named, Typed, Holding, Claimed, NEW i \in Intents, Start(i) PROVE Holding'
  BY <1>46 DEF Start, Take, Holding, Claimed, Owning, Typed, InHand, InFiles, Named
<1>47. ASSUME Named, Typed, Holding, Claimed, NEW i \in Intents, Reconcile(i) PROVE Holding'
  BY <1>47 DEF Reconcile, SettleAs, Take, LateProofAllowed, Holding, Claimed, Owning,
      Typed, InHand, InFiles, Named
<1>48. ASSUME Named, Typed, Holding, Claimed, NEW i \in Intents, Arm(i) PROVE Holding'
  BY <1>48 DEF Arm, Holding, Claimed, Owning, Typed, InHand, InFiles, Named
<1>49. ASSUME Named, Typed, Holding, Claimed, NEW i \in Intents, AgeOut(i) PROVE Holding'
  BY <1>49 DEF AgeOut, Holding, Claimed, Owning, Typed, InHand, InFiles, Named
<1>50. ASSUME Named, Typed, Holding, Claimed, NEW o \in Origins, OrderAnswered(o) PROVE Holding'
  BY <1>50 DEF OrderAnswered, Holding, Claimed, Owning, Typed, InHand, InFiles, Named
<1>51. ASSUME Named, Typed, Holding, Claimed, NEW o \in Origins, PositionCloses(o)
      PROVE Holding'
  BY <1>51 DEF PositionCloses, Holding, Claimed, Owning, Typed, InHand, InFiles, Named
<1>52. ASSUME Named, Typed, Holding, Claimed, UNCHANGED vars PROVE Holding'
  BY <1>52 DEF vars, Holding, Claimed, Owning, Typed, InHand, InFiles, Named
<1> QED
  BY Facts, <1>1, <1>2, <1>3, <1>4, <1>5, <1>6, <1>7, <1>8, <1>9, <1>10, <1>11, <1>12,
      <1>13, <1>14, <1>15, <1>16, <1>17, <1>18, <1>19, <1>20, <1>21, <1>22, <1>23, <1>24,
      <1>25, <1>26, <1>27, <1>28, <1>29, <1>30, <1>31, <1>32, <1>33, <1>34, <1>35, <1>36,
      <1>37, <1>38, <1>39, <1>40, <1>41, <1>42, <1>43, <1>44, <1>45, <1>46, <1>47, <1>48,
      <1>49, <1>50, <1>51, <1>52 DEF Next, DispatchStep, FailingStep, EaStep, Environment,
      Visit

\* A ledger's claim, task and work stay one intent's.
LEMMA ClaimedStep ==
    Typed /\ Holding /\ Claimed /\ Prepared /\ [Next]_vars => Claimed'
<1> USE DEF saved, files, mail, market, At, Hand, Ledger, GoTo, PersistAs, AbortAs, EaLedger
<1> DEFINE Before == Named /\ Typed /\ Holding /\ Claimed /\ Prepared /\ Begun \subseteq Begun'
<1>1. ASSUME Before, InspectExistingEvidence PROVE Claimed'
  BY <1>1 DEF InspectExistingEvidence, Settle, SettleAs, Holding, Claimed, Prepared,
      Owning, Typed, InHand, InFiles, Named
<1>2. ASSUME Before, ClaimEntry PROVE Claimed'
  <2>1. UNCHANGED <<ptask, work, rolled, clicks>> /\ ctl.at = "claim"
    BY <1>2 DEF ClaimEntry
  <2>2. CASE UNCHANGED claim
    BY <1>2, <2>1, <2>2 DEF Claimed
  <2>3. CASE claim[Ledger] = NoIntent /\ claim' = [claim EXCEPT ![Ledger] = Hand] /\ UNCHANGED saved
    <3>1. Hand \in Begun /\ Ledger \in Origins
      BY <1>2, <2>1 DEF Holding, Begun, Named, Typed, InHand
    <3>2. ptask[Ledger] = NoIntent /\ work[Ledger] = NoIntent /\ rolled[Ledger] = NoIntent
      BY <1>2, <2>3, <3>1 DEF Claimed, Named
    <3> QED
      BY <1>2, <2>1, <2>3, <3>1, <3>2 DEF Claimed, Named, Typed, InFiles, Begun
  <2> QED
    BY <1>2, <2>2, <2>3 DEF ClaimEntry
<1>3. ASSUME Before, PostPreparation PROVE Claimed'
  BY <1>3 DEF PostPreparation, Holding, Claimed, Prepared, Owning, Typed, InHand, InFiles, Named
<1>4. ASSUME Before, PreparationAnswered PROVE Claimed'
  BY <1>4 DEF PreparationAnswered, AnswerEnvelope, Holding, Claimed, Prepared, Owning,
      Typed, InHand, InFiles, Named
<1>5. ASSUME Before, PreparationLate PROVE Claimed'
  BY <1>5 DEF PreparationLate, Holding, Claimed, Prepared, Owning, Typed, InHand, InFiles, Named
<1>6. ASSUME Before, ReadLateClaim PROVE Claimed'
  BY <1>6 DEF ReadLateClaim, Holding, Claimed, Prepared, Owning, Typed, InHand, InFiles, Named
<1>7. ASSUME Before, RetractPreparation PROVE Claimed'
  BY <1>7 DEF RetractPreparation, Holding, Claimed, Prepared, Owning, Typed, InHand,
      InFiles, Named
<1>8. ASSUME Before, OpenOrderWindow PROVE Claimed'
  BY <1>8 DEF OpenOrderWindow, NotSubmitted, Holding, Claimed, Prepared, Owning, Typed,
      InHand, InFiles, Named
<1>9. ASSUME Before, FillOrderWindow PROVE Claimed'
  BY <1>9 DEF FillOrderWindow, Holding, Claimed, Prepared, Owning, Typed, InHand, InFiles, Named
<1>10. ASSUME Before, FillFails PROVE Claimed'
  BY <1>10 DEF FillFails, NotSubmitted, Holding, Claimed, Prepared, Owning, Typed, InHand,
      InFiles, Named
<1>11. ASSUME Before, FillTimesOut PROVE Claimed'
  BY <1>11 DEF FillTimesOut, NotSubmitted, Holding, Claimed, Prepared, Owning, Typed,
      InHand, InFiles, Named
<1>12. ASSUME Before, PressButton PROVE Claimed'
  BY <1>12 DEF PressButton, Holding, Claimed, Prepared, Owning, Typed, InHand, InFiles, Named
<1>13. ASSUME Before, SubmitRefused PROVE Claimed'
  BY <1>13 DEF SubmitRefused, NotSubmitted, Holding, Claimed, Prepared, Owning, Typed,
      InHand, InFiles, Named
<1>14. ASSUME Before, SubmitTimesOut PROVE Claimed'
  BY <1>14 DEF SubmitTimesOut, Holding, Claimed, Prepared, Owning, Typed, InHand, InFiles, Named
<1>15. ASSUME Before, SubmitAnswered PROVE Claimed'
  BY <1>15 DEF SubmitAnswered, Holding, Claimed, Prepared, Owning, Typed, InHand, InFiles, Named
<1>16. ASSUME Before, VerifyPosition PROVE Claimed'
  BY <1>16 DEF VerifyPosition, PositionSeen, Holding, Claimed, Prepared, Owning, Typed,
      InHand, InFiles, Named
<1>17. ASSUME Before, VerifyGivesUp PROVE Claimed'
  BY <1>17 DEF VerifyGivesUp, Holding, Claimed, Prepared, Owning, Typed, InHand, InFiles, Named
<1>18. ASSUME Before, CloseOrderWindow PROVE Claimed'
  BY <1>18 DEF CloseOrderWindow, AfterClose, Settle, SettleAs, Holding, Claimed, Prepared,
      Owning, Typed, InHand, InFiles, Named
<1>19. ASSUME Before, PersistFinal PROVE Claimed'
  BY <1>19 DEF PersistFinal, Settle, SettleAs, Holding, Claimed, Prepared, Owning, Typed,
      InHand, InFiles, Named
<1>20. ASSUME Before, ReadLateProof PROVE Claimed'
  BY <1>20 DEF ReadLateProof, PositionSeen, Settle, SettleAs, Holding, Claimed, Prepared,
      Owning, Typed, InHand, InFiles, Named
<1>21. ASSUME Before, NoLateProof PROVE Claimed'
  BY <1>21 DEF NoLateProof, Settle, SettleAs, Holding, Claimed, Prepared, Owning, Typed,
      InHand, InFiles, Named
<1>22. ASSUME Before, Restart PROVE Claimed'
  BY <1>22 DEF Restart, Holding, Claimed, Prepared, Owning, Typed, InHand, InFiles, Named
<1>23. ASSUME Before, InspectBlind PROVE Claimed'
  BY <1>23 DEF InspectBlind, Holding, Claimed, Prepared, Owning, Typed, InHand, InFiles, Named
<1>24. ASSUME Before, ClaimFails PROVE Claimed'
  <2>1. UNCHANGED <<ptask, work, rolled, clicks>>
    BY <1>24 DEF ClaimFails
  <2>2. \A o \in Origins : claim'[o] = claim[o] \/ (claim[o] = NoIntent /\ claim'[o] \notin Intents)
    BY <1>24 DEF ClaimFails, Torn, Named, Typed, InFiles
  <2>3. \A o \in Origins : claim[o] = NoIntent =>
            ptask[o] = NoIntent /\ work[o] = NoIntent /\ rolled[o] = NoIntent /\ clicks[o] = 0
    BY <1>24 DEF Claimed, Named
  <2> QED
    BY <1>24, <2>1, <2>2, <2>3 DEF Claimed
<1>25. ASSUME Before, PostFails PROVE Claimed'
  BY <1>25 DEF PostFails, Holding, Claimed, Prepared, Owning, Typed, InHand, InFiles, Named
<1>26. ASSUME Before, RetractFails PROVE Claimed'
  BY <1>26 DEF RetractFails, Holding, Claimed, Prepared, Owning, Typed, InHand, InFiles, Named
<1>27. ASSUME Before, RunnerFails PROVE Claimed'
  BY <1>27 DEF RunnerFails, NotSubmitted, Holding, Claimed, Prepared, Owning, Typed,
      InHand, InFiles, Named
<1>28. ASSUME Before, WindowComesLate PROVE Claimed'
  BY <1>28 DEF WindowComesLate, NotSubmitted, Holding, Claimed, Prepared, Owning, Typed,
      InHand, InFiles, Named
<1>29. ASSUME Before, SubmitAnswerWrong PROVE Claimed'
  BY <1>29 DEF SubmitAnswerWrong, NotSubmitted, Holding, Claimed, Prepared, Owning, Typed,
      InHand, InFiles, Named
<1>30. ASSUME Before, VerifyFails PROVE Claimed'
  BY <1>30 DEF VerifyFails, Holding, Claimed, Prepared, Owning, Typed, InHand, InFiles, Named
<1>31. ASSUME Before, CloseFails PROVE Claimed'
  BY <1>31 DEF CloseFails, AfterClose, Settle, SettleAs, Holding, Claimed, Prepared,
      Owning, Typed, InHand, InFiles, Named
<1>32. ASSUME Before, PersistFails PROVE Claimed'
  BY <1>32 DEF PersistFails, Settle, SettleAs, Holding, Claimed, Prepared, Owning, Typed,
      InHand, InFiles, Named
<1>33. ASSUME Before, LateProofFails PROVE Claimed'
  BY <1>33 DEF LateProofFails, Settle, SettleAs, Holding, Claimed, Prepared, Owning,
      Typed, InHand, InFiles, Named
<1>34. ASSUME Before, EaWriteFails PROVE Claimed'
  BY <1>34 DEF EaWriteFails, Holding, Claimed, Prepared, Owning, Typed, InHand, InFiles, Named
<1>35. ASSUME Before, CrashController PROVE Claimed'
  <2>1. UNCHANGED <<ptask, work, rolled, clicks>>
    BY <1>35 DEF CrashController
  <2>2. \A o \in Origins : claim'[o] = claim[o] \/ (claim[o] = NoIntent /\ claim'[o] \notin Intents)
    BY <1>35 DEF CrashController, Torn, Named, Typed, InFiles
  <2>3. \A o \in Origins : claim[o] = NoIntent =>
            ptask[o] = NoIntent /\ work[o] = NoIntent /\ rolled[o] = NoIntent /\ clicks[o] = 0
    BY <1>35 DEF Claimed, Named
  <2> QED
    BY <1>35, <2>1, <2>2, <2>3 DEF Claimed
<1>36. ASSUME Before, CrashEA PROVE Claimed'
  BY <1>36 DEF CrashEA, Holding, Claimed, Prepared, Owning, Typed, InHand, InFiles, Named
<1>37. ASSUME Before, LoseState PROVE Claimed'
  BY <1>37 DEF LoseState, Holding, Claimed, Prepared, Owning, Typed, InHand, InFiles, Named
<1>38. ASSUME Before, EaPolls PROVE Claimed'
  BY <1>38 DEF EaPolls, Holding, Claimed, Prepared, Owning, Typed, InHand, InFiles, Named
<1>39. ASSUME Before, EaFence PROVE Claimed'
  BY <1>39 DEF EaFence, Holding, Claimed, Prepared, Owning, Typed, InHand, InFiles, Named
<1>40. ASSUME Before, EaExecutes PROVE Claimed'
  BY <1>40 DEF EaExecutes, Nets, Holding, Claimed, Prepared, Owning, Typed, InHand,
      InFiles, Named
<1>41. ASSUME Before, EaWritesResult PROVE Claimed'
  BY <1>41 DEF EaWritesResult, Holding, Claimed, Prepared, Owning, Typed, InHand, InFiles, Named
<1>42. ASSUME Before, EaDeletesTask PROVE Claimed'
  BY <1>42 DEF EaDeletesTask, Holding, Claimed, Prepared, Owning, Typed, InHand, InFiles, Named
<1>43. ASSUME Before, OperatorOpensWindow PROVE Claimed'
  BY <1>43 DEF OperatorOpensWindow, Holding, Claimed, Prepared, Owning, Typed, InHand,
      InFiles, Named
<1>44. ASSUME Before, OperatorClosesWindow PROVE Claimed'
  BY <1>44 DEF OperatorClosesWindow, Holding, Claimed, Prepared, Owning, Typed, InHand,
      InFiles, Named
<1>45. ASSUME Before, NEW i \in Intents, ReconcileBlind(i) PROVE Claimed'
  BY <1>45 DEF ReconcileBlind, SettleAs, Holding, Claimed, Prepared, Owning, Typed,
      InHand, InFiles, Named
<1>46. ASSUME Before, NEW i \in Intents, Start(i) PROVE Claimed'
  BY <1>46 DEF Start, Take, Holding, Claimed, Prepared, Owning, Typed, InHand, InFiles, Named
<1>47. ASSUME Before, NEW i \in Intents, Reconcile(i) PROVE Claimed'
  BY <1>47 DEF Reconcile, SettleAs, Take, LateProofAllowed, Holding, Claimed, Prepared,
      Owning, Typed, InHand, InFiles, Named
<1>48. ASSUME Before, NEW i \in Intents, Arm(i) PROVE Claimed'
  BY <1>48 DEF Arm, Holding, Claimed, Prepared, Owning, Typed, InHand, InFiles, Named
<1>49. ASSUME Before, NEW i \in Intents, AgeOut(i) PROVE Claimed'
  BY <1>49 DEF AgeOut, Holding, Claimed, Prepared, Owning, Typed, InHand, InFiles, Named
<1>50. ASSUME Before, NEW o \in Origins, OrderAnswered(o) PROVE Claimed'
  BY <1>50 DEF OrderAnswered, Holding, Claimed, Prepared, Owning, Typed, InHand, InFiles, Named
<1>51. ASSUME Before, NEW o \in Origins, PositionCloses(o) PROVE Claimed'
  BY <1>51 DEF PositionCloses, Holding, Claimed, Prepared, Owning, Typed, InHand, InFiles, Named
<1>52. ASSUME Before, UNCHANGED vars PROVE Claimed'
  BY <1>52 DEF vars, Holding, Claimed, Prepared, Owning, Typed, InHand, InFiles, Named
<1> QED
  BY Facts, BegunStays, <1>1, <1>2, <1>3, <1>4, <1>5, <1>6, <1>7, <1>8, <1>9, <1>10,
      <1>11, <1>12, <1>13, <1>14, <1>15, <1>16, <1>17, <1>18, <1>19, <1>20, <1>21, <1>22,
      <1>23, <1>24, <1>25, <1>26, <1>27, <1>28, <1>29, <1>30, <1>31, <1>32, <1>33, <1>34,
      <1>35, <1>36, <1>37, <1>38, <1>39, <1>40, <1>41, <1>42, <1>43, <1>44, <1>45, <1>46,
      <1>47, <1>48, <1>49, <1>50, <1>51, <1>52 DEF Next, DispatchStep, FailingStep,
      EaStep, Environment, Visit

-----------------------------------------------------------------------------
(* The EA's preparation and the button *)

\* The EA prepares a ledger once.
LEMMA PreparedStep == Typed /\ Holding /\ Claimed /\ Prepared /\ [Next]_vars => Prepared'
<1> USE DEF saved, files, mail, market, At, Hand, Ledger, GoTo, PersistAs, AbortAs, EaLedger
<1> DEFINE Before == Named /\ Typed /\ Holding /\ Claimed /\ Prepared
<1>1. ASSUME Before, InspectExistingEvidence PROVE Prepared'
  BY <1>1 DEF InspectExistingEvidence, Settle, SettleAs, Holding, Claimed, Prepared,
      Owning, EaIdle, Answers, Typed, InHand, InFiles, Named
<1>2. ASSUME Before, ClaimEntry PROVE Prepared'
  BY <1>2 DEF ClaimEntry, Settle, SettleAs, Holding, Claimed, Prepared, Owning, EaIdle,
      Answers, Typed, InHand, InFiles, Named
<1>3. ASSUME Before, PostPreparation PROVE Prepared'
  BY <1>3 DEF PostPreparation, Holding, Claimed, Prepared, Owning, EaIdle, Answers, Typed,
      InHand, InFiles, Named
<1>4. ASSUME Before, PreparationAnswered PROVE Prepared'
  BY <1>4 DEF PreparationAnswered, AnswerEnvelope, Holding, Claimed, Prepared, Owning,
      EaIdle, Answers, Typed, InHand, InFiles, Named
<1>5. ASSUME Before, PreparationLate PROVE Prepared'
  BY <1>5 DEF PreparationLate, Holding, Claimed, Prepared, Owning, EaIdle, Answers, Typed,
      InHand, InFiles, Named
<1>6. ASSUME Before, ReadLateClaim PROVE Prepared'
  BY <1>6 DEF ReadLateClaim, Holding, Claimed, Prepared, Owning, EaIdle, Answers, Typed,
      InHand, InFiles, Named
<1>7. ASSUME Before, RetractPreparation PROVE Prepared'
  BY <1>7 DEF RetractPreparation, Holding, Claimed, Prepared, Owning, EaIdle, Answers,
      Typed, InHand, InFiles, Named
<1>8. ASSUME Before, OpenOrderWindow PROVE Prepared'
  BY <1>8 DEF OpenOrderWindow, NotSubmitted, Holding, Claimed, Prepared, Owning, EaIdle,
      Answers, Typed, InHand, InFiles, Named
<1>9. ASSUME Before, FillOrderWindow PROVE Prepared'
  BY <1>9 DEF FillOrderWindow, Holding, Claimed, Prepared, Owning, EaIdle, Answers, Typed,
      InHand, InFiles, Named
<1>10. ASSUME Before, FillFails PROVE Prepared'
  BY <1>10 DEF FillFails, NotSubmitted, Holding, Claimed, Prepared, Owning, EaIdle,
      Answers, Typed, InHand, InFiles, Named
<1>11. ASSUME Before, FillTimesOut PROVE Prepared'
  BY <1>11 DEF FillTimesOut, NotSubmitted, Holding, Claimed, Prepared, Owning, EaIdle,
      Answers, Typed, InHand, InFiles, Named
<1>12. ASSUME Before, PressButton PROVE Prepared'
  BY <1>12 DEF PressButton, Holding, Claimed, Prepared, Owning, EaIdle, Answers, Typed,
      InHand, InFiles, Named
<1>13. ASSUME Before, SubmitRefused PROVE Prepared'
  BY <1>13 DEF SubmitRefused, NotSubmitted, Holding, Claimed, Prepared, Owning, EaIdle,
      Answers, Typed, InHand, InFiles, Named
<1>14. ASSUME Before, SubmitTimesOut PROVE Prepared'
  BY <1>14 DEF SubmitTimesOut, Holding, Claimed, Prepared, Owning, EaIdle, Answers, Typed,
      InHand, InFiles, Named
<1>15. ASSUME Before, SubmitAnswered PROVE Prepared'
  BY <1>15 DEF SubmitAnswered, Holding, Claimed, Prepared, Owning, EaIdle, Answers, Typed,
      InHand, InFiles, Named
<1>16. ASSUME Before, VerifyPosition PROVE Prepared'
  BY <1>16 DEF VerifyPosition, PositionSeen, Holding, Claimed, Prepared, Owning, EaIdle,
      Answers, Typed, InHand, InFiles, Named
<1>17. ASSUME Before, VerifyGivesUp PROVE Prepared'
  BY <1>17 DEF VerifyGivesUp, Holding, Claimed, Prepared, Owning, EaIdle, Answers, Typed,
      InHand, InFiles, Named
<1>18. ASSUME Before, CloseOrderWindow PROVE Prepared'
  BY <1>18 DEF CloseOrderWindow, AfterClose, Settle, SettleAs, Holding, Claimed, Prepared,
      Owning, EaIdle, Answers, Typed, InHand, InFiles, Named
<1>19. ASSUME Before, PersistFinal PROVE Prepared'
  BY <1>19 DEF PersistFinal, Settle, SettleAs, Holding, Claimed, Prepared, Owning, EaIdle,
      Answers, Typed, InHand, InFiles, Named
<1>20. ASSUME Before, ReadLateProof PROVE Prepared'
  BY <1>20 DEF ReadLateProof, PositionSeen, Settle, SettleAs, Holding, Claimed, Prepared,
      Owning, EaIdle, Answers, Typed, InHand, InFiles, Named
<1>21. ASSUME Before, NoLateProof PROVE Prepared'
  BY <1>21 DEF NoLateProof, Settle, SettleAs, Holding, Claimed, Prepared, Owning, EaIdle,
      Answers, Typed, InHand, InFiles, Named
<1>22. ASSUME Before, Restart PROVE Prepared'
  BY <1>22 DEF Restart, Holding, Claimed, Prepared, Owning, EaIdle, Answers, Typed,
      InHand, InFiles, Named
<1>23. ASSUME Before, InspectBlind PROVE Prepared'
  BY <1>23 DEF InspectBlind, Holding, Claimed, Prepared, Owning, EaIdle, Answers, Typed,
      InHand, InFiles, Named
<1>24. ASSUME Before, ClaimFails PROVE Prepared'
  BY <1>24 DEF ClaimFails, Settle, SettleAs, Holding, Claimed, Prepared, Owning, EaIdle,
      Answers, Typed, InHand, InFiles, Named
<1>25. ASSUME Before, PostFails PROVE Prepared'
  BY <1>25 DEF PostFails, Holding, Claimed, Prepared, Owning, EaIdle, Answers, Typed,
      InHand, InFiles, Named
<1>26. ASSUME Before, RetractFails PROVE Prepared'
  BY <1>26 DEF RetractFails, Holding, Claimed, Prepared, Owning, EaIdle, Answers, Typed,
      InHand, InFiles, Named
<1>27. ASSUME Before, RunnerFails PROVE Prepared'
  BY <1>27 DEF RunnerFails, NotSubmitted, Holding, Claimed, Prepared, Owning, EaIdle,
      Answers, Typed, InHand, InFiles, Named
<1>28. ASSUME Before, WindowComesLate PROVE Prepared'
  BY <1>28 DEF WindowComesLate, NotSubmitted, Holding, Claimed, Prepared, Owning, EaIdle,
      Answers, Typed, InHand, InFiles, Named
<1>29. ASSUME Before, SubmitAnswerWrong PROVE Prepared'
  BY <1>29 DEF SubmitAnswerWrong, NotSubmitted, Holding, Claimed, Prepared, Owning,
      EaIdle, Answers, Typed, InHand, InFiles, Named
<1>30. ASSUME Before, VerifyFails PROVE Prepared'
  BY <1>30 DEF VerifyFails, Holding, Claimed, Prepared, Owning, EaIdle, Answers, Typed,
      InHand, InFiles, Named
<1>31. ASSUME Before, CloseFails PROVE Prepared'
  BY <1>31 DEF CloseFails, AfterClose, Settle, SettleAs, Holding, Claimed, Prepared,
      Owning, EaIdle, Answers, Typed, InHand, InFiles, Named
<1>32. ASSUME Before, PersistFails PROVE Prepared'
  BY <1>32 DEF PersistFails, Settle, SettleAs, Holding, Claimed, Prepared, Owning, EaIdle,
      Answers, Typed, InHand, InFiles, Named
<1>33. ASSUME Before, LateProofFails PROVE Prepared'
  BY <1>33 DEF LateProofFails, Settle, SettleAs, Holding, Claimed, Prepared, Owning,
      EaIdle, Answers, Typed, InHand, InFiles, Named
<1>34. ASSUME Before, EaWriteFails PROVE Prepared'
  BY <1>34 DEF EaWriteFails, Holding, Claimed, Prepared, Owning, EaIdle, Answers, Typed,
      InHand, InFiles, Named
<1>35. ASSUME Before, CrashController PROVE Prepared'
  BY <1>35 DEF CrashController, Holding, Claimed, Prepared, Owning, EaIdle, Answers,
      Typed, InHand, InFiles, Named
<1>36. ASSUME Before, CrashEA PROVE Prepared'
  BY <1>36 DEF CrashEA, Holding, Claimed, Prepared, Owning, EaIdle, Answers, Typed,
      InHand, InFiles, Named
<1>37. ASSUME Before, LoseState PROVE Prepared'
  BY <1>37 DEF LoseState, Holding, Claimed, Prepared, Owning, EaIdle, Answers, Typed,
      InHand, InFiles, Named
<1>38. ASSUME Before, EaPolls PROVE Prepared'
  BY <1>38 DEF EaPolls, Holding, Claimed, Prepared, Owning, EaIdle, Answers, Typed,
      InHand, InFiles, Named
<1>39. ASSUME Before, EaFence PROVE Prepared'
  BY <1>39 DEF EaFence, Holding, Claimed, Prepared, Owning, EaIdle, Answers, Typed,
      InHand, InFiles, Named
<1>40. ASSUME Before, EaExecutes PROVE Prepared'
  BY <1>40 DEF EaExecutes, Nets, Holding, Claimed, Prepared, Owning, EaIdle, Answers,
      Typed, InHand, InFiles, Named
<1>41. ASSUME Before, EaWritesResult PROVE Prepared'
  BY <1>41 DEF EaWritesResult, Holding, Claimed, Prepared, Owning, EaIdle, Answers, Typed,
      InHand, InFiles, Named
<1>42. ASSUME Before, EaDeletesTask PROVE Prepared'
  BY <1>42 DEF EaDeletesTask, Holding, Claimed, Prepared, Owning, EaIdle, Answers, Typed,
      InHand, InFiles, Named
<1>43. ASSUME Before, OperatorOpensWindow PROVE Prepared'
  BY <1>43 DEF OperatorOpensWindow, Holding, Claimed, Prepared, Owning, EaIdle, Answers,
      Typed, InHand, InFiles, Named
<1>44. ASSUME Before, OperatorClosesWindow PROVE Prepared'
  BY <1>44 DEF OperatorClosesWindow, Holding, Claimed, Prepared, Owning, EaIdle, Answers,
      Typed, InHand, InFiles, Named
<1>45. ASSUME Before, NEW i \in Intents, ReconcileBlind(i) PROVE Prepared'
  BY <1>45 DEF ReconcileBlind, SettleAs, Holding, Claimed, Prepared, Owning, EaIdle,
      Answers, Typed, InHand, InFiles, Named
<1>46. ASSUME Before, NEW i \in Intents, Start(i) PROVE Prepared'
  BY <1>46 DEF Start, Take, Holding, Claimed, Prepared, Owning, EaIdle, Answers, Typed,
      InHand, InFiles, Named
<1>47. ASSUME Before, NEW i \in Intents, Reconcile(i) PROVE Prepared'
  BY <1>47 DEF Reconcile, SettleAs, Take, LateProofAllowed, Holding, Claimed, Prepared,
      Owning, EaIdle, Answers, Typed, InHand, InFiles, Named
<1>48. ASSUME Before, NEW i \in Intents, Arm(i) PROVE Prepared'
  BY <1>48 DEF Arm, Holding, Claimed, Prepared, Owning, EaIdle, Answers, Typed, InHand,
      InFiles, Named
<1>49. ASSUME Before, NEW i \in Intents, AgeOut(i) PROVE Prepared'
  BY <1>49 DEF AgeOut, Holding, Claimed, Prepared, Owning, EaIdle, Answers, Typed, InHand,
      InFiles, Named
<1>50. ASSUME Before, NEW o \in Origins, OrderAnswered(o) PROVE Prepared'
  BY <1>50 DEF OrderAnswered, Holding, Claimed, Prepared, Owning, EaIdle, Answers, Typed,
      InHand, InFiles, Named
<1>51. ASSUME Before, NEW o \in Origins, PositionCloses(o) PROVE Prepared'
  BY <1>51 DEF PositionCloses, Holding, Claimed, Prepared, Owning, EaIdle, Answers, Typed,
      InHand, InFiles, Named
<1>52. ASSUME Before, UNCHANGED vars PROVE Prepared'
  BY <1>52 DEF vars, Holding, Claimed, Prepared, Owning, EaIdle, Answers, Typed, InHand,
      InFiles, Named
<1> QED
  BY Facts, <1>1, <1>2, <1>3, <1>4, <1>5, <1>6, <1>7, <1>8, <1>9, <1>10, <1>11, <1>12,
      <1>13, <1>14, <1>15, <1>16, <1>17, <1>18, <1>19, <1>20, <1>21, <1>22, <1>23, <1>24,
      <1>25, <1>26, <1>27, <1>28, <1>29, <1>30, <1>31, <1>32, <1>33, <1>34, <1>35, <1>36,
      <1>37, <1>38, <1>39, <1>40, <1>41, <1>42, <1>43, <1>44, <1>45, <1>46, <1>47, <1>48,
      <1>49, <1>50, <1>51, <1>52 DEF Next, DispatchStep, FailingStep, EaStep, Environment,
      Visit

\* The button is pressed once.
LEMMA PressedStep ==
    Typed /\ Holding /\ Claimed /\ Prepared /\ Pressed /\ [Next]_vars => Pressed'
<1> USE DEF saved, files, mail, market, At, Hand, Ledger, GoTo, PersistAs, AbortAs, EaLedger
<1> DEFINE Before == Named /\ Typed /\ Holding /\ Claimed /\ Prepared /\ Pressed
<1>1. ASSUME Before, InspectExistingEvidence PROVE Pressed'
  BY <1>1 DEF InspectExistingEvidence, Settle, SettleAs, Holding, Claimed, Prepared,
      Pressed, Owning, Unsent, Cleared, Ready, Answers, Typed, InHand, InFiles, Named
<1>2. ASSUME Before, ClaimEntry PROVE Pressed'
  BY <1>2 DEF ClaimEntry, Settle, SettleAs, Holding, Claimed, Prepared, Pressed, Owning,
      Unsent, Cleared, Ready, Answers, Typed, InHand, InFiles, Named
<1>3. ASSUME Before, PostPreparation PROVE Pressed'
  BY <1>3 DEF PostPreparation, Holding, Claimed, Prepared, Pressed, Owning, Unsent,
      Cleared, Ready, Answers, Typed, InHand, InFiles, Named
<1>4. ASSUME Before, PreparationAnswered PROVE Pressed'
  <2>1. UNCHANGED <<clicks, order, presult>>
    BY <1>4 DEF PreparationAnswered
  <2> QED
    BY <1>4, <2>1, Moves DEF Pressed, Unsent, Cleared, Ready, Typed, InHand, Ledger, Hand
<1>5. ASSUME Before, PreparationLate PROVE Pressed'
  BY <1>5 DEF PreparationLate, Holding, Claimed, Prepared, Pressed, Owning, Unsent,
      Cleared, Ready, Answers, Typed, InHand, InFiles, Named
<1>6. ASSUME Before, ReadLateClaim PROVE Pressed'
  <2>1. UNCHANGED <<clicks, order, presult>>
    BY <1>6 DEF ReadLateClaim
  <2> QED
    BY <1>6, <2>1, Moves DEF Pressed, Unsent, Cleared, Ready, Typed, InHand, Ledger, Hand
<1>7. ASSUME Before, RetractPreparation PROVE Pressed'
  BY <1>7 DEF RetractPreparation, Holding, Claimed, Prepared, Pressed, Owning, Unsent,
      Cleared, Ready, Answers, Typed, InHand, InFiles, Named
<1>8. ASSUME Before, OpenOrderWindow PROVE Pressed'
  <2>1. UNCHANGED <<clicks, order, presult>>
    BY <1>8 DEF OpenOrderWindow
  <2> QED
    BY <1>8, <2>1, Moves DEF Pressed, Unsent, Cleared, Ready, Typed, InHand, Ledger, Hand
<1>9. ASSUME Before, FillOrderWindow PROVE Pressed'
  BY <1>9 DEF FillOrderWindow, Holding, Claimed, Prepared, Pressed, Owning, Unsent,
      Cleared, Ready, Answers, Typed, InHand, InFiles, Named
<1>10. ASSUME Before, FillFails PROVE Pressed'
  BY <1>10 DEF FillFails, NotSubmitted, Holding, Claimed, Prepared, Pressed, Owning,
      Unsent, Cleared, Ready, Answers, Typed, InHand, InFiles, Named
<1>11. ASSUME Before, FillTimesOut PROVE Pressed'
  BY <1>11 DEF FillTimesOut, NotSubmitted, Holding, Claimed, Prepared, Pressed, Owning,
      Unsent, Cleared, Ready, Answers, Typed, InHand, InFiles, Named
<1>12. ASSUME Before, PressButton PROVE Pressed'
  BY <1>12 DEF PressButton, Holding, Claimed, Prepared, Pressed, Owning, Unsent, Cleared,
      Ready, Answers, Typed, InHand, InFiles, Named
<1>13. ASSUME Before, SubmitRefused PROVE Pressed'
  BY <1>13 DEF SubmitRefused, NotSubmitted, Holding, Claimed, Prepared, Pressed, Owning,
      Unsent, Cleared, Ready, Answers, Typed, InHand, InFiles, Named
<1>14. ASSUME Before, SubmitTimesOut PROVE Pressed'
  BY <1>14 DEF SubmitTimesOut, Holding, Claimed, Prepared, Pressed, Owning, Unsent,
      Cleared, Ready, Answers, Typed, InHand, InFiles, Named
<1>15. ASSUME Before, SubmitAnswered PROVE Pressed'
  BY <1>15 DEF SubmitAnswered, Holding, Claimed, Prepared, Pressed, Owning, Unsent,
      Cleared, Ready, Answers, Typed, InHand, InFiles, Named
<1>16. ASSUME Before, VerifyPosition PROVE Pressed'
  BY <1>16 DEF VerifyPosition, PositionSeen, Holding, Claimed, Prepared, Pressed, Owning,
      Unsent, Cleared, Ready, Answers, Typed, InHand, InFiles, Named
<1>17. ASSUME Before, VerifyGivesUp PROVE Pressed'
  <2>1. UNCHANGED <<clicks, order, presult>>
    BY <1>17 DEF VerifyGivesUp
  <2> QED
    BY <1>17, <2>1, Moves DEF Pressed, Unsent, Cleared, Ready, Typed, InHand, Ledger, Hand
<1>18. ASSUME Before, CloseOrderWindow PROVE Pressed'
  BY <1>18 DEF CloseOrderWindow, AfterClose, Settle, SettleAs, Holding, Claimed, Prepared,
      Pressed, Owning, Unsent, Cleared, Ready, Answers, Typed, InHand, InFiles, Named
<1>19. ASSUME Before, PersistFinal PROVE Pressed'
  BY <1>19 DEF PersistFinal, Settle, SettleAs, Holding, Claimed, Prepared, Pressed,
      Owning, Unsent, Cleared, Ready, Answers, Typed, InHand, InFiles, Named
<1>20. ASSUME Before, ReadLateProof PROVE Pressed'
  BY <1>20 DEF ReadLateProof, PositionSeen, Settle, SettleAs, Holding, Claimed, Prepared,
      Pressed, Owning, Unsent, Cleared, Ready, Answers, Typed, InHand, InFiles, Named
<1>21. ASSUME Before, NoLateProof PROVE Pressed'
  BY <1>21 DEF NoLateProof, Settle, SettleAs, Holding, Claimed, Prepared, Pressed, Owning,
      Unsent, Cleared, Ready, Answers, Typed, InHand, InFiles, Named
<1>22. ASSUME Before, Restart PROVE Pressed'
  BY <1>22 DEF Restart, Holding, Claimed, Prepared, Pressed, Owning, Unsent, Cleared,
      Ready, Answers, Typed, InHand, InFiles, Named
<1>23. ASSUME Before, InspectBlind PROVE Pressed'
  BY <1>23 DEF InspectBlind, Holding, Claimed, Prepared, Pressed, Owning, Unsent, Cleared,
      Ready, Answers, Typed, InHand, InFiles, Named
<1>24. ASSUME Before, ClaimFails PROVE Pressed'
  BY <1>24 DEF ClaimFails, Settle, SettleAs, Holding, Claimed, Prepared, Pressed, Owning,
      Unsent, Cleared, Ready, Answers, Typed, InHand, InFiles, Named
<1>25. ASSUME Before, PostFails PROVE Pressed'
  BY <1>25 DEF PostFails, Holding, Claimed, Prepared, Pressed, Owning, Unsent, Cleared,
      Ready, Answers, Typed, InHand, InFiles, Named
<1>26. ASSUME Before, RetractFails PROVE Pressed'
  BY <1>26 DEF RetractFails, Holding, Claimed, Prepared, Pressed, Owning, Unsent, Cleared,
      Ready, Answers, Typed, InHand, InFiles, Named
<1>27. ASSUME Before, RunnerFails PROVE Pressed'
  BY <1>27 DEF RunnerFails, NotSubmitted, Holding, Claimed, Prepared, Pressed, Owning,
      Unsent, Cleared, Ready, Answers, Typed, InHand, InFiles, Named
<1>28. ASSUME Before, WindowComesLate PROVE Pressed'
  BY <1>28 DEF WindowComesLate, NotSubmitted, Holding, Claimed, Prepared, Pressed, Owning,
      Unsent, Cleared, Ready, Answers, Typed, InHand, InFiles, Named
<1>29. ASSUME Before, SubmitAnswerWrong PROVE Pressed'
  BY <1>29 DEF SubmitAnswerWrong, NotSubmitted, Holding, Claimed, Prepared, Pressed,
      Owning, Unsent, Cleared, Ready, Answers, Typed, InHand, InFiles, Named
<1>30. ASSUME Before, VerifyFails PROVE Pressed'
  BY <1>30 DEF VerifyFails, Holding, Claimed, Prepared, Pressed, Owning, Unsent, Cleared,
      Ready, Answers, Typed, InHand, InFiles, Named
<1>31. ASSUME Before, CloseFails PROVE Pressed'
  BY <1>31 DEF CloseFails, AfterClose, Settle, SettleAs, Holding, Claimed, Prepared,
      Pressed, Owning, Unsent, Cleared, Ready, Answers, Typed, InHand, InFiles, Named
<1>32. ASSUME Before, PersistFails PROVE Pressed'
  <2>1. UNCHANGED <<clicks, order, presult>>
    BY <1>32 DEF PersistFails
  <2> QED
    BY <1>32, <2>1, Moves DEF Pressed, Unsent, Cleared, Ready, Typed, InHand, Ledger, Hand
<1>33. ASSUME Before, LateProofFails PROVE Pressed'
  BY <1>33 DEF LateProofFails, Settle, SettleAs, Holding, Claimed, Prepared, Pressed,
      Owning, Unsent, Cleared, Ready, Answers, Typed, InHand, InFiles, Named
<1>34. ASSUME Before, EaWriteFails PROVE Pressed'
  BY <1>34 DEF EaWriteFails, Holding, Claimed, Prepared, Pressed, Owning, Unsent, Cleared,
      Ready, Answers, Typed, InHand, InFiles, Named
<1>35. ASSUME Before, CrashController PROVE Pressed'
  BY <1>35 DEF CrashController, Holding, Claimed, Prepared, Pressed, Owning, Unsent,
      Cleared, Ready, Answers, Typed, InHand, InFiles, Named
<1>36. ASSUME Before, CrashEA PROVE Pressed'
  BY <1>36 DEF CrashEA, Holding, Claimed, Prepared, Pressed, Owning, Unsent, Cleared,
      Ready, Answers, Typed, InHand, InFiles, Named
<1>37. ASSUME Before, LoseState PROVE Pressed'
  BY <1>37 DEF LoseState, Holding, Claimed, Prepared, Pressed, Owning, Unsent, Cleared,
      Ready, Answers, Typed, InHand, InFiles, Named
<1>38. ASSUME Before, EaPolls PROVE Pressed'
  BY <1>38 DEF EaPolls, Holding, Claimed, Prepared, Pressed, Owning, Unsent, Cleared,
      Ready, Answers, Typed, InHand, InFiles, Named
<1>39. ASSUME Before, EaFence PROVE Pressed'
  BY <1>39 DEF EaFence, Holding, Claimed, Prepared, Pressed, Owning, Unsent, Cleared,
      Ready, Answers, Typed, InHand, InFiles, Named
<1>40. ASSUME Before, EaExecutes PROVE Pressed'
  BY <1>40 DEF EaExecutes, Nets, Holding, Claimed, Prepared, Pressed, Owning, Unsent,
      Cleared, Ready, Answers, Typed, InHand, InFiles, Named
<1>41. ASSUME Before, EaWritesResult PROVE Pressed'
  BY <1>41 DEF EaWritesResult, Holding, Claimed, Prepared, Pressed, Owning, Unsent,
      Cleared, Ready, Answers, Typed, InHand, InFiles, Named
<1>42. ASSUME Before, EaDeletesTask PROVE Pressed'
  BY <1>42 DEF EaDeletesTask, Holding, Claimed, Prepared, Pressed, Owning, Unsent,
      Cleared, Ready, Answers, Typed, InHand, InFiles, Named
<1>43. ASSUME Before, OperatorOpensWindow PROVE Pressed'
  BY <1>43 DEF OperatorOpensWindow, Holding, Claimed, Prepared, Pressed, Owning, Unsent,
      Cleared, Ready, Answers, Typed, InHand, InFiles, Named
<1>44. ASSUME Before, OperatorClosesWindow PROVE Pressed'
  BY <1>44 DEF OperatorClosesWindow, Holding, Claimed, Prepared, Pressed, Owning, Unsent,
      Cleared, Ready, Answers, Typed, InHand, InFiles, Named
<1>45. ASSUME Before, NEW i \in Intents, ReconcileBlind(i) PROVE Pressed'
  BY <1>45 DEF ReconcileBlind, SettleAs, Holding, Claimed, Prepared, Pressed, Owning,
      Unsent, Cleared, Ready, Answers, Typed, InHand, InFiles, Named
<1>46. ASSUME Before, NEW i \in Intents, Start(i) PROVE Pressed'
  BY <1>46 DEF Start, Take, Holding, Claimed, Prepared, Pressed, Owning, Unsent, Cleared,
      Ready, Answers, Typed, InHand, InFiles, Named
<1>47. ASSUME Before, NEW i \in Intents, Reconcile(i) PROVE Pressed'
  BY <1>47 DEF Reconcile, SettleAs, Take, LateProofAllowed, Holding, Claimed, Prepared,
      Pressed, Owning, Unsent, Cleared, Ready, Answers, Typed, InHand, InFiles, Named
<1>48. ASSUME Before, NEW i \in Intents, Arm(i) PROVE Pressed'
  BY <1>48 DEF Arm, Holding, Claimed, Prepared, Pressed, Owning, Unsent, Cleared, Ready,
      Answers, Typed, InHand, InFiles, Named
<1>49. ASSUME Before, NEW i \in Intents, AgeOut(i) PROVE Pressed'
  BY <1>49 DEF AgeOut, Holding, Claimed, Prepared, Pressed, Owning, Unsent, Cleared,
      Ready, Answers, Typed, InHand, InFiles, Named
<1>50. ASSUME Before, NEW o \in Origins, OrderAnswered(o) PROVE Pressed'
  BY <1>50 DEF OrderAnswered, Holding, Claimed, Prepared, Pressed, Owning, Unsent,
      Cleared, Ready, Answers, Typed, InHand, InFiles, Named
<1>51. ASSUME Before, NEW o \in Origins, PositionCloses(o) PROVE Pressed'
  BY <1>51 DEF PositionCloses, Holding, Claimed, Prepared, Pressed, Owning, Unsent,
      Cleared, Ready, Answers, Typed, InHand, InFiles, Named
<1>52. ASSUME Before, UNCHANGED vars PROVE Pressed'
  BY <1>52 DEF vars, Holding, Claimed, Prepared, Pressed, Owning, Unsent, Cleared, Ready,
      Answers, Typed, InHand, InFiles, Named
<1> QED
  BY Facts, <1>1, <1>2, <1>3, <1>4, <1>5, <1>6, <1>7, <1>8, <1>9, <1>10, <1>11, <1>12,
      <1>13, <1>14, <1>15, <1>16, <1>17, <1>18, <1>19, <1>20, <1>21, <1>22, <1>23, <1>24,
      <1>25, <1>26, <1>27, <1>28, <1>29, <1>30, <1>31, <1>32, <1>33, <1>34, <1>35, <1>36,
      <1>37, <1>38, <1>39, <1>40, <1>41, <1>42, <1>43, <1>44, <1>45, <1>46, <1>47, <1>48,
      <1>49, <1>50, <1>51, <1>52 DEF Next, DispatchStep, FailingStep, EaStep, Environment,
      Visit

-----------------------------------------------------------------------------
(* The evidence *)

\* What the broker has served stays served.
LEMMA ServedStays ==
    Typed /\ Holding /\ Claimed /\ Prepared /\ Pressed /\ [Next]_vars =>
        Served \subseteq Served'
<1> USE DEF saved, files, mail, market, At, Hand, Ledger, GoTo, PersistAs, AbortAs, EaLedger
<1> DEFINE Steady ==
       \A o \in Origins :
           /\ claim[o] \in Intents => claim'[o] = claim[o]
           /\ rolled[o] # NoIntent => rolled'[o] # NoIntent
           /\ order[o] \in {"open", "closed"} => order'[o] \in {"open", "closed"}
<1>1. ASSUME Named, Typed, Holding, Pressed, InspectExistingEvidence PROVE Steady
  BY <1>1 DEF InspectExistingEvidence, Settle, SettleAs, Holding, Pressed, Unsent, Typed,
      InHand, InFiles, Named
<1>2. ASSUME Named, Typed, Holding, Pressed, ClaimEntry PROVE Steady
  BY <1>2 DEF ClaimEntry, Settle, SettleAs, Holding, Pressed, Unsent, Typed, InHand,
      InFiles, Named
<1>3. ASSUME Named, Typed, Holding, Pressed, PostPreparation PROVE Steady
  BY <1>3 DEF PostPreparation, Holding, Pressed, Unsent, Typed, InHand, InFiles, Named
<1>4. ASSUME Named, Typed, Holding, Pressed, PreparationAnswered PROVE Steady
  BY <1>4 DEF PreparationAnswered, AnswerEnvelope, Holding, Pressed, Unsent, Typed,
      InHand, InFiles, Named
<1>5. ASSUME Named, Typed, Holding, Pressed, PreparationLate PROVE Steady
  BY <1>5 DEF PreparationLate, Holding, Pressed, Unsent, Typed, InHand, InFiles, Named
<1>6. ASSUME Named, Typed, Holding, Pressed, ReadLateClaim PROVE Steady
  BY <1>6 DEF ReadLateClaim, Holding, Pressed, Unsent, Typed, InHand, InFiles, Named
<1>7. ASSUME Named, Typed, Holding, Pressed, RetractPreparation PROVE Steady
  BY <1>7 DEF RetractPreparation, Holding, Pressed, Unsent, Typed, InHand, InFiles, Named
<1>8. ASSUME Named, Typed, Holding, Pressed, OpenOrderWindow PROVE Steady
  BY <1>8 DEF OpenOrderWindow, NotSubmitted, Holding, Pressed, Unsent, Typed, InHand,
      InFiles, Named
<1>9. ASSUME Named, Typed, Holding, Pressed, FillOrderWindow PROVE Steady
  BY <1>9 DEF FillOrderWindow, Holding, Pressed, Unsent, Typed, InHand, InFiles, Named
<1>10. ASSUME Named, Typed, Holding, Pressed, FillFails PROVE Steady
  BY <1>10 DEF FillFails, NotSubmitted, Holding, Pressed, Unsent, Typed, InHand, InFiles, Named
<1>11. ASSUME Named, Typed, Holding, Pressed, FillTimesOut PROVE Steady
  BY <1>11 DEF FillTimesOut, NotSubmitted, Holding, Pressed, Unsent, Typed, InHand,
      InFiles, Named
<1>12. ASSUME Named, Typed, Holding, Pressed, PressButton PROVE Steady
  BY <1>12 DEF PressButton, Holding, Pressed, Unsent, Typed, InHand, InFiles, Named
<1>13. ASSUME Named, Typed, Holding, Pressed, SubmitRefused PROVE Steady
  BY <1>13 DEF SubmitRefused, NotSubmitted, Holding, Pressed, Unsent, Typed, InHand,
      InFiles, Named
<1>14. ASSUME Named, Typed, Holding, Pressed, SubmitTimesOut PROVE Steady
  BY <1>14 DEF SubmitTimesOut, Holding, Pressed, Unsent, Typed, InHand, InFiles, Named
<1>15. ASSUME Named, Typed, Holding, Pressed, SubmitAnswered PROVE Steady
  BY <1>15 DEF SubmitAnswered, Holding, Pressed, Unsent, Typed, InHand, InFiles, Named
<1>16. ASSUME Named, Typed, Holding, Pressed, VerifyPosition PROVE Steady
  BY <1>16 DEF VerifyPosition, PositionSeen, Holding, Pressed, Unsent, Typed, InHand,
      InFiles, Named
<1>17. ASSUME Named, Typed, Holding, Pressed, VerifyGivesUp PROVE Steady
  BY <1>17 DEF VerifyGivesUp, Holding, Pressed, Unsent, Typed, InHand, InFiles, Named
<1>18. ASSUME Named, Typed, Holding, Pressed, CloseOrderWindow PROVE Steady
  BY <1>18 DEF CloseOrderWindow, AfterClose, Settle, SettleAs, Holding, Pressed, Unsent,
      Typed, InHand, InFiles, Named
<1>19. ASSUME Named, Typed, Holding, Pressed, PersistFinal PROVE Steady
  BY <1>19 DEF PersistFinal, Settle, SettleAs, Holding, Pressed, Unsent, Typed, InHand,
      InFiles, Named
<1>20. ASSUME Named, Typed, Holding, Pressed, ReadLateProof PROVE Steady
  BY <1>20 DEF ReadLateProof, PositionSeen, Settle, SettleAs, Holding, Pressed, Unsent,
      Typed, InHand, InFiles, Named
<1>21. ASSUME Named, Typed, Holding, Pressed, NoLateProof PROVE Steady
  BY <1>21 DEF NoLateProof, Settle, SettleAs, Holding, Pressed, Unsent, Typed, InHand,
      InFiles, Named
<1>22. ASSUME Named, Typed, Holding, Pressed, Restart PROVE Steady
  BY <1>22 DEF Restart, Holding, Pressed, Unsent, Typed, InHand, InFiles, Named
<1>23. ASSUME Named, Typed, Holding, Pressed, InspectBlind PROVE Steady
  BY <1>23 DEF InspectBlind, Holding, Pressed, Unsent, Typed, InHand, InFiles, Named
<1>24. ASSUME Named, Typed, Holding, Pressed, ClaimFails PROVE Steady
  BY <1>24 DEF ClaimFails, Settle, SettleAs, Holding, Pressed, Unsent, Typed, InHand,
      InFiles, Named
<1>25. ASSUME Named, Typed, Holding, Pressed, PostFails PROVE Steady
  BY <1>25 DEF PostFails, Holding, Pressed, Unsent, Typed, InHand, InFiles, Named
<1>26. ASSUME Named, Typed, Holding, Pressed, RetractFails PROVE Steady
  BY <1>26 DEF RetractFails, Holding, Pressed, Unsent, Typed, InHand, InFiles, Named
<1>27. ASSUME Named, Typed, Holding, Pressed, RunnerFails PROVE Steady
  BY <1>27 DEF RunnerFails, NotSubmitted, Holding, Pressed, Unsent, Typed, InHand,
      InFiles, Named
<1>28. ASSUME Named, Typed, Holding, Pressed, WindowComesLate PROVE Steady
  BY <1>28 DEF WindowComesLate, NotSubmitted, Holding, Pressed, Unsent, Typed, InHand,
      InFiles, Named
<1>29. ASSUME Named, Typed, Holding, Pressed, SubmitAnswerWrong PROVE Steady
  BY <1>29 DEF SubmitAnswerWrong, NotSubmitted, Holding, Pressed, Unsent, Typed, InHand,
      InFiles, Named
<1>30. ASSUME Named, Typed, Holding, Pressed, VerifyFails PROVE Steady
  BY <1>30 DEF VerifyFails, Holding, Pressed, Unsent, Typed, InHand, InFiles, Named
<1>31. ASSUME Named, Typed, Holding, Pressed, CloseFails PROVE Steady
  BY <1>31 DEF CloseFails, AfterClose, Settle, SettleAs, Holding, Pressed, Unsent, Typed,
      InHand, InFiles, Named
<1>32. ASSUME Named, Typed, Holding, Pressed, PersistFails PROVE Steady
  BY <1>32 DEF PersistFails, Settle, SettleAs, Holding, Pressed, Unsent, Typed, InHand,
      InFiles, Named
<1>33. ASSUME Named, Typed, Holding, Pressed, LateProofFails PROVE Steady
  BY <1>33 DEF LateProofFails, Settle, SettleAs, Holding, Pressed, Unsent, Typed, InHand,
      InFiles, Named
<1>34. ASSUME Named, Typed, Holding, Pressed, EaWriteFails PROVE Steady
  BY <1>34 DEF EaWriteFails, Holding, Pressed, Unsent, Typed, InHand, InFiles, Named
<1>35. ASSUME Named, Typed, Holding, Pressed, CrashController PROVE Steady
  BY <1>35 DEF CrashController, Holding, Pressed, Unsent, Typed, InHand, InFiles, Named
<1>36. ASSUME Named, Typed, Holding, Pressed, CrashEA PROVE Steady
  BY <1>36 DEF CrashEA, Holding, Pressed, Unsent, Typed, InHand, InFiles, Named
<1>37. ASSUME Named, Typed, Holding, Pressed, LoseState PROVE Steady
  BY <1>37 DEF LoseState, Holding, Pressed, Unsent, Typed, InHand, InFiles, Named
<1>38. ASSUME Named, Typed, Holding, Pressed, EaPolls PROVE Steady
  BY <1>38 DEF EaPolls, Holding, Pressed, Unsent, Typed, InHand, InFiles, Named
<1>39. ASSUME Named, Typed, Holding, Pressed, EaFence PROVE Steady
  BY <1>39 DEF EaFence, Holding, Pressed, Unsent, Typed, InHand, InFiles, Named
<1>40. ASSUME Named, Typed, Holding, Pressed, EaExecutes PROVE Steady
  BY <1>40 DEF EaExecutes, Nets, Holding, Pressed, Unsent, Typed, InHand, InFiles, Named
<1>41. ASSUME Named, Typed, Holding, Pressed, EaWritesResult PROVE Steady
  BY <1>41 DEF EaWritesResult, Holding, Pressed, Unsent, Typed, InHand, InFiles, Named
<1>42. ASSUME Named, Typed, Holding, Pressed, EaDeletesTask PROVE Steady
  BY <1>42 DEF EaDeletesTask, Holding, Pressed, Unsent, Typed, InHand, InFiles, Named
<1>43. ASSUME Named, Typed, Holding, Pressed, OperatorOpensWindow PROVE Steady
  BY <1>43 DEF OperatorOpensWindow, Holding, Pressed, Unsent, Typed, InHand, InFiles, Named
<1>44. ASSUME Named, Typed, Holding, Pressed, OperatorClosesWindow PROVE Steady
  BY <1>44 DEF OperatorClosesWindow, Holding, Pressed, Unsent, Typed, InHand, InFiles, Named
<1>45. ASSUME Named, Typed, Holding, Pressed, NEW i \in Intents, ReconcileBlind(i) PROVE Steady
  BY <1>45 DEF ReconcileBlind, SettleAs, Holding, Pressed, Unsent, Typed, InHand, InFiles, Named
<1>46. ASSUME Named, Typed, Holding, Pressed, NEW i \in Intents, Start(i) PROVE Steady
  BY <1>46 DEF Start, Take, Holding, Pressed, Unsent, Typed, InHand, InFiles, Named
<1>47. ASSUME Named, Typed, Holding, Pressed, NEW i \in Intents, Reconcile(i) PROVE Steady
  BY <1>47 DEF Reconcile, SettleAs, Take, LateProofAllowed, Holding, Pressed, Unsent,
      Typed, InHand, InFiles, Named
<1>48. ASSUME Named, Typed, Holding, Pressed, NEW i \in Intents, Arm(i) PROVE Steady
  BY <1>48 DEF Arm, Holding, Pressed, Unsent, Typed, InHand, InFiles, Named
<1>49. ASSUME Named, Typed, Holding, Pressed, NEW i \in Intents, AgeOut(i) PROVE Steady
  BY <1>49 DEF AgeOut, Holding, Pressed, Unsent, Typed, InHand, InFiles, Named
<1>50. ASSUME Named, Typed, Holding, Pressed, NEW o \in Origins, OrderAnswered(o) PROVE Steady
  BY <1>50 DEF OrderAnswered, Holding, Pressed, Unsent, Typed, InHand, InFiles, Named
<1>51. ASSUME Named, Typed, Holding, Pressed, NEW o \in Origins, PositionCloses(o) PROVE Steady
  BY <1>51 DEF PositionCloses, Holding, Pressed, Unsent, Typed, InHand, InFiles, Named
<1>52. ASSUME Named, Typed, Holding, Pressed, UNCHANGED vars PROVE Steady
  BY <1>52 DEF vars, Holding, Pressed, Unsent, Typed, InHand, InFiles, Named
<1>99. ASSUME Named, Typed, Steady PROVE Served \subseteq Served'
  BY <1>99 DEF Served, Same, Named
<1> QED
  BY Facts, <1>99, <1>1, <1>2, <1>3, <1>4, <1>5, <1>6, <1>7, <1>8, <1>9, <1>10, <1>11,
      <1>12, <1>13, <1>14, <1>15, <1>16, <1>17, <1>18, <1>19, <1>20, <1>21, <1>22, <1>23,
      <1>24, <1>25, <1>26, <1>27, <1>28, <1>29, <1>30, <1>31, <1>32, <1>33, <1>34, <1>35,
      <1>36, <1>37, <1>38, <1>39, <1>40, <1>41, <1>42, <1>43, <1>44, <1>45, <1>46, <1>47,
      <1>48, <1>49, <1>50, <1>51, <1>52 DEF Next, DispatchStep, FailingStep, EaStep,
      Environment, Visit

\* Evidence is only left of what was served.
LEMMA EvidentStep ==
    Typed /\ Holding /\ Claimed /\ Prepared /\ Pressed /\ Evident /\ [Next]_vars
        => Evident'
<1> USE DEF saved, files, mail, market, At, Hand, Ledger, GoTo, PersistAs, AbortAs, EaLedger
<1> DEFINE Before == Named /\ Typed /\ Holding /\ Claimed /\ Prepared /\ Evident /\ Served \subseteq Served'
<1>1. ASSUME Before, InspectExistingEvidence PROVE Evident'
  BY <1>1 DEF InspectExistingEvidence, Settle, SettleAs, Evident, NoResult, TornFile,
      Typed, InHand, InFiles, Named
<1>2. ASSUME Before, ClaimEntry PROVE Evident'
  BY <1>2 DEF ClaimEntry, Settle, SettleAs, Evident, NoResult, TornFile, Typed, InHand,
      InFiles, Named
<1>3. ASSUME Before, PostPreparation PROVE Evident'
  BY <1>3 DEF PostPreparation, Evident, NoResult, TornFile, Typed, InHand, InFiles, Named
<1>4. ASSUME Before, PreparationAnswered PROVE Evident'
  <2>1. UNCHANGED <<result, proof>>
    BY <1>4 DEF PreparationAnswered
  <2>2. ctl'.i = ctl.i /\ (ctl'.env = "done" => ctl.env = "done" \/ presult[Ledger] = "rolled")
    BY <1>4 DEF PreparationAnswered, AnswerEnvelope, Typed, InHand
  <2>3. presult[Ledger] = "rolled" => ctl.i \in Served
    BY <1>4 DEF PreparationAnswered, Holding, Prepared, Owning, Served, Same, Typed,
        InHand, Named
  <2> QED
    BY <1>4, <2>1, <2>2, <2>3 DEF Evident
<1>5. ASSUME Before, PreparationLate PROVE Evident'
  BY <1>5 DEF PreparationLate, Evident, NoResult, TornFile, Typed, InHand, InFiles, Named
<1>6. ASSUME Before, ReadLateClaim PROVE Evident'
  <2>1. UNCHANGED <<result, proof>>
    BY <1>6 DEF ReadLateClaim
  <2> QED
    BY <1>6, <2>1, Moves DEF Evident, NotDone
<1>7. ASSUME Before, RetractPreparation PROVE Evident'
  BY <1>7 DEF RetractPreparation, Evident, NoResult, TornFile, Typed, InHand, InFiles, Named
<1>8. ASSUME Before, OpenOrderWindow PROVE Evident'
  <2>1. UNCHANGED <<result, proof>>
    BY <1>8 DEF OpenOrderWindow
  <2> QED
    BY <1>8, <2>1, Moves DEF Evident, NotDone
<1>9. ASSUME Before, FillOrderWindow PROVE Evident'
  BY <1>9 DEF FillOrderWindow, Evident, NoResult, TornFile, Typed, InHand, InFiles, Named
<1>10. ASSUME Before, FillFails PROVE Evident'
  BY <1>10 DEF FillFails, NotSubmitted, Evident, NoResult, TornFile, Typed, InHand,
      InFiles, Named
<1>11. ASSUME Before, FillTimesOut PROVE Evident'
  BY <1>11 DEF FillTimesOut, NotSubmitted, Evident, NoResult, TornFile, Typed, InHand,
      InFiles, Named
<1>12. ASSUME Before, PressButton PROVE Evident'
  BY <1>12 DEF PressButton, Evident, NoResult, TornFile, Typed, InHand, InFiles, Named
<1>13. ASSUME Before, SubmitRefused PROVE Evident'
  BY <1>13 DEF SubmitRefused, NotSubmitted, Evident, NoResult, TornFile, Typed, InHand,
      InFiles, Named
<1>14. ASSUME Before, SubmitTimesOut PROVE Evident'
  BY <1>14 DEF SubmitTimesOut, Evident, NoResult, TornFile, Typed, InHand, InFiles, Named
<1>15. ASSUME Before, SubmitAnswered PROVE Evident'
  BY <1>15 DEF SubmitAnswered, Evident, NoResult, TornFile, Typed, InHand, InFiles, Named
<1>16. ASSUME Before, VerifyPosition PROVE Evident'
  <2>1. ctl.i \in Served /\ ctl'.i = ctl.i /\ UNCHANGED <<result, proof>>
    BY <1>16 DEF VerifyPosition, PositionSeen, Holding, Owning, Served, Same, Typed,
        InHand, InFiles, Named
  <2> QED
    BY <1>16, <2>1 DEF Evident
<1>17. ASSUME Before, VerifyGivesUp PROVE Evident'
  <2>1. UNCHANGED <<result, proof>>
    BY <1>17 DEF VerifyGivesUp
  <2> QED
    BY <1>17, <2>1, Moves DEF Evident, NotDone
<1>18. ASSUME Before, CloseOrderWindow PROVE Evident'
  BY <1>18 DEF CloseOrderWindow, AfterClose, Settle, SettleAs, Evident, NoResult,
      TornFile, Typed, InHand, InFiles, Named
<1>19. ASSUME Before, PersistFinal PROVE Evident'
  BY <1>19 DEF PersistFinal, Settle, SettleAs, Evident, NoResult, TornFile, Typed, InHand,
      InFiles, Named
<1>20. ASSUME Before, ReadLateProof PROVE Evident'
  <2>1. Hand \in Served
    BY <1>20 DEF ReadLateProof, PositionSeen, Holding, Claimed, Served, Same, Typed,
        InHand, InFiles, Named
  <2>2. result' = result /\ proof' = [proof EXCEPT ![Ledger] = Hand] /\ ctl'.env = "failed"
    BY <1>20 DEF ReadLateProof, Settle, SettleAs
  <2> QED
    BY <1>20, <2>1, <2>2 DEF Evident, Typed, InFiles
<1>21. ASSUME Before, NoLateProof PROVE Evident'
  BY <1>21 DEF NoLateProof, Settle, SettleAs, Evident, NoResult, TornFile, Typed, InHand,
      InFiles, Named
<1>22. ASSUME Before, Restart PROVE Evident'
  BY <1>22 DEF Restart, Evident, NoResult, TornFile, Typed, InHand, InFiles, Named
<1>23. ASSUME Before, InspectBlind PROVE Evident'
  BY <1>23 DEF InspectBlind, Evident, NoResult, TornFile, Typed, InHand, InFiles, Named
<1>24. ASSUME Before, ClaimFails PROVE Evident'
  BY <1>24 DEF ClaimFails, Settle, SettleAs, Evident, NoResult, TornFile, Typed, InHand,
      InFiles, Named
<1>25. ASSUME Before, PostFails PROVE Evident'
  BY <1>25 DEF PostFails, Evident, NoResult, TornFile, Typed, InHand, InFiles, Named
<1>26. ASSUME Before, RetractFails PROVE Evident'
  BY <1>26 DEF RetractFails, Evident, NoResult, TornFile, Typed, InHand, InFiles, Named
<1>27. ASSUME Before, RunnerFails PROVE Evident'
  BY <1>27 DEF RunnerFails, NotSubmitted, Evident, NoResult, TornFile, Typed, InHand,
      InFiles, Named
<1>28. ASSUME Before, WindowComesLate PROVE Evident'
  BY <1>28 DEF WindowComesLate, NotSubmitted, Evident, NoResult, TornFile, Typed, InHand,
      InFiles, Named
<1>29. ASSUME Before, SubmitAnswerWrong PROVE Evident'
  BY <1>29 DEF SubmitAnswerWrong, NotSubmitted, Evident, NoResult, TornFile, Typed,
      InHand, InFiles, Named
<1>30. ASSUME Before, VerifyFails PROVE Evident'
  BY <1>30 DEF VerifyFails, Evident, NoResult, TornFile, Typed, InHand, InFiles, Named
<1>31. ASSUME Before, CloseFails PROVE Evident'
  BY <1>31 DEF CloseFails, AfterClose, Settle, SettleAs, Evident, NoResult, TornFile,
      Typed, InHand, InFiles, Named
<1>32. ASSUME Before, PersistFails PROVE Evident'
  <2>1. UNCHANGED proof /\ \E content \in {NoResult, TornFile} : result' = [result EXCEPT ![Ledger] = content]
    BY <1>32 DEF PersistFails
  <2>2. \A o \in Origins : result'[o] = result[o] \/ result'[o].by \notin Intents
    BY <1>32, <2>1 DEF NoResult, TornFile, Named, Typed, InFiles
  <2>3. NotDone /\ (ctl'.env = "done" => ctl'.i = ctl.i)
    <3>1. ctl' \in {[at |-> "loop", i |-> NoIntent, env |-> "failed"],
                    [ctl EXCEPT !.at = "finish", !.env = "uncertain"]}
      BY <1>32 DEF PersistFails, Settle, SettleAs
    <3>2. CASE ctl' = [at |-> "loop", i |-> NoIntent, env |-> "failed"]
      BY <3>2 DEF NotDone
    <3>3. CASE ctl' = [ctl EXCEPT !.at = "finish", !.env = "uncertain"]
      BY <1>32, <3>3 DEF NotDone, Typed, InHand
    <3> QED
      BY <3>1, <3>2, <3>3
  <2> QED
    BY <1>32, <2>1, <2>2, <2>3 DEF Evident, NotDone
<1>33. ASSUME Before, LateProofFails PROVE Evident'
  BY <1>33 DEF LateProofFails, Settle, SettleAs, Evident, NoResult, TornFile, Typed,
      InHand, InFiles, Named
<1>34. ASSUME Before, EaWriteFails PROVE Evident'
  BY <1>34 DEF EaWriteFails, Evident, NoResult, TornFile, Typed, InHand, InFiles, Named
<1>35. ASSUME Before, CrashController PROVE Evident'
  BY <1>35 DEF CrashController, Evident, NoResult, TornFile, Typed, InHand, InFiles, Named
<1>36. ASSUME Before, CrashEA PROVE Evident'
  BY <1>36 DEF CrashEA, Evident, NoResult, TornFile, Typed, InHand, InFiles, Named
<1>37. ASSUME Before, LoseState PROVE Evident'
  BY <1>37 DEF LoseState, Evident, NoResult, TornFile, Typed, InHand, InFiles, Named
<1>38. ASSUME Before, EaPolls PROVE Evident'
  BY <1>38 DEF EaPolls, Evident, NoResult, TornFile, Typed, InHand, InFiles, Named
<1>39. ASSUME Before, EaFence PROVE Evident'
  BY <1>39 DEF EaFence, Evident, NoResult, TornFile, Typed, InHand, InFiles, Named
<1>40. ASSUME Before, EaExecutes PROVE Evident'
  BY <1>40 DEF EaExecutes, Nets, Evident, NoResult, TornFile, Typed, InHand, InFiles, Named
<1>41. ASSUME Before, EaWritesResult PROVE Evident'
  BY <1>41 DEF EaWritesResult, Evident, NoResult, TornFile, Typed, InHand, InFiles, Named
<1>42. ASSUME Before, EaDeletesTask PROVE Evident'
  BY <1>42 DEF EaDeletesTask, Evident, NoResult, TornFile, Typed, InHand, InFiles, Named
<1>43. ASSUME Before, OperatorOpensWindow PROVE Evident'
  BY <1>43 DEF OperatorOpensWindow, Evident, NoResult, TornFile, Typed, InHand, InFiles, Named
<1>44. ASSUME Before, OperatorClosesWindow PROVE Evident'
  BY <1>44 DEF OperatorClosesWindow, Evident, NoResult, TornFile, Typed, InHand, InFiles, Named
<1>45. ASSUME Before, NEW i \in Intents, ReconcileBlind(i) PROVE Evident'
  BY <1>45 DEF ReconcileBlind, SettleAs, Evident, NoResult, TornFile, Typed, InHand,
      InFiles, Named
<1>46. ASSUME Before, NEW i \in Intents, Start(i) PROVE Evident'
  BY <1>46 DEF Start, Take, Evident, NoResult, TornFile, Typed, InHand, InFiles, Named
<1>47. ASSUME Before, NEW i \in Intents, Reconcile(i) PROVE Evident'
  BY <1>47 DEF Reconcile, SettleAs, Take, LateProofAllowed, Evident, NoResult, TornFile,
      Typed, InHand, InFiles, Named
<1>48. ASSUME Before, NEW i \in Intents, Arm(i) PROVE Evident'
  BY <1>48 DEF Arm, Evident, NoResult, TornFile, Typed, InHand, InFiles, Named
<1>49. ASSUME Before, NEW i \in Intents, AgeOut(i) PROVE Evident'
  BY <1>49 DEF AgeOut, Evident, NoResult, TornFile, Typed, InHand, InFiles, Named
<1>50. ASSUME Before, NEW o \in Origins, OrderAnswered(o) PROVE Evident'
  BY <1>50 DEF OrderAnswered, Evident, NoResult, TornFile, Typed, InHand, InFiles, Named
<1>51. ASSUME Before, NEW o \in Origins, PositionCloses(o) PROVE Evident'
  BY <1>51 DEF PositionCloses, Evident, NoResult, TornFile, Typed, InHand, InFiles, Named
<1>52. ASSUME Before, UNCHANGED vars PROVE Evident'
  BY <1>52 DEF vars, Evident, NoResult, TornFile, Typed, InHand, InFiles, Named
<1> QED
  BY Facts, ServedStays, <1>1, <1>2, <1>3, <1>4, <1>5, <1>6, <1>7, <1>8, <1>9, <1>10,
      <1>11, <1>12, <1>13, <1>14, <1>15, <1>16, <1>17, <1>18, <1>19, <1>20, <1>21, <1>22,
      <1>23, <1>24, <1>25, <1>26, <1>27, <1>28, <1>29, <1>30, <1>31, <1>32, <1>33, <1>34,
      <1>35, <1>36, <1>37, <1>38, <1>39, <1>40, <1>41, <1>42, <1>43, <1>44, <1>45, <1>46,
      <1>47, <1>48, <1>49, <1>50, <1>51, <1>52 DEF Next, DispatchStep, FailingStep,
      EaStep, Environment, Visit

-----------------------------------------------------------------------------
(* The invariant holds *)

\* The invariant holds at first.
LEMMA InitialStates == Init => IInv
<1> SUFFICES ASSUME Init PROVE IInv
  OBVIOUS
<1>1. Typed
  BY Facts DEF Init, Typed, InHand, InFiles, Named, CtlSteps, EaSteps, EaIdle, Envelopes,
      Statuses, Results, NoResult, Answers, Orders
<1>2. Labelled
  BY DEF Init, Labelled, Envelopes
<1>3. Holding /\ Claimed
  BY Facts DEF Init, Holding, Claimed, Owning, Named
<1>4. Prepared /\ Pressed
  <2>1. Prepared
    BY DEF Init, Prepared, EaIdle
  <2>2. ctl.at = "loop" /\ \A o \in Origins : clicks[o] = 0 /\ order[o] = "none"
    BY DEF Init
  <2>3. Pressed
    BY <2>2 DEF Pressed, Unsent, Cleared
  <2> QED
    BY <2>1, <2>3
<1>5. Evident
  BY Facts DEF Init, Evident, NoResult, Named
<1> QED
  BY <1>1, <1>2, <1>3, <1>4, <1>5, Facts DEF IInv

\* Every step keeps all parts of the invariant.
LEMMA InvariantStep == IInv /\ [Next]_vars => IInv'
<1>1. IInv => Typed /\ Labelled
  BY Facts DEF IInv
<1>2. Typed' /\ Labelled' => TypeOK'
  BY Facts DEF TypeOK, Typed, InHand, InFiles, Labelled
<1> QED
  BY <1>1, <1>2, InHandStep, InFilesStep, LabelledStep, HoldingStep, ClaimedStep,
      PreparedStep, PressedStep, EvidentStep DEF IInv, Typed

\* The invariant holds throughout.
THEOREM Invariance == Spec => []IInv
  BY InitialStates, InvariantStep, PTL DEF Spec

\* Every variable keeps its type, whatever fails, stops or is lost.
THEOREM TypeCorrect == Spec => []TypeOK
<1>1. IInv => TypeOK
  BY DEF IInv
<1> QED
  BY <1>1, Invariance, PTL

\* The button is pressed at most once for a line, and never when a TP was
\* advanced in its place.
THEOREM AtMostOneClickHolds == Spec => []AtMostOneClick
<1>1. IInv => AtMostOneClick
  BY DEF IInv, Prepared, Pressed, Ready, AtMostOneClick
<1> QED
  BY <1>1, Invariance, PTL

-----------------------------------------------------------------------------
(* The contract *)

\* What a step does to the statuses: one of them moves on, or all are lost.
MovesOn(i, s) ==
    /\ status' = [status EXCEPT ![i] = s]
    /\ \/ status[i] = "new" /\ s = "scheduled"
       \/ status[i] = "scheduled" /\ s = "executing"
       \/ status[i] \in {"executing", "uncertain"} /\ s \in {"failed", "uncertain"}
       \/ status[i] \in {"executing", "uncertain"} /\ s = "executed" /\ i \in Served
StatusMove ==
    \/ UNCHANGED status
    \/ LoseState
    \/ \E i \in Intents, s \in Statuses : MovesOn(i, s)

\* A ledger's result says "done" only of an intent that was served.
LEMMA EvidenceIsTrue ==
    Named /\ Typed /\ Evident =>
        \A i \in Intents : Evidence(i) = "done" => i \in Served
  BY DEF Evidence, Matches, Evident, Served, Same, Named

\* A report is a status that moves on.
LEMMA Settles ==
    ASSUME NEW i \in Intents, NEW env, SettleAs(i, env),
           status[i] \in {"executing", "uncertain"}, env = "done" => i \in Served
    PROVE  StatusMove
<1>1. status' = [status EXCEPT ![i] = Report(env)]
  BY DEF SettleAs
<1>2. Report(env) \in {"failed", "uncertain"} \/ (Report(env) = "executed" /\ i \in Served)
  BY DEF Report
<1>3. MovesOn(i, Report(env)) /\ Report(env) \in Statuses
  BY <1>1, <1>2 DEF MovesOn, Statuses
<1> QED
  BY <1>3 DEF StatusMove

\* Every step moves the statuses in one of these ways.
LEMMA StatusStep ==
    Typed /\ Holding /\ Claimed /\ Evident /\ [Next]_vars => StatusMove
<1> USE DEF saved, files, mail, market, At, Hand, Ledger, GoTo, PersistAs, AbortAs, EaLedger
<1> DEFINE Before == Named /\ Typed /\ Holding /\ Claimed /\ Evident
<1>1. ASSUME Before, InspectExistingEvidence PROVE StatusMove
  <2>1. status[Hand] = "executing" /\ Hand \in Intents
    BY <1>1 DEF InspectExistingEvidence, Holding, Typed, InHand
  <2>2. Evidence(Hand) = "done" => Hand \in Served
    BY <1>1, <2>1, EvidenceIsTrue
  <2>3. UNCHANGED status \/ SettleAs(Hand, Evidence(Hand))
    BY <1>1 DEF InspectExistingEvidence, Settle
  <2>4. CASE UNCHANGED status
    BY <2>4 DEF StatusMove
  <2>5. CASE SettleAs(Hand, Evidence(Hand))
    BY <2>1, <2>2, <2>5, Settles
  <2> QED
    BY <2>3, <2>4, <2>5
<1>2. ASSUME Before, ClaimEntry PROVE StatusMove
  <2>1. status[Hand] = "executing" /\ Hand \in Intents
    BY <1>2 DEF ClaimEntry, Holding, Typed, InHand
  <2>2. Evidence(Hand) = "done" => Hand \in Served
    BY <1>2, <2>1, EvidenceIsTrue
  <2>3. UNCHANGED status \/ SettleAs(Hand, Evidence(Hand))
    BY <1>2 DEF ClaimEntry, Settle
  <2>4. CASE UNCHANGED status
    BY <2>4 DEF StatusMove
  <2>5. CASE SettleAs(Hand, Evidence(Hand))
    BY <2>1, <2>2, <2>5, Settles
  <2> QED
    BY <2>3, <2>4, <2>5
<1>3. ASSUME Before, PostPreparation PROVE StatusMove
  BY <1>3 DEF PostPreparation, StatusMove, MovesOn, Statuses, Report, Holding, Evident,
      Typed, InHand, InFiles, Named
<1>4. ASSUME Before, PreparationAnswered PROVE StatusMove
  BY <1>4 DEF PreparationAnswered, AnswerEnvelope, StatusMove, MovesOn, Statuses, Report,
      Holding, Evident, Typed, InHand, InFiles, Named
<1>5. ASSUME Before, PreparationLate PROVE StatusMove
  BY <1>5 DEF PreparationLate, StatusMove, MovesOn, Statuses, Report, Holding, Evident,
      Typed, InHand, InFiles, Named
<1>6. ASSUME Before, ReadLateClaim PROVE StatusMove
  BY <1>6 DEF ReadLateClaim, StatusMove, MovesOn, Statuses, Report, Holding, Evident,
      Typed, InHand, InFiles, Named
<1>7. ASSUME Before, RetractPreparation PROVE StatusMove
  BY <1>7 DEF RetractPreparation, StatusMove, MovesOn, Statuses, Report, Holding, Evident,
      Typed, InHand, InFiles, Named
<1>8. ASSUME Before, OpenOrderWindow PROVE StatusMove
  BY <1>8 DEF OpenOrderWindow, NotSubmitted, StatusMove, MovesOn, Statuses, Report,
      Holding, Evident, Typed, InHand, InFiles, Named
<1>9. ASSUME Before, FillOrderWindow PROVE StatusMove
  BY <1>9 DEF FillOrderWindow, StatusMove, MovesOn, Statuses, Report, Holding, Evident,
      Typed, InHand, InFiles, Named
<1>10. ASSUME Before, FillFails PROVE StatusMove
  BY <1>10 DEF FillFails, NotSubmitted, StatusMove, MovesOn, Statuses, Report, Holding,
      Evident, Typed, InHand, InFiles, Named
<1>11. ASSUME Before, FillTimesOut PROVE StatusMove
  BY <1>11 DEF FillTimesOut, NotSubmitted, StatusMove, MovesOn, Statuses, Report, Holding,
      Evident, Typed, InHand, InFiles, Named
<1>12. ASSUME Before, PressButton PROVE StatusMove
  BY <1>12 DEF PressButton, StatusMove, MovesOn, Statuses, Report, Holding, Evident,
      Typed, InHand, InFiles, Named
<1>13. ASSUME Before, SubmitRefused PROVE StatusMove
  BY <1>13 DEF SubmitRefused, NotSubmitted, StatusMove, MovesOn, Statuses, Report,
      Holding, Evident, Typed, InHand, InFiles, Named
<1>14. ASSUME Before, SubmitTimesOut PROVE StatusMove
  BY <1>14 DEF SubmitTimesOut, StatusMove, MovesOn, Statuses, Report, Holding, Evident,
      Typed, InHand, InFiles, Named
<1>15. ASSUME Before, SubmitAnswered PROVE StatusMove
  BY <1>15 DEF SubmitAnswered, StatusMove, MovesOn, Statuses, Report, Holding, Evident,
      Typed, InHand, InFiles, Named
<1>16. ASSUME Before, VerifyPosition PROVE StatusMove
  BY <1>16 DEF VerifyPosition, PositionSeen, StatusMove, MovesOn, Statuses, Report,
      Holding, Evident, Typed, InHand, InFiles, Named
<1>17. ASSUME Before, VerifyGivesUp PROVE StatusMove
  BY <1>17 DEF VerifyGivesUp, StatusMove, MovesOn, Statuses, Report, Holding, Evident,
      Typed, InHand, InFiles, Named
<1>18. ASSUME Before, CloseOrderWindow PROVE StatusMove
  BY <1>18 DEF CloseOrderWindow, AfterClose, Settle, SettleAs, StatusMove, MovesOn,
      Statuses, Report, Holding, Evident, Typed, InHand, InFiles, Named
<1>19. ASSUME Before, PersistFinal PROVE StatusMove
  BY <1>19 DEF PersistFinal, Settle, SettleAs, StatusMove, MovesOn, Statuses, Report,
      Holding, Evident, Typed, InHand, InFiles, Named
<1>20. ASSUME Before, ReadLateProof PROVE StatusMove
  <2>1. status[Hand] = "uncertain" /\ Hand \in Intents
    BY <1>20 DEF ReadLateProof, Holding, Typed, InHand
  <2>2. Hand \in Served
    BY <1>20 DEF ReadLateProof, PositionSeen, Holding, Claimed, Served, Same, Typed,
        InHand, InFiles, Named
  <2>3. SettleAs(Hand, "done")
    BY <1>20 DEF ReadLateProof, Settle
  <2> QED
    BY <2>1, <2>2, <2>3, Settles
<1>21. ASSUME Before, NoLateProof PROVE StatusMove
  BY <1>21 DEF NoLateProof, Settle, SettleAs, StatusMove, MovesOn, Statuses, Report,
      Holding, Evident, Typed, InHand, InFiles, Named
<1>22. ASSUME Before, Restart PROVE StatusMove
  BY <1>22 DEF Restart, StatusMove, MovesOn, Statuses, Report, Holding, Evident, Typed,
      InHand, InFiles, Named
<1>23. ASSUME Before, InspectBlind PROVE StatusMove
  BY <1>23 DEF InspectBlind, StatusMove, MovesOn, Statuses, Report, Holding, Evident,
      Typed, InHand, InFiles, Named
<1>24. ASSUME Before, ClaimFails PROVE StatusMove
  BY <1>24 DEF ClaimFails, Settle, SettleAs, StatusMove, MovesOn, Statuses, Report,
      Holding, Evident, Typed, InHand, InFiles, Named
<1>25. ASSUME Before, PostFails PROVE StatusMove
  BY <1>25 DEF PostFails, StatusMove, MovesOn, Statuses, Report, Holding, Evident, Typed,
      InHand, InFiles, Named
<1>26. ASSUME Before, RetractFails PROVE StatusMove
  BY <1>26 DEF RetractFails, StatusMove, MovesOn, Statuses, Report, Holding, Evident,
      Typed, InHand, InFiles, Named
<1>27. ASSUME Before, RunnerFails PROVE StatusMove
  BY <1>27 DEF RunnerFails, NotSubmitted, StatusMove, MovesOn, Statuses, Report, Holding,
      Evident, Typed, InHand, InFiles, Named
<1>28. ASSUME Before, WindowComesLate PROVE StatusMove
  BY <1>28 DEF WindowComesLate, NotSubmitted, StatusMove, MovesOn, Statuses, Report,
      Holding, Evident, Typed, InHand, InFiles, Named
<1>29. ASSUME Before, SubmitAnswerWrong PROVE StatusMove
  BY <1>29 DEF SubmitAnswerWrong, NotSubmitted, StatusMove, MovesOn, Statuses, Report,
      Holding, Evident, Typed, InHand, InFiles, Named
<1>30. ASSUME Before, VerifyFails PROVE StatusMove
  BY <1>30 DEF VerifyFails, StatusMove, MovesOn, Statuses, Report, Holding, Evident,
      Typed, InHand, InFiles, Named
<1>31. ASSUME Before, CloseFails PROVE StatusMove
  BY <1>31 DEF CloseFails, AfterClose, Settle, SettleAs, StatusMove, MovesOn, Statuses,
      Report, Holding, Evident, Typed, InHand, InFiles, Named
<1>32. ASSUME Before, PersistFails PROVE StatusMove
  BY <1>32 DEF PersistFails, Settle, SettleAs, StatusMove, MovesOn, Statuses, Report,
      Holding, Evident, Typed, InHand, InFiles, Named
<1>33. ASSUME Before, LateProofFails PROVE StatusMove
  BY <1>33 DEF LateProofFails, Settle, SettleAs, StatusMove, MovesOn, Statuses, Report,
      Holding, Evident, Typed, InHand, InFiles, Named
<1>34. ASSUME Before, EaWriteFails PROVE StatusMove
  BY <1>34 DEF EaWriteFails, StatusMove, MovesOn, Statuses, Report, Holding, Evident,
      Typed, InHand, InFiles, Named
<1>35. ASSUME Before, CrashController PROVE StatusMove
  BY <1>35 DEF CrashController, StatusMove, MovesOn, Statuses, Report, Holding, Evident,
      Typed, InHand, InFiles, Named
<1>36. ASSUME Before, CrashEA PROVE StatusMove
  BY <1>36 DEF CrashEA, StatusMove, MovesOn, Statuses, Report, Holding, Evident, Typed,
      InHand, InFiles, Named
<1>37. ASSUME Before, LoseState PROVE StatusMove
  BY <1>37 DEF LoseState, StatusMove, MovesOn, Statuses, Report, Holding, Evident, Typed,
      InHand, InFiles, Named
<1>38. ASSUME Before, EaPolls PROVE StatusMove
  BY <1>38 DEF EaPolls, StatusMove, MovesOn, Statuses, Report, Holding, Evident, Typed,
      InHand, InFiles, Named
<1>39. ASSUME Before, EaFence PROVE StatusMove
  BY <1>39 DEF EaFence, StatusMove, MovesOn, Statuses, Report, Holding, Evident, Typed,
      InHand, InFiles, Named
<1>40. ASSUME Before, EaExecutes PROVE StatusMove
  BY <1>40 DEF EaExecutes, Nets, StatusMove, MovesOn, Statuses, Report, Holding, Evident,
      Typed, InHand, InFiles, Named
<1>41. ASSUME Before, EaWritesResult PROVE StatusMove
  BY <1>41 DEF EaWritesResult, StatusMove, MovesOn, Statuses, Report, Holding, Evident,
      Typed, InHand, InFiles, Named
<1>42. ASSUME Before, EaDeletesTask PROVE StatusMove
  BY <1>42 DEF EaDeletesTask, StatusMove, MovesOn, Statuses, Report, Holding, Evident,
      Typed, InHand, InFiles, Named
<1>43. ASSUME Before, OperatorOpensWindow PROVE StatusMove
  BY <1>43 DEF OperatorOpensWindow, StatusMove, MovesOn, Statuses, Report, Holding,
      Evident, Typed, InHand, InFiles, Named
<1>44. ASSUME Before, OperatorClosesWindow PROVE StatusMove
  BY <1>44 DEF OperatorClosesWindow, StatusMove, MovesOn, Statuses, Report, Holding,
      Evident, Typed, InHand, InFiles, Named
<1>45. ASSUME Before, NEW i \in Intents, ReconcileBlind(i) PROVE StatusMove
  BY <1>45 DEF ReconcileBlind, SettleAs, StatusMove, MovesOn, Statuses, Report, Holding,
      Evident, Typed, InHand, InFiles, Named
<1>46. ASSUME Before, NEW i \in Intents, Start(i) PROVE StatusMove
  BY <1>46 DEF Start, Take, StatusMove, MovesOn, Statuses, Report, Holding, Evident,
      Typed, InHand, InFiles, Named
<1>47. ASSUME Before, NEW i \in Intents, Reconcile(i) PROVE StatusMove
  <2>1. status[i] \in {"executing", "uncertain"}
    BY <1>47 DEF Reconcile
  <2>2. Evidence(i) = "done" => i \in Served
    BY <1>47, EvidenceIsTrue
  <2>3. Matches(proof[OriginOf[i]], i) => i \in Served
    BY <1>47 DEF Matches, Same, Evident, Served, Named
  <2>4. \/ UNCHANGED status
        \/ \E env \in {Evidence(i), "uncertain", "noEvidence"} : SettleAs(i, env)
        \/ Matches(proof[OriginOf[i]], i) /\ SettleAs(i, "done")
    BY <1>47 DEF Reconcile
  <2>5. CASE UNCHANGED status
    BY <2>5 DEF StatusMove
  <2>6. ASSUME NEW env \in {Evidence(i), "uncertain", "noEvidence"}, SettleAs(i, env)
        PROVE  StatusMove
    BY <2>1, <2>2, <2>6, Settles
  <2>7. CASE Matches(proof[OriginOf[i]], i) /\ SettleAs(i, "done")
    BY <2>1, <2>3, <2>7, Settles
  <2> QED
    BY <2>4, <2>5, <2>6, <2>7
<1>48. ASSUME Before, NEW i \in Intents, Arm(i) PROVE StatusMove
  BY <1>48 DEF Arm, StatusMove, MovesOn, Statuses, Report, Holding, Evident, Typed,
      InHand, InFiles, Named
<1>49. ASSUME Before, NEW i \in Intents, AgeOut(i) PROVE StatusMove
  BY <1>49 DEF AgeOut, StatusMove, MovesOn, Statuses, Report, Holding, Evident, Typed,
      InHand, InFiles, Named
<1>50. ASSUME Before, NEW o \in Origins, OrderAnswered(o) PROVE StatusMove
  BY <1>50 DEF OrderAnswered, StatusMove, MovesOn, Statuses, Report, Holding, Evident,
      Typed, InHand, InFiles, Named
<1>51. ASSUME Before, NEW o \in Origins, PositionCloses(o) PROVE StatusMove
  BY <1>51 DEF PositionCloses, StatusMove, MovesOn, Statuses, Report, Holding, Evident,
      Typed, InHand, InFiles, Named
<1>52. ASSUME Before, UNCHANGED vars PROVE StatusMove
  BY <1>52 DEF vars, StatusMove, MovesOn, Statuses, Report, Holding, Evident, Typed,
      InHand, InFiles, Named
<1> QED
  BY Facts, <1>1, <1>2, <1>3, <1>4, <1>5, <1>6, <1>7, <1>8, <1>9, <1>10, <1>11, <1>12,
      <1>13, <1>14, <1>15, <1>16, <1>17, <1>18, <1>19, <1>20, <1>21, <1>22, <1>23, <1>24,
      <1>25, <1>26, <1>27, <1>28, <1>29, <1>30, <1>31, <1>32, <1>33, <1>34, <1>35, <1>36,
      <1>37, <1>38, <1>39, <1>40, <1>41, <1>42, <1>43, <1>44, <1>45, <1>46, <1>47, <1>48,
      <1>49, <1>50, <1>51, <1>52 DEF Next, DispatchStep, FailingStep, EaStep, Environment,
      Visit

\* What a step does to the broker's answers: nothing, but for the two steps that
\* are an answer.
AttemptKept ==
    /\ UNCHANGED rolled
    /\ \A o \in Origins :
          /\ \/ order'[o] = order[o]
             \/ order[o] = "none" /\ order'[o] = "queued"
             \/ order[o] = "open" /\ order'[o] = "closed"
          /\ order[o] # "none" => claim'[o] = claim[o]
AttemptMove == \/ AttemptKept
               \/ EaExecutes
               \/ \E o \in Origins : OrderAnswered(o)

\* Every step moves the answers in one of these ways.
LEMMA AttemptStep ==
    Typed /\ Holding /\ Claimed /\ Pressed /\ [Next]_vars => AttemptMove
<1> USE DEF saved, files, mail, market, At, Hand, Ledger, GoTo, PersistAs, AbortAs, EaLedger
<1> DEFINE Before == Named /\ Typed /\ Holding /\ Claimed /\ Pressed
<1>1. ASSUME Before, InspectExistingEvidence PROVE AttemptMove
  BY <1>1 DEF InspectExistingEvidence, Settle, SettleAs, AttemptMove, AttemptKept,
      Holding, Claimed, Pressed, Unsent, Named, Typed, InFiles, InHand
<1>2. ASSUME Before, ClaimEntry PROVE AttemptMove
  BY <1>2 DEF ClaimEntry, Settle, SettleAs, AttemptMove, AttemptKept, Holding, Claimed,
      Pressed, Unsent, Named, Typed, InFiles, InHand
<1>3. ASSUME Before, PostPreparation PROVE AttemptMove
  BY <1>3 DEF PostPreparation, AttemptMove, AttemptKept, Holding, Claimed, Pressed,
      Unsent, Named, Typed, InFiles, InHand
<1>4. ASSUME Before, PreparationAnswered PROVE AttemptMove
  BY <1>4 DEF PreparationAnswered, AnswerEnvelope, AttemptMove, AttemptKept, Holding,
      Claimed, Pressed, Unsent, Named, Typed, InFiles, InHand
<1>5. ASSUME Before, PreparationLate PROVE AttemptMove
  BY <1>5 DEF PreparationLate, AttemptMove, AttemptKept, Holding, Claimed, Pressed,
      Unsent, Named, Typed, InFiles, InHand
<1>6. ASSUME Before, ReadLateClaim PROVE AttemptMove
  BY <1>6 DEF ReadLateClaim, AttemptMove, AttemptKept, Holding, Claimed, Pressed, Unsent,
      Named, Typed, InFiles, InHand
<1>7. ASSUME Before, RetractPreparation PROVE AttemptMove
  BY <1>7 DEF RetractPreparation, AttemptMove, AttemptKept, Holding, Claimed, Pressed,
      Unsent, Named, Typed, InFiles, InHand
<1>8. ASSUME Before, OpenOrderWindow PROVE AttemptMove
  BY <1>8 DEF OpenOrderWindow, NotSubmitted, AttemptMove, AttemptKept, Holding, Claimed,
      Pressed, Unsent, Named, Typed, InFiles, InHand
<1>9. ASSUME Before, FillOrderWindow PROVE AttemptMove
  BY <1>9 DEF FillOrderWindow, AttemptMove, AttemptKept, Holding, Claimed, Pressed,
      Unsent, Named, Typed, InFiles, InHand
<1>10. ASSUME Before, FillFails PROVE AttemptMove
  BY <1>10 DEF FillFails, NotSubmitted, AttemptMove, AttemptKept, Holding, Claimed,
      Pressed, Unsent, Named, Typed, InFiles, InHand
<1>11. ASSUME Before, FillTimesOut PROVE AttemptMove
  BY <1>11 DEF FillTimesOut, NotSubmitted, AttemptMove, AttemptKept, Holding, Claimed,
      Pressed, Unsent, Named, Typed, InFiles, InHand
<1>12. ASSUME Before, PressButton PROVE AttemptMove
  BY <1>12 DEF PressButton, AttemptMove, AttemptKept, Holding, Claimed, Pressed, Unsent,
      Named, Typed, InFiles, InHand
<1>13. ASSUME Before, SubmitRefused PROVE AttemptMove
  BY <1>13 DEF SubmitRefused, NotSubmitted, AttemptMove, AttemptKept, Holding, Claimed,
      Pressed, Unsent, Named, Typed, InFiles, InHand
<1>14. ASSUME Before, SubmitTimesOut PROVE AttemptMove
  BY <1>14 DEF SubmitTimesOut, AttemptMove, AttemptKept, Holding, Claimed, Pressed,
      Unsent, Named, Typed, InFiles, InHand
<1>15. ASSUME Before, SubmitAnswered PROVE AttemptMove
  BY <1>15 DEF SubmitAnswered, AttemptMove, AttemptKept, Holding, Claimed, Pressed,
      Unsent, Named, Typed, InFiles, InHand
<1>16. ASSUME Before, VerifyPosition PROVE AttemptMove
  BY <1>16 DEF VerifyPosition, PositionSeen, AttemptMove, AttemptKept, Holding, Claimed,
      Pressed, Unsent, Named, Typed, InFiles, InHand
<1>17. ASSUME Before, VerifyGivesUp PROVE AttemptMove
  BY <1>17 DEF VerifyGivesUp, AttemptMove, AttemptKept, Holding, Claimed, Pressed, Unsent,
      Named, Typed, InFiles, InHand
<1>18. ASSUME Before, CloseOrderWindow PROVE AttemptMove
  BY <1>18 DEF CloseOrderWindow, AfterClose, Settle, SettleAs, AttemptMove, AttemptKept,
      Holding, Claimed, Pressed, Unsent, Named, Typed, InFiles, InHand
<1>19. ASSUME Before, PersistFinal PROVE AttemptMove
  BY <1>19 DEF PersistFinal, Settle, SettleAs, AttemptMove, AttemptKept, Holding, Claimed,
      Pressed, Unsent, Named, Typed, InFiles, InHand
<1>20. ASSUME Before, ReadLateProof PROVE AttemptMove
  BY <1>20 DEF ReadLateProof, PositionSeen, Settle, SettleAs, AttemptMove, AttemptKept,
      Holding, Claimed, Pressed, Unsent, Named, Typed, InFiles, InHand
<1>21. ASSUME Before, NoLateProof PROVE AttemptMove
  BY <1>21 DEF NoLateProof, Settle, SettleAs, AttemptMove, AttemptKept, Holding, Claimed,
      Pressed, Unsent, Named, Typed, InFiles, InHand
<1>22. ASSUME Before, Restart PROVE AttemptMove
  BY <1>22 DEF Restart, AttemptMove, AttemptKept, Holding, Claimed, Pressed, Unsent,
      Named, Typed, InFiles, InHand
<1>23. ASSUME Before, InspectBlind PROVE AttemptMove
  BY <1>23 DEF InspectBlind, AttemptMove, AttemptKept, Holding, Claimed, Pressed, Unsent,
      Named, Typed, InFiles, InHand
<1>24. ASSUME Before, ClaimFails PROVE AttemptMove
  BY <1>24 DEF ClaimFails, Settle, SettleAs, AttemptMove, AttemptKept, Holding, Claimed,
      Pressed, Unsent, Named, Typed, InFiles, InHand
<1>25. ASSUME Before, PostFails PROVE AttemptMove
  BY <1>25 DEF PostFails, AttemptMove, AttemptKept, Holding, Claimed, Pressed, Unsent,
      Named, Typed, InFiles, InHand
<1>26. ASSUME Before, RetractFails PROVE AttemptMove
  BY <1>26 DEF RetractFails, AttemptMove, AttemptKept, Holding, Claimed, Pressed, Unsent,
      Named, Typed, InFiles, InHand
<1>27. ASSUME Before, RunnerFails PROVE AttemptMove
  BY <1>27 DEF RunnerFails, NotSubmitted, AttemptMove, AttemptKept, Holding, Claimed,
      Pressed, Unsent, Named, Typed, InFiles, InHand
<1>28. ASSUME Before, WindowComesLate PROVE AttemptMove
  BY <1>28 DEF WindowComesLate, NotSubmitted, AttemptMove, AttemptKept, Holding, Claimed,
      Pressed, Unsent, Named, Typed, InFiles, InHand
<1>29. ASSUME Before, SubmitAnswerWrong PROVE AttemptMove
  BY <1>29 DEF SubmitAnswerWrong, NotSubmitted, AttemptMove, AttemptKept, Holding,
      Claimed, Pressed, Unsent, Named, Typed, InFiles, InHand
<1>30. ASSUME Before, VerifyFails PROVE AttemptMove
  BY <1>30 DEF VerifyFails, AttemptMove, AttemptKept, Holding, Claimed, Pressed, Unsent,
      Named, Typed, InFiles, InHand
<1>31. ASSUME Before, CloseFails PROVE AttemptMove
  BY <1>31 DEF CloseFails, AfterClose, Settle, SettleAs, AttemptMove, AttemptKept,
      Holding, Claimed, Pressed, Unsent, Named, Typed, InFiles, InHand
<1>32. ASSUME Before, PersistFails PROVE AttemptMove
  BY <1>32 DEF PersistFails, Settle, SettleAs, AttemptMove, AttemptKept, Holding, Claimed,
      Pressed, Unsent, Named, Typed, InFiles, InHand
<1>33. ASSUME Before, LateProofFails PROVE AttemptMove
  BY <1>33 DEF LateProofFails, Settle, SettleAs, AttemptMove, AttemptKept, Holding,
      Claimed, Pressed, Unsent, Named, Typed, InFiles, InHand
<1>34. ASSUME Before, EaWriteFails PROVE AttemptMove
  BY <1>34 DEF EaWriteFails, AttemptMove, AttemptKept, Holding, Claimed, Pressed, Unsent,
      Named, Typed, InFiles, InHand
<1>35. ASSUME Before, CrashController PROVE AttemptMove
  BY <1>35 DEF CrashController, AttemptMove, AttemptKept, Holding, Claimed, Pressed,
      Unsent, Named, Typed, InFiles, InHand
<1>36. ASSUME Before, CrashEA PROVE AttemptMove
  BY <1>36 DEF CrashEA, AttemptMove, AttemptKept, Holding, Claimed, Pressed, Unsent,
      Named, Typed, InFiles, InHand
<1>37. ASSUME Before, LoseState PROVE AttemptMove
  BY <1>37 DEF LoseState, AttemptMove, AttemptKept, Holding, Claimed, Pressed, Unsent,
      Named, Typed, InFiles, InHand
<1>38. ASSUME Before, EaPolls PROVE AttemptMove
  BY <1>38 DEF EaPolls, AttemptMove, AttemptKept, Holding, Claimed, Pressed, Unsent,
      Named, Typed, InFiles, InHand
<1>39. ASSUME Before, EaFence PROVE AttemptMove
  BY <1>39 DEF EaFence, AttemptMove, AttemptKept, Holding, Claimed, Pressed, Unsent,
      Named, Typed, InFiles, InHand
<1>40. ASSUME Before, EaExecutes PROVE AttemptMove
  BY <1>40 DEF AttemptMove
<1>41. ASSUME Before, EaWritesResult PROVE AttemptMove
  BY <1>41 DEF EaWritesResult, AttemptMove, AttemptKept, Holding, Claimed, Pressed,
      Unsent, Named, Typed, InFiles, InHand
<1>42. ASSUME Before, EaDeletesTask PROVE AttemptMove
  BY <1>42 DEF EaDeletesTask, AttemptMove, AttemptKept, Holding, Claimed, Pressed, Unsent,
      Named, Typed, InFiles, InHand
<1>43. ASSUME Before, OperatorOpensWindow PROVE AttemptMove
  BY <1>43 DEF OperatorOpensWindow, AttemptMove, AttemptKept, Holding, Claimed, Pressed,
      Unsent, Named, Typed, InFiles, InHand
<1>44. ASSUME Before, OperatorClosesWindow PROVE AttemptMove
  BY <1>44 DEF OperatorClosesWindow, AttemptMove, AttemptKept, Holding, Claimed, Pressed,
      Unsent, Named, Typed, InFiles, InHand
<1>45. ASSUME Before, NEW i \in Intents, ReconcileBlind(i) PROVE AttemptMove
  BY <1>45 DEF ReconcileBlind, SettleAs, AttemptMove, AttemptKept, Holding, Claimed,
      Pressed, Unsent, Named, Typed, InFiles, InHand
<1>46. ASSUME Before, NEW i \in Intents, Start(i) PROVE AttemptMove
  BY <1>46 DEF Start, Take, AttemptMove, AttemptKept, Holding, Claimed, Pressed, Unsent,
      Named, Typed, InFiles, InHand
<1>47. ASSUME Before, NEW i \in Intents, Reconcile(i) PROVE AttemptMove
  BY <1>47 DEF Reconcile, SettleAs, Take, LateProofAllowed, AttemptMove, AttemptKept,
      Holding, Claimed, Pressed, Unsent, Named, Typed, InFiles, InHand
<1>48. ASSUME Before, NEW i \in Intents, Arm(i) PROVE AttemptMove
  BY <1>48 DEF Arm, AttemptMove, AttemptKept, Holding, Claimed, Pressed, Unsent, Named,
      Typed, InFiles, InHand
<1>49. ASSUME Before, NEW i \in Intents, AgeOut(i) PROVE AttemptMove
  BY <1>49 DEF AgeOut, AttemptMove, AttemptKept, Holding, Claimed, Pressed, Unsent, Named,
      Typed, InFiles, InHand
<1>50. ASSUME Before, NEW o \in Origins, OrderAnswered(o) PROVE AttemptMove
  BY <1>50 DEF AttemptMove
<1>51. ASSUME Before, NEW o \in Origins, PositionCloses(o) PROVE AttemptMove
  BY <1>51 DEF PositionCloses, AttemptMove, AttemptKept, Holding, Claimed, Pressed,
      Unsent, Named, Typed, InFiles, InHand
<1>52. ASSUME Before, UNCHANGED vars PROVE AttemptMove
  BY <1>52 DEF vars, AttemptMove, AttemptKept, Holding, Claimed, Pressed, Unsent, Named,
      Typed, InFiles, InHand
<1> QED
  BY Facts, <1>1, <1>2, <1>3, <1>4, <1>5, <1>6, <1>7, <1>8, <1>9, <1>10, <1>11, <1>12,
      <1>13, <1>14, <1>15, <1>16, <1>17, <1>18, <1>19, <1>20, <1>21, <1>22, <1>23, <1>24,
      <1>25, <1>26, <1>27, <1>28, <1>29, <1>30, <1>31, <1>32, <1>33, <1>34, <1>35, <1>36,
      <1>37, <1>38, <1>39, <1>40, <1>41, <1>42, <1>43, <1>44, <1>45, <1>46, <1>47, <1>48,
      <1>49, <1>50, <1>51, <1>52 DEF Next, DispatchStep, FailingStep, EaStep, Environment,
      Visit

Rep(s) == CASE s \in {"new", "scheduled"} -> "held"
            [] s = "executing"            -> "sent"
            [] s = "uncertain"            -> "unknown"
            [] OTHER                      -> s
Att(o) ==
    CASE rolled[o] # NoIntent            -> [by |-> rolled[o], out |-> "done"]
      [] order[o] \in {"open", "closed"} -> [by |-> claim[o], out |-> "done"]
      [] order[o] = "refused"            -> [by |-> claim[o], out |-> "failed"]
      [] OTHER                           -> [by |-> "nobody", out |-> "failed"]

\* The reports of the statuses.
LEMMA RepIs ==
    /\ Rep("new") = "held" /\ Rep("scheduled") = "held" /\ Rep("executing") = "sent"
    /\ Rep("uncertain") = "unknown" /\ Rep("failed") = "failed" /\ Rep("executed") = "executed"
    /\ Rep("lost") = "lost"
  BY DEF Rep
\* The mapped variables, by intent and by origin.
LEMMA AbsIs ==
    /\ AbsReport = [i \in Intents |-> Rep(status[i])]
    /\ AbsReport' = [i \in Intents |-> Rep(status'[i])]
    /\ AbsAttempt = [o \in Origins |-> Att(o)]
    /\ AbsAttempt' = [o \in Origins |-> Att(o)']
  BY DEF AbsReport, AbsAttempt, Rep, Att

\* What keeps the answers keeps the attempts.
LEMMA AttemptsStay == Typed /\ AttemptKept => AbsAttempt' = AbsAttempt
<1> SUFFICES ASSUME Typed, AttemptKept, NEW o \in Origins PROVE Att(o)' = Att(o)
  BY AbsIs
<1>1. rolled' = rolled
  BY DEF AttemptKept
<1>2. order[o] \in {"open", "closed", "refused"} => claim'[o] = claim[o]
  BY DEF AttemptKept
<1>3. order'[o] \in {"open", "closed"} <=> order[o] \in {"open", "closed"}
  BY DEF AttemptKept
<1>4. order'[o] = "refused" <=> order[o] = "refused"
  BY DEF AttemptKept
<1> QED
  BY <1>1, <1>2, <1>3, <1>4 DEF Att

\* A status that moves on is a step of the contract.
LEMMA ReportStep ==
    ASSUME Named, Typed, Claimed, Prepared, Pressed, StatusMove, AbsAttempt' = AbsAttempt
    PROVE  [Contract!Next]_(Contract!cvars)
<1>1. CASE UNCHANGED status
  <2>1. AbsReport' = AbsReport
    BY <1>1, AbsIs
  <2> QED
    BY <2>1 DEF Contract!cvars
<1>2. CASE LoseState
  <2> DEFINE S == {i \in Intents : status[i] # "new"}
  <2>1. \A i \in Intents : status'[i] = IF i \in S THEN "lost" ELSE status[i]
    BY <1>2 DEF LoseState
  <2>2. AbsReport' = [i \in Intents |-> IF i \in S THEN "lost" ELSE AbsReport[i]]
    BY <2>1, AbsIs, RepIs
  <2>3. Contract!Forget(S)
    BY <2>2 DEF Contract!Forget, Contract!Becomes
  <2> QED
    BY <2>3 DEF Contract!Next
<1>3. ASSUME NEW i \in Intents, NEW s \in Statuses, MovesOn(i, s)
      PROVE  [Contract!Next]_(Contract!cvars)
  <2>1. \A j \in Intents : status'[j] = IF j = i THEN s ELSE status[j]
    BY <1>3 DEF MovesOn, Typed, InFiles
  <2>2. Contract!Becomes({i}, Rep(s)) /\ AbsReport[i] = Rep(status[i])
    BY <2>1, AbsIs DEF Contract!Becomes
  <2>3. CASE Rep(s) = Rep(status[i])
    <3>1. AbsReport' = AbsReport
      BY <2>1, <2>3, AbsIs
    <3> QED
      BY <3>1 DEF Contract!cvars
  <2>4. CASE status[i] = "scheduled" /\ s = "executing"
    <3>1. Contract!Send(i)
      BY <2>2, <2>4, RepIs DEF Contract!Send
    <3> QED
      BY <3>1 DEF Contract!Next
  <2>5. CASE status[i] \in {"executing", "uncertain"} /\ s = "failed"
    <3>1. Contract!Fail(i)
      BY <2>2, <2>5, RepIs DEF Contract!Fail
    <3> QED
      BY <3>1 DEF Contract!Next
  <2>6. CASE status[i] = "executing" /\ s = "uncertain"
    <3>1. Contract!Doubt(i)
      BY <2>2, <2>6, RepIs DEF Contract!Doubt
    <3> QED
      BY <3>1 DEF Contract!Next
  <2>7. CASE status[i] \in {"executing", "uncertain"} /\ s = "executed" /\ i \in Served
    <3>1. PICK o \in Origins : o = OriginOf[i]
      BY DEF Named
    <3>2. claim[o] \in Intents /\ Same(claim[o], i) /\ Att(o).out = "done" /\ Same(Att(o).by, i)
      <4>1. /\ claim[o] \in Intents /\ Same(claim[o], i)
            /\ rolled[o] # NoIntent \/ order[o] \in {"open", "closed"}
        BY <2>7, <3>1 DEF Served
      <4>2. Att(o) = [by |-> claim[o], out |-> "done"]
        <5>1. CASE rolled[o] # NoIntent
          <6>1. order[o] = "none" /\ claim[o] = rolled[o]
            BY <3>1, <5>1 DEF Claimed, Prepared, Pressed, Ready, Named
          <6> QED
            BY <5>1, <6>1 DEF Att
        <5>2. CASE rolled[o] = NoIntent
          BY <4>1, <5>2 DEF Att
        <5> QED
          BY <5>1, <5>2
      <4> QED
        BY <4>1, <4>2
    <3>3. Contract!Accepted(i)
      BY <3>1, <3>2, AbsIs DEF Contract!Accepted, Contract!Nothing, Contract!Same, Same
    <3>4. Contract!Confirm(i)
      BY <2>2, <2>7, <3>3, RepIs DEF Contract!Confirm
    <3> QED
      BY <3>4 DEF Contract!Next
  <2> QED
    BY <1>3, <2>3, <2>4, <2>5, <2>6, <2>7, RepIs DEF MovesOn
<1> QED
  BY <1>1, <1>2, <1>3 DEF StatusMove

\* An answer of the broker is the one attempt of its ledger.
LEMMA FirstAttempt ==
    ASSUME Typed, NEW i \in Intents, NEW o \in Origins, OriginOf[i] = o, i \in Begun,
           UNCHANGED status, Att(o) = Contract!Nothing,
           \A p \in Origins : p # o => Att(p)' = Att(p),
           NEW out \in {"done", "failed"}, Att(o)' = [by |-> i, out |-> out]
    PROVE  Contract!Attempt(i)
<1>1. AbsReport' = AbsReport
  BY AbsIs
<1>2. AbsReport[i] \notin {"held", "dropped"}
  <2>1. status[i] \in Statuses \ {"new", "scheduled"}
    BY DEF Typed, InFiles, Begun
  <2>2. Rep(status[i]) \notin {"held", "dropped"}
    BY <2>1 DEF Rep, Statuses
  <2> QED
    BY <2>2, AbsIs
<1>3. AbsAttempt[o] = Contract!Nothing
  BY AbsIs
<1>4. AbsAttempt' = [AbsAttempt EXCEPT ![o] = [by |-> i, out |-> out]]
  <2>1. \A p \in Origins : Att(p)' = IF p = o THEN [by |-> i, out |-> out] ELSE Att(p)
    OBVIOUS
  <2> QED
    BY <2>1, AbsIs
<1> QED
  BY <1>1, <1>2, <1>3, <1>4 DEF Contract!Attempt, Contract!Outcomes

\* The two steps that are an answer.
LEMMA AnswerStep ==
    ASSUME Named, Typed, Claimed, Prepared, Pressed,
           EaExecutes \/ \E o \in Origins : OrderAnswered(o)
    PROVE  [Contract!Next]_(Contract!cvars)
<1> USE DEF saved, files, mail, market
<1>1. ASSUME NEW o \in Origins, OrderAnswered(o) PROVE \E i \in Intents : Contract!Attempt(i)
  <2>1. UNCHANGED <<status, claim, rolled>> /\ order[o] = "queued"
    BY <1>1 DEF OrderAnswered
  <2>2. PICK answer \in {"open", "refused"} : order' = [order EXCEPT ![o] = answer]
    BY <1>1 DEF OrderAnswered
  <2>3. /\ rolled[o] = NoIntent /\ claim[o] \in Intents
        /\ OriginOf[claim[o]] = o /\ claim[o] \in Begun
    BY <1>1, <2>1 DEF Claimed, Prepared, Pressed, Ready
  <2>4. order'[o] = answer /\ \A p \in Origins : p # o => order'[p] = order[p]
    BY <1>1, <2>2 DEF Typed, InFiles
  <2>5. Att(o) = Contract!Nothing
    BY <2>1, <2>3 DEF Att, Contract!Nothing
  <2>6. \A p \in Origins : p # o => Att(p)' = Att(p)
    BY <2>1, <2>4 DEF Att
  <2>7. Att(o)' = [by |-> claim[o], out |-> IF answer = "open" THEN "done" ELSE "failed"]
    BY <2>1, <2>3, <2>4 DEF Att
  <2>8. CASE answer = "open"
    BY <2>1, <2>3, <2>5, <2>6, <2>7, <2>8, FirstAttempt
  <2>9. CASE answer = "refused"
    BY <2>1, <2>3, <2>5, <2>6, <2>7, <2>9, FirstAttempt
  <2> QED
    BY <2>8, <2>9
<1>2. ASSUME EaExecutes, rolled' = rolled PROVE UNCHANGED Contract!cvars
  <2>1. UNCHANGED <<status, claim, order, rolled>>
    BY <1>2 DEF EaExecutes
  <2>2. \A o \in Origins : Att(o)' = Att(o)
    BY <2>1 DEF Att
  <2> QED
    BY <2>1, <2>2, AbsIs DEF Contract!cvars
<1>3. ASSUME EaExecutes, rolled' # rolled PROVE \E i \in Intents : Contract!Attempt(i)
  <2>1. /\ ea.at = "execute" /\ UNCHANGED <<status, claim, order>>
        /\ rolled' = [rolled EXCEPT ![EaLedger] = ea.i]
    BY <1>3 DEF EaExecutes
  <2>2. ea.i \in Intents /\ EaLedger \in Origins /\ OriginOf[ea.i] = EaLedger
    BY <1>3, <2>1 DEF Typed, InFiles, Named, EaLedger
  <2>3. claim[EaLedger] = ea.i /\ ea.i \in Begun
    BY <1>3, <2>1, <2>2 DEF Prepared, Claimed, Named
  <2>4. rolled[EaLedger] = NoIntent /\ order[EaLedger] = "none"
    BY <1>3, <2>1, <2>2 DEF Prepared, Pressed, Ready
  <2>5. Att(EaLedger) = Contract!Nothing
    BY <2>4 DEF Att, Contract!Nothing
  <2>6. PICK o \in Origins : o = EaLedger
    BY <2>2
  <2>7. rolled'[o] = ea.i /\ \A p \in Origins : p # o => rolled'[p] = rolled[p]
    BY <1>3, <2>1, <2>6 DEF Typed, InFiles
  <2>8. \A p \in Origins : p # o => Att(p)' = Att(p)
    BY <2>1, <2>7 DEF Att
  <2>9. Att(o)' = [by |-> ea.i, out |-> "done"]
    <3>1. rolled'[o] = ea.i /\ ea.i # NoIntent
      BY <1>3, <2>2, <2>7 DEF Named
    <3> QED
      BY <2>1, <2>4, <2>6, <3>1 DEF Att
  <2> QED
    BY <2>1, <2>2, <2>3, <2>5, <2>6, <2>8, <2>9, FirstAttempt
<1> QED
  BY <1>1, <1>2, <1>3 DEF Contract!Next

\* Every step is a step of the contract or none.
LEMMA ContractStep == IInv /\ [Next]_vars => [Contract!Next]_(Contract!cvars)
<1> SUFFICES ASSUME IInv, [Next]_vars PROVE [Contract!Next]_(Contract!cvars)
  OBVIOUS
<1>1. Named /\ Typed /\ Holding /\ Claimed /\ Prepared /\ Pressed /\ Evident
  BY Facts DEF IInv
<1>2. StatusMove
  BY <1>1, StatusStep
<1>3. AttemptMove
  BY <1>1, AttemptStep
<1>4. CASE AttemptKept
  BY <1>1, <1>2, <1>4, AttemptsStay, ReportStep
<1> QED
  BY <1>1, <1>3, <1>4, AnswerStep DEF AttemptMove

\* Timed entries through the window keep the contract of the PC-local path: an
\* entry is only reported executed when the broker served its line and task, and
\* no line is attempted twice.
THEOREM ContractKept == Spec => KeepsContract
<1>1. Init => Contract!Init
  BY AbsIs DEF Init, Contract!Init, Contract!Nothing, Rep, Att
<1> QED
  BY <1>1, ContractStep, Invariance, PTL DEF Spec, KeepsContract, Contract!Spec
=============================================================================

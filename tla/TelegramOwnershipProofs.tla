---------------------- MODULE TelegramOwnershipProofs ----------------------
(***************************************************************************)
(* Proofs about TelegramOwnership, for any number of updates and lines and *)
(* any number of failed calls, crashes, lost state files and webhooks set. *)
(*                                                                         *)
(* IInv is the inductive invariant; each of its parts has a lemma that a   *)
(* step keeps it, with one case per action (RemoteSteps first sums up the  *)
(* steps that touch no batch).  LeastElement replaces the induction that   *)
(* First, a CHOOSE of the least update, would otherwise need.              *)
(***************************************************************************)
EXTENDS TelegramOwnership, FiniteSetTheorems, TLAPS

\* Every non-empty set of naturals has a least element: among its initial parts,
\* which are finite, one has no smaller one.
LEMMA LeastElement ==
    ASSUME NEW S \in SUBSET Nat, S # {}
    PROVE  \E x \in S : \A y \in S : x <= y
<1> DEFINE Part(x) == {y \in S : y <= x}
           Family  == {Part(x) : x \in S}
           R       == StrictSubsetOrdering(S)
<1>1. Family \subseteq FiniteSubsetsOf(S)
  <2>1. ASSUME NEW x \in S PROVE IsFiniteSet(Part(x))
    <3>1. \A y \in Part(x) : y <= x
      OBVIOUS
    <3>2. Part(x) \in SUBSET Nat /\ x \in Nat
      OBVIOUS
    <3> QED BY <3>1, <3>2, FS_BoundedSetOfNaturals
  <2> QED BY <2>1 DEF FiniteSubsetsOf
<1>2. Family # {}
  OBVIOUS
<1>3. IsWellFoundedOn(R, FiniteSubsetsOf(S))
  BY FS_StrictSubsetOrderingWellFounded
<1>4. PICK T \in Family : \A U \in Family : <<U, T>> \notin R
  <2> HIDE DEF R, Family
  <2> QED BY <1>1, <1>2, <1>3, WFMin
<1>5. PICK x \in S : T = Part(x)
  BY <1>4
<1>6. ASSUME NEW y \in S, y < x PROVE FALSE
  <2>1. x \in Nat /\ y \in Nat
    OBVIOUS
  <2>2. Part(y) \subseteq Part(x) /\ x \in Part(x) /\ x \notin Part(y)
    <3>1. \A z \in S : z \in Nat
      OBVIOUS
    <3>2. \A z \in S : z <= y => z <= x
      BY <2>1, <3>1, <1>6
    <3>3. x <= x /\ ~ (x <= y)
      BY <2>1, <1>6
    <3> QED BY <3>2, <3>3
  <2>3. <<Part(y), Part(x)>> \in R
    BY <2>2 DEF StrictSubsetOrdering
  <2> QED BY <1>4, <1>5, <2>3
<1> QED BY <1>6

-----------------------------------------------------------------------------
(* The updates and their lines *)

\* Updates are 1, 2, ... up to the last.
LEMMA UpdatesAreNumbered ==
    /\ Updates = 1..Len(LinesOf) /\ Len(LinesOf) \in Nat
    /\ \A u \in Updates : u \in Nat /\ u >= 1 /\ LinesOf[u] \in Nat
  BY OwnershipAssumption DEF Updates

\* The first update of a batch is one of it, and none comes before it.
LEMMA FirstOf ==
    ASSUME NEW S \in SUBSET Updates, S # {}
    PROVE  First(S) \in S /\ \A v \in S : First(S) <= v
<1>1. S \in SUBSET Nat
  BY UpdatesAreNumbered
<1>2. \E u \in S : \A v \in S : u <= v
  BY <1>1, LeastElement
<1> QED
  BY <1>2 DEF First

\* While there is more to do for the first update of a batch, Current is a line.
LEMMA CurrentIsALine ==
    ASSUME TypeOK, inbox # {}, More
    PROVE  Current \in Lines
<1>1. First(inbox) \in Updates
  BY FirstOf DEF TypeOK
<1>2. line \in 1..LinesOf[First(inbox)]
  BY <1>1, UpdatesAreNumbered DEF TypeOK, More
<1> QED
  BY <1>1, <1>2 DEF Lines, Current

\* The lines of an update are lines.
LEMMA LineOf == \A u \in Updates : \A k \in 1..LinesOf[u] : <<u, k>> \in Lines
  BY DEF Lines

-----------------------------------------------------------------------------
(* The inductive invariant, in six parts *)

\* What the controller holds in memory is behind what was sent.
Shape ==
    /\ inbox \subseteq 1..sent /\ queue \subseteq 1..sent
    /\ offset <= sent /\ handled \subseteq 1..offset
    /\ pc \notin {"line", "run", "ran", "reply"} => inbox = {}
    /\ pc \in {"run", "ran"} => More

\* A line that has no marker was never handled, one about to be handled has its
\* marker; a failover controller that lost its state file does nothing more.
Halted == mode = "BLOCKED_UNCERTAIN" /\ pc \in {"down", "boot", "top"}
Once ==
    /\ lost = 0 => \A l \in Lines : /\ commands[l] = "none" => runs[l] = 0
                                    /\ runs[l] <= 1
    /\ lost = 0 /\ pc = "run" => commands[Current] = "processing" /\ runs[Current] = 0
    /\ lost > 0 /\ ~ LocalPrimary => Halted /\ \A l \in Lines : runs[l] <= 1

\* What is behind the offset, outside the queue or passed over by the batch in
\* hand has an outcome here, or was completed by the cloud.
Served ==
    {u \in Updates :
        \/ lost > 0
        \/ u <= offset /\ \A k \in 1..LinesOf[u] : commands[<<u, k>>] = "done"}
Accounted == Served \cup {u \in Updates : key[u] = "done"}
Kept ==
    /\ 1..sent \subseteq queue \cup Accounted
    /\ 1..offset \subseteq Accounted
    /\ \A u \in inbox : 1..u \subseteq inbox \cup Accounted
    /\ handled \subseteq Served
    /\ \A u \in Updates : cloud[u] = "running" => key[u] = "processing" \/ u \in Served

\* The lines before the one in hand have their outcome.
Behind ==
    lost = 0 /\ inbox # {} =>
        \A k \in 1..LinesOf[First(inbox)] : k < line => commands[<<First(inbox), k>>] = "done"

\* In failover mode, and while nobody else sets the webhook: where the steps
\* belong, and that whatever the cloud could be given is fenced or new.
Takeover == ~ LocalPrimary /\ setups = 0
Fenced   == \A u \in queue : u <= offset => key[u] = "done"
Apart ==
    /\ pc \notin {"own", "ownDelete", "ownVerify"}
    /\ pc \in {"armCheck", "armDelete", "armVerify"} => mode = "ARMING"
    /\ pc \in {"recVerify", "verify", "flush", "poll", "line", "run", "ran", "reply"}
         => mode = "LOCAL_ACTIVE"
    /\ pc \in {"fence", "setHook", "checkHook"} => mode = "RECOVERING"
    /\ mode = "STANDBY" => hook = "cloud"
    /\ inbox # {} => hook = "none"
    /\ \A u \in Updates : cloud[u] = "running" => key[u] = "processing"
    /\ hook = "cloud" \/ mode = "RECOVERING" \/ pc = "recVerify" =>
         \A u \in Updates : cloud[u] = "running" => u > offset
    /\ hook = "cloud" \/ pc = "setHook" => Fenced
    /\ \A u \in queue : u <= offset => u \in handled \/ key[u] = "done"
    /\ \A u \in inbox : \A v \in queue : v < u => v \in inbox \/ v <= offset

IInv == TypeOK /\ Shape /\ Once /\ Behind /\ Kept /\ (Takeover => Apart)
-----------------------------------------------------------------------------
(* What the actions do, summed up *)

\* Whatever the controller does besides working on a batch: no batch afterwards,
\* the marks, the queue and the counts as before, handled ids and waiting intents
\* as before or dropped, keys as before or fenced.
Working == {"line", "run", "ran", "reply"}
Marked  == [u \in Updates |-> IF u \in handled THEN "done" ELSE key[u]]
Remote ==
    /\ mode' \in Modes /\ streak' \in 0..Threshold
    /\ handled' \in {handled, {}} /\ waiting' \in {waiting, {}}
    /\ UNCHANGED <<control, offset, commands, replies>>
    /\ pc' \in Steps \ Working 
    /\ inbox' = {} /\ line' \in Nat \ {0}
    /\ hook' \in Hooks /\ UNCHANGED <<queue, sent>>
    /\ key' \in {key, Marked} /\ UNCHANGED cloud
    /\ UNCHANGED <<runs, answered, lost, setups>>
    /\ faults' \in 0..MaxFaults /\ crashes' \in 0..MaxCrashes
    /\ Halted /\ ~ LocalPrimary => Halted'

\* The eighteen steps that touch no batch are such steps.
LEMMA RemoteSteps ==
    TypeOK /\ Shape /\
        (\/ Start \/ ReconcileStartup
         \/ StayInStandby \/ WriteProbeFails \/ CloudRecovered \/ ContinueIteration
         \/ ObserveForOwnership \/ DeleteForOwnership \/ VerifyOwnershipTaken
         \/ CheckBeforeActivation \/ DeleteForActivation \/ ActivateLocal
         \/ VerifyBeforeRecovery \/ FenceHandledUpdates \/ SetWebhook \/ FinishRecovery
         \/ VerifyLocalOwnership \/ Crash)
    => Remote
<1> USE DEF file, process, telegram, redis, ghost, bounds, Elsewhere, Quiet, At, GoTo, Abort,
            Answers, Fails, Enter, Remember, Own, Block
<1> DEFINE Typed == /\ mode \in Modes /\ streak \in 0..Threshold
                    /\ pc \in Steps /\ line \in Nat \ {0} /\ hook \in Hooks
                    /\ faults \in 0..MaxFaults /\ crashes \in 0..MaxCrashes
                    /\ pc \notin Working => inbox = {}
                    /\ Threshold \in Nat \ {0} /\ MaxFaults \in Nat /\ MaxCrashes \in Nat
<1>1. TypeOK /\ Shape => Typed
  BY OwnershipAssumption DEF TypeOK, Shape, Working
<1>2. ASSUME Typed, Start PROVE Remote
  BY <1>2 DEF Start, Remote, Halted, LocalPrimary, Modes, Steps, Hooks, Working
<1>3. ASSUME Typed, ReconcileStartup PROVE Remote
  BY <1>3 DEF ReconcileStartup, StartupMode, Remote, Halted, LocalPrimary, Modes, Steps,
      Hooks, Working
<1>4. ASSUME Typed, StayInStandby PROVE Remote
  BY <1>4 DEF StayInStandby, Remote, Halted, LocalPrimary, Modes, Steps, Hooks, Working
<1>5. ASSUME Typed, WriteProbeFails PROVE Remote
  BY <1>5 DEF WriteProbeFails, Remote, Halted, LocalPrimary, Modes, Steps, Hooks, Working
<1>6. ASSUME Typed, CloudRecovered PROVE Remote
  BY <1>6 DEF CloudRecovered, Remote, Halted, LocalPrimary, Modes, Steps, Hooks, Working
<1>7. ASSUME Typed, ContinueIteration PROVE Remote
  BY <1>7 DEF ContinueIteration, Remote, Halted, LocalPrimary, Modes, Steps, Hooks, Working
<1>8. ASSUME Typed, ObserveForOwnership PROVE Remote
  BY <1>8 DEF ObserveForOwnership, Remote, Halted, LocalPrimary, Modes, Steps, Hooks, Working
<1>9. ASSUME Typed, DeleteForOwnership PROVE Remote
  BY <1>9 DEF DeleteForOwnership, DeleteWebhook, Remote, Halted, LocalPrimary, Modes,
      Steps, Hooks, Working
<1>10. ASSUME Typed, VerifyOwnershipTaken PROVE Remote
  BY <1>10 DEF VerifyOwnershipTaken, Remote, Halted, LocalPrimary, Modes, Steps, Hooks, Working
<1>11. ASSUME Typed, CheckBeforeActivation PROVE Remote
  BY <1>11 DEF CheckBeforeActivation, Remote, Halted, LocalPrimary, Modes, Steps, Hooks, Working
<1>12. ASSUME Typed, DeleteForActivation PROVE Remote
  BY <1>12 DEF DeleteForActivation, DeleteWebhook, Remote, Halted, LocalPrimary, Modes,
      Steps, Hooks, Working
<1>13. ASSUME Typed, ActivateLocal PROVE Remote
  BY <1>13 DEF ActivateLocal, Remote, Halted, LocalPrimary, Modes, Steps, Hooks, Working
<1>14. ASSUME Typed, VerifyBeforeRecovery PROVE Remote
  BY <1>14 DEF VerifyBeforeRecovery, Remote, Halted, LocalPrimary, Modes, Steps, Hooks, Working
<1>15. ASSUME Typed, FenceHandledUpdates PROVE Remote
  BY <1>15 DEF FenceHandledUpdates, Marked, Remote, Halted, LocalPrimary, Modes, Steps,
      Hooks, Working
<1>16. ASSUME Typed, SetWebhook PROVE Remote
  BY <1>16 DEF SetWebhook, Remote, Halted, LocalPrimary, Modes, Steps, Hooks, Working
<1>17. ASSUME Typed, FinishRecovery PROVE Remote
  BY <1>17 DEF FinishRecovery, Remote, Halted, LocalPrimary, Modes, Steps, Hooks, Working
<1>18. ASSUME Typed, VerifyLocalOwnership PROVE Remote
  BY <1>18 DEF VerifyLocalOwnership, Remote, Halted, LocalPrimary, Modes, Steps, Hooks, Working
<1>19. ASSUME Typed, Crash PROVE Remote
  BY <1>19 DEF Crash, Remote, Halted, LocalPrimary, Modes, Steps, Hooks, Working
<1> QED
  BY <1>1, <1>2, <1>3, <1>4, <1>5, <1>6, <1>7, <1>8, <1>9, <1>10, <1>11, <1>12, <1>13,
      <1>14, <1>15, <1>16, <1>17, <1>18, <1>19

\* The two flags, which nothing else is about, stay flags.
LEMMA FlagStep == TypeOK /\ [Next]_vars => fresh' \in BOOLEAN /\ booting' \in BOOLEAN
<1> USE DEF file, process, telegram, redis, ghost, bounds, Elsewhere, Quiet, At, GoTo, Abort,
            Answers, Fails, Enter, Remember, Own, Block
<1> DEFINE B == fresh \in BOOLEAN /\ booting \in BOOLEAN
<1>0. TypeOK => B
  BY DEF TypeOK
<1>1. ASSUME B, Start PROVE B'
  BY <1>1 DEF Start
<1>2. ASSUME B, ReconcileStartup PROVE B'
  BY <1>2 DEF ReconcileStartup
<1>3. ASSUME B, StayInStandby PROVE B'
  BY <1>3 DEF StayInStandby
<1>4. ASSUME B, WriteProbeFails PROVE B'
  BY <1>4 DEF WriteProbeFails
<1>5. ASSUME B, CloudRecovered PROVE B'
  BY <1>5 DEF CloudRecovered
<1>6. ASSUME B, ContinueIteration PROVE B'
  BY <1>6 DEF ContinueIteration
<1>7. ASSUME B, ObserveForOwnership PROVE B'
  BY <1>7 DEF ObserveForOwnership
<1>8. ASSUME B, DeleteForOwnership PROVE B'
  BY <1>8 DEF DeleteForOwnership, DeleteWebhook
<1>9. ASSUME B, VerifyOwnershipTaken PROVE B'
  BY <1>9 DEF VerifyOwnershipTaken
<1>10. ASSUME B, CheckBeforeActivation PROVE B'
  BY <1>10 DEF CheckBeforeActivation
<1>11. ASSUME B, DeleteForActivation PROVE B'
  BY <1>11 DEF DeleteForActivation, DeleteWebhook
<1>12. ASSUME B, ActivateLocal PROVE B'
  BY <1>12 DEF ActivateLocal
<1>13. ASSUME B, VerifyBeforeRecovery PROVE B'
  BY <1>13 DEF VerifyBeforeRecovery
<1>14. ASSUME B, FenceHandledUpdates PROVE B'
  BY <1>14 DEF FenceHandledUpdates
<1>15. ASSUME B, SetWebhook PROVE B'
  BY <1>15 DEF SetWebhook
<1>16. ASSUME B, FinishRecovery PROVE B'
  BY <1>16 DEF FinishRecovery
<1>17. ASSUME B, VerifyLocalOwnership PROVE B'
  BY <1>17 DEF VerifyLocalOwnership
<1>18. ASSUME B, Crash PROVE B'
  BY <1>18 DEF Crash
<1>19. ASSUME B, FlushBeforePoll PROVE B'
  BY <1>19 DEF FlushBeforePoll, FlushPendingReplies
<1>20. ASSUME B, FlushAfterUpdate PROVE B'
  BY <1>20 DEF FlushAfterUpdate, FlushPendingReplies
<1>21. ASSUME B, Poll PROVE B'
  BY <1>21 DEF Poll
<1>22. ASSUME B, MarkLine PROVE B'
  BY <1>22 DEF MarkLine
<1>23. ASSUME B, InterruptedLine PROVE B'
  BY <1>23 DEF InterruptedLine
<1>24. ASSUME B, SkipDoneLine PROVE B'
  BY <1>24 DEF SkipDoneLine
<1>25. ASSUME B, RunLine PROVE B'
  BY <1>25 DEF RunLine
<1>26. ASSUME B, LineDone PROVE B'
  BY <1>26 DEF LineDone
<1>27. ASSUME B, FinishUpdate PROVE B'
  BY <1>27 DEF FinishUpdate
<1>28. ASSUME B, Send PROVE B'
  BY <1>28 DEF Send
<1>29. ASSUME B, SetupWebhook PROVE B'
  BY <1>29 DEF SetupWebhook
<1>30. ASSUME B, Age PROVE B'
  BY <1>30 DEF Age
<1>31. ASSUME B, LoseState PROVE B'
  BY <1>31 DEF LoseState
<1>32. ASSUME B, NEW u \in Updates, Deliver(u) PROVE B'
  BY <1>32 DEF Deliver
<1>33. ASSUME B, NEW u \in Updates, Complete(u) PROVE B'
  BY <1>33 DEF Complete
<1>34. ASSUME B, NEW u \in Updates, KeyExpires(u) PROVE B'
  BY <1>34 DEF KeyExpires
<1>35. ASSUME B, NEW u \in Updates, HandlerFails(u) PROVE B'
  BY <1>35 DEF HandlerFails
<1>36. ASSUME B, UNCHANGED vars PROVE B'
  BY <1>36 DEF vars
<1> QED
  BY <1>0, <1>1, <1>2, <1>3, <1>4, <1>5, <1>6, <1>7, <1>8, <1>9, <1>10, <1>11, <1>12,
      <1>13, <1>14, <1>15, <1>16, <1>17, <1>18, <1>19, <1>20, <1>21, <1>22, <1>23, <1>24,
      <1>25, <1>26, <1>27, <1>28, <1>29, <1>30, <1>31, <1>32, <1>33, <1>34, <1>35, <1>36
      DEF Next, Controller, Cloud

-----------------------------------------------------------------------------
(* Type correctness *)

\* The bounds are naturals.
LEMMA BoundsAreNaturals ==
    /\ Threshold \in Nat \ {0} /\ MaxFaults \in Nat /\ MaxCrashes \in Nat
    /\ TypeOK => MaxLosses[control] \in Nat /\ MaxSetups[control] \in Nat
  BY OwnershipAssumption DEF TypeOK

\* Every step keeps the types.
LEMMA TypeStep == TypeOK /\ Shape /\ [Next]_vars => TypeOK'
<1> USE DEF file, process, telegram, redis, ghost, bounds, Elsewhere, Quiet, At, GoTo, Answers,
            Fails
<1> DEFINE Flags == fresh \in BOOLEAN /\ booting \in BOOLEAN
<1>1. TypeOK /\ [Next]_vars => Flags'
  BY FlagStep
<1>2. ASSUME TypeOK, Remote, Flags' PROVE TypeOK'
  BY <1>2 DEF Remote, TypeOK, Marked, Working, Records
<1>3. ASSUME TypeOK, Shape, FlushBeforePoll, Flags' PROVE TypeOK'
  BY <1>3, BoundsAreNaturals DEF FlushBeforePoll, FlushPendingReplies, TypeOK, Steps,
      Records, Modes, Hooks, Enter
<1>4. ASSUME TypeOK, Shape, FlushAfterUpdate, Flags' PROVE TypeOK'
  BY <1>4, BoundsAreNaturals DEF FlushAfterUpdate, FlushPendingReplies, TypeOK, Steps,
      Records, Modes, Hooks, Enter
<1>5. ASSUME TypeOK, Shape, Poll, Flags' PROVE TypeOK'
  BY <1>5, BoundsAreNaturals DEF Poll, TypeOK, Steps, Records, Modes, Hooks, Enter
<1>6. ASSUME TypeOK, Shape, MarkLine, Flags' PROVE TypeOK'
  BY <1>6, CurrentIsALine, BoundsAreNaturals DEF MarkLine, TypeOK, Steps, Records, Modes,
      Hooks, Enter
<1>7. ASSUME TypeOK, Shape, InterruptedLine, Flags' PROVE TypeOK'
  BY <1>7, CurrentIsALine, BoundsAreNaturals DEF InterruptedLine, TypeOK, Steps, Records,
      Modes, Hooks, Enter
<1>8. ASSUME TypeOK, Shape, SkipDoneLine, Flags' PROVE TypeOK'
  BY <1>8, BoundsAreNaturals DEF SkipDoneLine, TypeOK, Steps, Records, Modes, Hooks, Enter
<1>9. ASSUME TypeOK, Shape, RunLine, Flags' PROVE TypeOK'
  BY <1>9, CurrentIsALine, BoundsAreNaturals DEF RunLine, Shape, TypeOK, Steps, Records,
      Modes, Hooks, Enter
<1>10. ASSUME TypeOK, Shape, LineDone, Flags' PROVE TypeOK'
  BY <1>10, CurrentIsALine, BoundsAreNaturals DEF LineDone, Shape, TypeOK, Steps, Records,
      Modes, Hooks, Enter
<1>11. ASSUME TypeOK, Shape, FinishUpdate, Flags' PROVE TypeOK'
  <2>1. First(inbox) \in Updates
    BY <1>11, FirstOf DEF TypeOK, FinishUpdate
  <2>2. offset' \in {0} \cup Updates
    <3>1. offset' \in {offset, First(inbox)}
      BY <1>11 DEF FinishUpdate, Upto
    <3> QED
      BY <1>11, <2>1, <3>1 DEF TypeOK
  <2>3. handled' \subseteq Updates /\ replies' \subseteq Updates /\ inbox' \subseteq Updates
    BY <1>11, <2>1 DEF FinishUpdate, TypeOK
  <2>4. UNCHANGED <<control, mode, streak, commands, waiting, telegram, redis, ghost, bounds>>
        /\ pc' = "reply" /\ line' = 1
    BY <1>11 DEF FinishUpdate
  <2> QED
    BY <1>11, <2>2, <2>3, <2>4 DEF TypeOK, Steps
<1>12. ASSUME TypeOK, Shape, Send, Flags' PROVE TypeOK'
  BY SMTT(60), <1>12, UpdatesAreNumbered, BoundsAreNaturals DEF Send, TypeOK, Steps, Records, Modes,
      Hooks, Enter
<1>13. ASSUME TypeOK, Shape, SetupWebhook, Flags' PROVE TypeOK'
  BY <1>13, BoundsAreNaturals DEF SetupWebhook, TypeOK, Steps, Records, Modes, Hooks, Enter
<1>14. ASSUME TypeOK, Shape, Age, Flags' PROVE TypeOK'
  BY <1>14, BoundsAreNaturals DEF Age, TypeOK, Steps, Records, Modes, Hooks, Enter
<1>15. ASSUME TypeOK, Shape, LoseState, Flags' PROVE TypeOK'
  BY <1>15, BoundsAreNaturals DEF LoseState, TypeOK, Steps, Records, Modes, Hooks, Enter
<1>16. ASSUME TypeOK, NEW u \in Updates, Deliver(u), Flags' PROVE TypeOK'
  BY <1>16, BoundsAreNaturals DEF Deliver, TypeOK, Records
<1>17. ASSUME TypeOK, NEW u \in Updates, Complete(u), Flags' PROVE TypeOK'
  BY <1>17, BoundsAreNaturals DEF Complete, TypeOK, Records
<1>18. ASSUME TypeOK, NEW u \in Updates, KeyExpires(u), Flags' PROVE TypeOK'
  BY <1>18, BoundsAreNaturals DEF KeyExpires, TypeOK, Records
<1>19. ASSUME TypeOK, NEW u \in Updates, HandlerFails(u), Flags' PROVE TypeOK'
  BY <1>19, BoundsAreNaturals DEF HandlerFails, TypeOK, Records
<1>20. ASSUME TypeOK, UNCHANGED vars PROVE TypeOK'
  BY <1>20 DEF vars, TypeOK
<1> QED
  BY RemoteSteps, <1>1, <1>2, <1>3, <1>4, <1>5, <1>6, <1>7, <1>8, <1>9, <1>10, <1>11,
      <1>12, <1>13, <1>14, <1>15, <1>16, <1>17, <1>18, <1>19, <1>20 DEF Next, Controller,
      Cloud

\* What the proofs below take from the types.
Typed ==
    /\ lost \in Nat /\ offset \in Nat /\ sent \in Nat /\ line \in Nat \ {0}
    /\ commands \in [Lines -> Records] /\ runs \in [Lines -> Nat]
    /\ key \in [Updates -> Records] /\ cloud \in [Updates -> {"idle", "running"}]
    /\ inbox \subseteq Updates /\ queue \subseteq Updates /\ handled \subseteq Updates
    /\ 1..sent \subseteq Updates /\ 1..offset \subseteq Updates
    /\ \A u \in Updates : u \in Nat /\ u >= 1 /\ LinesOf[u] \in Nat
    /\ \A u \in Updates : \A k \in 1..LinesOf[u] : <<u, k>> \in Lines
    /\ pc \in {"line", "run", "ran"} => First(inbox) \in inbox
    /\ pc \in {"line", "run", "ran"} => \A v \in inbox : First(inbox) <= v
    /\ pc \in {"line", "run", "ran"} /\ More => Current \in Lines

\* They follow from the type invariant.
LEMMA Facts == TypeOK => Typed
<1> SUFFICES ASSUME TypeOK PROVE Typed
  OBVIOUS
<1>1. /\ lost \in Nat /\ offset \in Nat /\ sent \in Nat /\ line \in Nat \ {0}
      /\ 1..sent \subseteq Updates /\ 1..offset \subseteq Updates
  BY BoundsAreNaturals, UpdatesAreNumbered DEF TypeOK
<1>2. pc \in {"line", "run", "ran"} => First(inbox) \in inbox /\ \A v \in inbox : First(inbox) <= v
  BY FirstOf DEF TypeOK
<1>3. pc \in {"line", "run", "ran"} /\ More => Current \in Lines
  BY CurrentIsALine DEF TypeOK
<1>4. /\ commands \in [Lines -> Records] /\ runs \in [Lines -> Nat]
      /\ key \in [Updates -> Records] /\ cloud \in [Updates -> {"idle", "running"}]
      /\ inbox \subseteq Updates /\ queue \subseteq Updates /\ handled \subseteq Updates
  BY DEF TypeOK
<1> QED
  BY <1>1, <1>2, <1>3, <1>4, UpdatesAreNumbered, LineOf DEF Typed

-----------------------------------------------------------------------------
(* What is in memory is behind what was sent *)

\* Memory stays behind what was sent.
LEMMA ShapeStep == TypeOK /\ Shape /\ [Next]_vars => Shape'
<1> USE DEF file, process, telegram, redis, ghost, bounds, Elsewhere, Quiet, At, GoTo, Answers,
            Fails
<1>1. ASSUME Typed, Shape, Remote PROVE Shape'
  BY <1>1 DEF Remote, Shape, Typed, More, Current, Working
<1>2. ASSUME Typed, Shape, FlushBeforePoll PROVE Shape'
  BY <1>2 DEF FlushBeforePoll, FlushPendingReplies, Shape, Typed, More, Current, Working
<1>3. ASSUME Typed, Shape, FlushAfterUpdate PROVE Shape'
  BY <1>3 DEF FlushAfterUpdate, FlushPendingReplies, Shape, Typed, More, Current, Working
<1>4. ASSUME Typed, Shape, Poll PROVE Shape'
  BY <1>4 DEF Poll, Shape, Typed, More, Current, Working
<1>5. ASSUME Typed, Shape, MarkLine PROVE Shape'
  BY <1>5 DEF MarkLine, Shape, Typed, More, Current, Working
<1>6. ASSUME Typed, Shape, InterruptedLine PROVE Shape'
  BY <1>6 DEF InterruptedLine, Shape, Typed, More, Current, Working
<1>7. ASSUME Typed, Shape, SkipDoneLine PROVE Shape'
  BY <1>7 DEF SkipDoneLine, Shape, Typed, More, Current, Working
<1>8. ASSUME Typed, Shape, RunLine PROVE Shape'
  BY <1>8 DEF RunLine, Shape, Typed, More, Current, Working
<1>9. ASSUME Typed, Shape, LineDone PROVE Shape'
  BY <1>9 DEF LineDone, Shape, Typed, More, Current, Working
<1>10. ASSUME Typed, Shape, FinishUpdate PROVE Shape'
  <2>1. PICK u \in inbox : u = First(inbox)
    BY <1>10 DEF FinishUpdate, Typed
  <2>2. offset' = Upto(offset, u) /\ pc' = "reply" /\ UNCHANGED <<sent, queue>>
        /\ handled' = handled \cup {u} /\ inbox' \subseteq inbox
    BY <1>10, <2>1 DEF FinishUpdate
  <2>3. u \in Nat /\ u <= sent /\ u >= 1
    BY <1>10 DEF Shape, Typed
  <2>4. offset' \in Nat /\ u <= offset' /\ offset <= offset' /\ offset' <= sent
    BY <1>10, <2>2, <2>3 DEF Upto, Shape, Typed
  <2> QED
    BY <1>10, <2>2, <2>3, <2>4 DEF Shape, Typed
<1>11. ASSUME Typed, Shape, Send PROVE Shape'
  BY <1>11 DEF Send, Shape, Typed, More, Current, Working
<1>12. ASSUME Typed, Shape, SetupWebhook PROVE Shape'
  BY <1>12 DEF SetupWebhook, Shape, Typed, More, Current, Working
<1>13. ASSUME Typed, Shape, Age PROVE Shape'
  BY <1>13 DEF Age, Shape, Typed, More, Current, Working
<1>14. ASSUME Typed, Shape, LoseState PROVE Shape'
  BY <1>14 DEF LoseState, Enter, Shape, Typed, More, Current, Working
<1>15. ASSUME Typed, Shape, NEW u \in Updates, Deliver(u) PROVE Shape'
  BY <1>15 DEF Deliver, Shape, Typed, More, Current, Working
<1>16. ASSUME Typed, Shape, NEW u \in Updates, Complete(u) PROVE Shape'
  BY <1>16 DEF Complete, Shape, Typed, More, Current, Working
<1>17. ASSUME Typed, Shape, NEW u \in Updates, KeyExpires(u) PROVE Shape'
  BY <1>17 DEF KeyExpires, Shape, Typed, More, Current, Working
<1>18. ASSUME Typed, Shape, NEW u \in Updates, HandlerFails(u) PROVE Shape'
  BY <1>18 DEF HandlerFails, Shape, Typed, More, Current, Working
<1>19. ASSUME Typed, Shape, UNCHANGED vars PROVE Shape'
  BY <1>19 DEF vars, Shape, Typed, More, Current, Working
<1> QED
  BY RemoteSteps, Facts, <1>1, <1>2, <1>3, <1>4, <1>5, <1>6, <1>7, <1>8, <1>9, <1>10,
      <1>11, <1>12, <1>13, <1>14, <1>15, <1>16, <1>17, <1>18, <1>19 DEF Next, Controller,
      Cloud

-----------------------------------------------------------------------------
(* A line is handled once *)

\* No step handles a line a second time.
LEMMA OnceStep == TypeOK /\ Shape /\ Once /\ [Next]_vars => Once'
<1> USE DEF file, process, telegram, redis, ghost, bounds, Elsewhere, Quiet, At, GoTo, Answers,
            Fails
<1>1. ASSUME Typed, Shape, Once, Remote PROVE Once'
  BY <1>1 DEF Remote, Once, Typed, Shape, Halted, More, Current, Working, LocalPrimary
<1>2. ASSUME Typed, Shape, Once, FlushBeforePoll PROVE Once'
  BY <1>2 DEF FlushBeforePoll, FlushPendingReplies, Once, Typed, Shape, Halted, More,
      Current, Working, LocalPrimary
<1>3. ASSUME Typed, Shape, Once, FlushAfterUpdate PROVE Once'
  BY <1>3 DEF FlushAfterUpdate, FlushPendingReplies, Once, Typed, Shape, Halted, More,
      Current, Working, LocalPrimary
<1>4. ASSUME Typed, Shape, Once, Poll PROVE Once'
  BY <1>4 DEF Poll, Once, Typed, Shape, Halted, More, Current, Working, LocalPrimary
<1>5. ASSUME Typed, Shape, Once, MarkLine PROVE Once'
  BY <1>5 DEF MarkLine, Once, Typed, Shape, Halted, More, Current, Working, LocalPrimary
<1>6. ASSUME Typed, Shape, Once, InterruptedLine PROVE Once'
  BY <1>6 DEF InterruptedLine, Once, Typed, Shape, Halted, More, Current, Working, LocalPrimary
<1>7. ASSUME Typed, Shape, Once, SkipDoneLine PROVE Once'
  BY <1>7 DEF SkipDoneLine, Once, Typed, Shape, Halted, More, Current, Working, LocalPrimary
<1>8. ASSUME Typed, Shape, Once, RunLine PROVE Once'
  BY <1>8 DEF RunLine, Once, Typed, Shape, Halted, More, Current, Working, LocalPrimary
<1>9. ASSUME Typed, Shape, Once, LineDone PROVE Once'
  BY <1>9 DEF LineDone, Once, Typed, Shape, Halted, More, Current, Working, LocalPrimary
<1>10. ASSUME Typed, Shape, Once, FinishUpdate PROVE Once'
  BY <1>10 DEF FinishUpdate, Once, Typed, Shape, Halted, More, Current, Working, LocalPrimary
<1>11. ASSUME Typed, Shape, Once, Send PROVE Once'
  BY <1>11 DEF Send, Once, Typed, Shape, Halted, More, Current, Working, LocalPrimary
<1>12. ASSUME Typed, Shape, Once, SetupWebhook PROVE Once'
  BY <1>12 DEF SetupWebhook, Once, Typed, Shape, Halted, More, Current, Working, LocalPrimary
<1>13. ASSUME Typed, Shape, Once, Age PROVE Once'
  BY <1>13 DEF Age, Once, Typed, Shape, Halted, More, Current, Working, LocalPrimary
<1>14. ASSUME Typed, Shape, Once, LoseState PROVE Once'
  BY <1>14 DEF LoseState, Enter, Once, Typed, Shape, Halted, More, Current, Working,
      LocalPrimary
<1>15. ASSUME Typed, Shape, Once, NEW u \in Updates, Deliver(u) PROVE Once'
  BY <1>15 DEF Deliver, Once, Typed, Shape, Halted, More, Current, Working, LocalPrimary
<1>16. ASSUME Typed, Shape, Once, NEW u \in Updates, Complete(u) PROVE Once'
  BY <1>16 DEF Complete, Once, Typed, Shape, Halted, More, Current, Working, LocalPrimary
<1>17. ASSUME Typed, Shape, Once, NEW u \in Updates, KeyExpires(u) PROVE Once'
  BY <1>17 DEF KeyExpires, Once, Typed, Shape, Halted, More, Current, Working, LocalPrimary
<1>18. ASSUME Typed, Shape, Once, NEW u \in Updates, HandlerFails(u) PROVE Once'
  BY <1>18 DEF HandlerFails, Once, Typed, Shape, Halted, More, Current, Working, LocalPrimary
<1>19. ASSUME Typed, Shape, Once, UNCHANGED vars PROVE Once'
  BY <1>19 DEF vars, Once, Typed, Shape, Halted, More, Current, Working, LocalPrimary
<1> QED
  BY RemoteSteps, Facts, <1>1, <1>2, <1>3, <1>4, <1>5, <1>6, <1>7, <1>8, <1>9, <1>10,
      <1>11, <1>12, <1>13, <1>14, <1>15, <1>16, <1>17, <1>18, <1>19 DEF Next, Controller,
      Cloud

-----------------------------------------------------------------------------
(* What Telegram has forgotten has an outcome *)

\* The line in hand only moves past lines that are done.
LEMMA BehindStep == TypeOK /\ Shape /\ Behind /\ [Next]_vars => Behind'
<1> USE DEF file, process, telegram, redis, ghost, bounds, Elsewhere, Quiet, At, GoTo, Answers,
            Fails
<1>1. ASSUME Typed, Shape, Behind, Remote PROVE Behind'
  BY <1>1 DEF Remote, Behind, Typed, Shape, More, Current, Working
<1>2. ASSUME Typed, Shape, Behind, FlushBeforePoll PROVE Behind'
  BY <1>2 DEF FlushBeforePoll, FlushPendingReplies, Behind, Typed, Shape, More, Current, Working
<1>3. ASSUME Typed, Shape, Behind, FlushAfterUpdate PROVE Behind'
  BY <1>3 DEF FlushAfterUpdate, FlushPendingReplies, Behind, Typed, Shape, More, Current,
      Working
<1>4. ASSUME Typed, Shape, Behind, Poll PROVE Behind'
  BY <1>4 DEF Poll, Behind, Typed, Shape, More, Current, Working
<1>5. ASSUME Typed, Shape, Behind, MarkLine PROVE Behind'
  BY <1>5 DEF MarkLine, Behind, Typed, Shape, More, Current, Working
<1>6. ASSUME Typed, Shape, Behind, InterruptedLine PROVE Behind'
  BY <1>6 DEF InterruptedLine, Behind, Typed, Shape, More, Current, Working
<1>7. ASSUME Typed, Shape, Behind, SkipDoneLine PROVE Behind'
  BY <1>7 DEF SkipDoneLine, Behind, Typed, Shape, More, Current, Working
<1>8. ASSUME Typed, Shape, Behind, RunLine PROVE Behind'
  BY <1>8 DEF RunLine, Behind, Typed, Shape, More, Current, Working
<1>9. ASSUME Typed, Shape, Behind, LineDone PROVE Behind'
  BY <1>9 DEF LineDone, Behind, Typed, Shape, More, Current, Working
<1>10. ASSUME Typed, Shape, Behind, FinishUpdate PROVE Behind'
  BY <1>10 DEF FinishUpdate, Behind, Typed, Shape, More, Current, Working
<1>11. ASSUME Typed, Shape, Behind, Send PROVE Behind'
  BY <1>11 DEF Send, Behind, Typed, Shape, More, Current, Working
<1>12. ASSUME Typed, Shape, Behind, SetupWebhook PROVE Behind'
  BY <1>12 DEF SetupWebhook, Behind, Typed, Shape, More, Current, Working
<1>13. ASSUME Typed, Shape, Behind, Age PROVE Behind'
  BY <1>13 DEF Age, Behind, Typed, Shape, More, Current, Working
<1>14. ASSUME Typed, Shape, Behind, LoseState PROVE Behind'
  BY <1>14 DEF LoseState, Enter, Behind, Typed, Shape, More, Current, Working
<1>15. ASSUME Typed, Shape, Behind, NEW u \in Updates, Deliver(u) PROVE Behind'
  BY <1>15 DEF Deliver, Behind, Typed, Shape, More, Current, Working
<1>16. ASSUME Typed, Shape, Behind, NEW u \in Updates, Complete(u) PROVE Behind'
  BY <1>16 DEF Complete, Behind, Typed, Shape, More, Current, Working
<1>17. ASSUME Typed, Shape, Behind, NEW u \in Updates, KeyExpires(u) PROVE Behind'
  BY <1>17 DEF KeyExpires, Behind, Typed, Shape, More, Current, Working
<1>18. ASSUME Typed, Shape, Behind, NEW u \in Updates, HandlerFails(u) PROVE Behind'
  BY <1>18 DEF HandlerFails, Behind, Typed, Shape, More, Current, Working
<1>19. ASSUME Typed, Shape, Behind, UNCHANGED vars PROVE Behind'
  BY <1>19 DEF vars, Behind, Typed, Shape, More, Current, Working
<1> QED
  BY RemoteSteps, Facts, <1>1, <1>2, <1>3, <1>4, <1>5, <1>6, <1>7, <1>8, <1>9, <1>10,
      <1>11, <1>12, <1>13, <1>14, <1>15, <1>16, <1>17, <1>18, <1>19 DEF Next, Controller,
      Cloud

\* What has an outcome keeps it.
LEMMA ServedStays ==
    TypeOK /\ Shape /\ [Next]_vars => Served \subseteq Served'
<1> USE DEF file, process, telegram, redis, ghost, bounds, Elsewhere, Quiet, At, GoTo, Answers,
            Fails
<1> DEFINE Steady == /\ lost' \in Nat /\ lost <= lost' /\ offset' \in Nat
                     /\ offset <= offset' \/ lost' > 0
                     /\ \A l \in Lines : commands[l] = "done" => commands'[l] = "done" \/ lost' > 0
<1>1. ASSUME Typed, Shape, Remote PROVE Steady
  BY <1>1 DEF Remote, Typed, Shape, Working
<1>2. ASSUME Typed, Shape, FlushBeforePoll PROVE Steady
  BY <1>2 DEF FlushBeforePoll, FlushPendingReplies, Typed, Shape, Working
<1>3. ASSUME Typed, Shape, FlushAfterUpdate PROVE Steady
  BY <1>3 DEF FlushAfterUpdate, FlushPendingReplies, Typed, Shape, Working
<1>4. ASSUME Typed, Shape, Poll PROVE Steady
  BY <1>4 DEF Poll, Typed, Shape, Working
<1>5. ASSUME Typed, Shape, MarkLine PROVE Steady
  BY <1>5 DEF MarkLine, Typed, Shape, Working
<1>6. ASSUME Typed, Shape, InterruptedLine PROVE Steady
  BY <1>6 DEF InterruptedLine, Typed, Shape, Working
<1>7. ASSUME Typed, Shape, SkipDoneLine PROVE Steady
  BY <1>7 DEF SkipDoneLine, Typed, Shape, Working
<1>8. ASSUME Typed, Shape, RunLine PROVE Steady
  BY <1>8 DEF RunLine, Typed, Shape, Working
<1>9. ASSUME Typed, Shape, LineDone PROVE Steady
  BY <1>9 DEF LineDone, Typed, Shape, Working
<1>10. ASSUME Typed, Shape, FinishUpdate PROVE Steady
  <2>1. PICK u \in inbox : u = First(inbox)
    BY <1>10 DEF FinishUpdate, Typed
  <2>2. offset' = Upto(offset, u) /\ UNCHANGED <<lost, commands>>
    BY <1>10, <2>1 DEF FinishUpdate
  <2> QED
    BY <1>10, <2>2 DEF Upto, Typed
<1>11. ASSUME Typed, Shape, Send PROVE Steady
  BY <1>11 DEF Send, Typed, Shape, Working
<1>12. ASSUME Typed, Shape, SetupWebhook PROVE Steady
  BY <1>12 DEF SetupWebhook, Typed, Shape, Working
<1>13. ASSUME Typed, Shape, Age PROVE Steady
  BY <1>13 DEF Age, Typed, Shape, Working
<1>14. ASSUME Typed, Shape, LoseState PROVE Steady
  BY <1>14 DEF LoseState, Enter, Typed, Shape, Working
<1>15. ASSUME Typed, Shape, NEW u \in Updates, Deliver(u) PROVE Steady
  BY <1>15 DEF Deliver, Typed, Shape, Working
<1>16. ASSUME Typed, Shape, NEW u \in Updates, Complete(u) PROVE Steady
  BY <1>16 DEF Complete, Typed, Shape, Working
<1>17. ASSUME Typed, Shape, NEW u \in Updates, KeyExpires(u) PROVE Steady
  BY <1>17 DEF KeyExpires, Typed, Shape, Working
<1>18. ASSUME Typed, Shape, NEW u \in Updates, HandlerFails(u) PROVE Steady
  BY <1>18 DEF HandlerFails, Typed, Shape, Working
<1>19. ASSUME Typed, Shape, UNCHANGED vars PROVE Steady
  BY <1>19 DEF vars, Typed, Shape, Working
<1>20. ASSUME Typed, Steady PROVE Served \subseteq Served'
  BY <1>20 DEF Served, Typed
<1> QED
  BY RemoteSteps, <1>20, Facts, <1>1, <1>2, <1>3, <1>4, <1>5, <1>6, <1>7, <1>8, <1>9,
      <1>10, <1>11, <1>12, <1>13, <1>14, <1>15, <1>16, <1>17, <1>18, <1>19 DEF Next,
      Controller, Cloud

\* Nothing is forgotten before it has an outcome.
LEMMA KeptStep == TypeOK /\ Shape /\ Behind /\ Kept /\ [Next]_vars => Kept'
<1> USE DEF file, process, telegram, redis, ghost, bounds, Elsewhere, Quiet, At, GoTo, Answers,
            Fails
<1> DEFINE Before == Typed /\ Shape /\ Behind /\ Kept /\ Served \subseteq Served'
<1>1. ASSUME Before, Remote PROVE Kept'
  BY <1>1 DEF Remote, Marked, Kept, Accounted, Typed, Shape, Working
<1>2. ASSUME Before, FlushBeforePoll PROVE Kept'
  BY <1>2 DEF FlushBeforePoll, FlushPendingReplies, Kept, Accounted, Typed, Shape, Working
<1>3. ASSUME Before, FlushAfterUpdate PROVE Kept'
  BY <1>3 DEF FlushAfterUpdate, FlushPendingReplies, Kept, Accounted, Typed, Shape, Working
<1>4. ASSUME Before, Poll PROVE Kept'
  <2>1. CASE UNCHANGED <<queue, inbox, pc>> \/ UNCHANGED <<queue, inbox>>
    BY <1>4, <2>1 DEF Poll, Kept, Accounted, Typed
  <2>2. CASE hook = "none" /\ queue' = {u \in queue : u > offset} /\ inbox' = queue'
    <3>1. UNCHANGED <<offset, sent, key, cloud, handled, commands, lost>>
      BY <1>4 DEF Poll
    <3>2. Accounted' = Accounted /\ Served' = Served
      BY <3>1 DEF Accounted, Served
    <3>3. 1..sent \subseteq queue' \cup Accounted
      <4>1. \A u \in queue : u > offset \/ u \in 1..offset
        BY <1>4 DEF Typed
      <4> QED
        BY <1>4, <2>2, <4>1 DEF Kept
    <3>4. \A u \in queue' : 1..u \subseteq 1..sent
      BY <1>4, <2>2 DEF Shape, Typed
    <3> QED
      BY <1>4, <2>2, <3>1, <3>2, <3>3, <3>4 DEF Kept
  <2> QED
    BY <1>4, <2>1, <2>2 DEF Poll
<1>5. ASSUME Before, MarkLine PROVE Kept'
  BY <1>5 DEF MarkLine, Kept, Accounted, Typed, Shape, Working
<1>6. ASSUME Before, InterruptedLine PROVE Kept'
  BY <1>6 DEF InterruptedLine, Kept, Accounted, Typed, Shape, Working
<1>7. ASSUME Before, SkipDoneLine PROVE Kept'
  BY <1>7 DEF SkipDoneLine, Kept, Accounted, Typed, Shape, Working
<1>8. ASSUME Before, RunLine PROVE Kept'
  BY <1>8 DEF RunLine, Kept, Accounted, Typed, Shape, Working
<1>9. ASSUME Before, LineDone PROVE Kept'
  BY <1>9 DEF LineDone, Kept, Accounted, Typed, Shape, Working
<1>10. ASSUME Before, FinishUpdate PROVE Kept'
  <2>1. PICK u \in inbox : u = First(inbox)
    BY <1>10 DEF FinishUpdate, Typed
  <2>2. /\ offset' = Upto(offset, u) /\ UNCHANGED <<queue, sent, key, cloud, lost, commands>>
        /\ handled' = handled \cup {u} /\ inbox' = inbox \ {u}
        /\ pc = "line" /\ ~ More
    BY <1>10, <2>1 DEF FinishUpdate
  <2>3. u \in Updates /\ u \in Nat /\ \A v \in inbox : u <= v
    BY <1>10, <2>1, <2>2 DEF Typed
  <2>4. lost = 0 => \A k \in 1..LinesOf[u] : commands[<<u, k>>] = "done"
    BY <1>10, <2>1, <2>2 DEF Behind, More, Typed
  <2>5. u \in Served'
    <3>1. u <= offset'
      BY <1>10, <2>2, <2>3 DEF Upto, Typed
    <3>2. lost' > 0 \/ \A k \in 1..LinesOf[u] : commands'[<<u, k>>] = "done"
      BY <1>10, <2>2, <2>4 DEF Typed
    <3> QED
      BY <2>3, <3>1, <3>2 DEF Served
  <2>6. Accounted \subseteq Accounted' /\ u \in Accounted'
    BY <1>10, <2>2, <2>5 DEF Accounted
  <2>7. 1..u \subseteq Accounted'
    <3>1. 1..u \subseteq inbox \cup Accounted
      BY <1>10 DEF Kept
    <3>2. \A w \in 1..u : w \in inbox => w = u
      BY <2>3
    <3> QED
      BY <2>6, <3>1, <3>2
  <2>8. 1..offset' \subseteq Accounted'
    <3>1. offset' \in {offset, u}
      BY <2>2 DEF Upto
    <3>2. 1..offset \subseteq Accounted
      BY <1>10 DEF Kept
    <3> QED
      BY <2>6, <2>7, <3>1, <3>2
  <2>9. 1..sent' \subseteq queue' \cup Accounted'
    BY <1>10, <2>2, <2>6 DEF Kept
  <2>10. \A v \in inbox' : 1..v \subseteq inbox' \cup Accounted'
    BY <1>10, <2>2, <2>6 DEF Kept
  <2>11. handled' \subseteq Served'
    BY <1>10, <2>2, <2>5 DEF Kept
  <2>12. \A v \in Updates : cloud'[v] = "running" => key'[v] = "processing" \/ v \in Served'
    BY <1>10, <2>2 DEF Kept
  <2> QED
    BY <2>8, <2>9, <2>10, <2>11, <2>12 DEF Kept
<1>11. ASSUME Before, Send PROVE Kept'
  BY <1>11 DEF Send, Kept, Accounted, Typed, Shape, Working
<1>12. ASSUME Before, SetupWebhook PROVE Kept'
  BY <1>12 DEF SetupWebhook, Kept, Accounted, Typed, Shape, Working
<1>13. ASSUME Before, Age PROVE Kept'
  BY <1>13 DEF Age, Kept, Accounted, Typed, Shape, Working
<1>14. ASSUME Before, LoseState PROVE Kept'
  BY <1>14 DEF LoseState, Enter, Kept, Accounted, Typed, Shape, Working
<1>15. ASSUME Before, NEW u \in Updates, Deliver(u) PROVE Kept'
  BY <1>15 DEF Deliver, Kept, Accounted, Typed, Shape, Working
<1>16. ASSUME Before, NEW u \in Updates, Complete(u) PROVE Kept'
  BY <1>16 DEF Complete, Kept, Accounted, Typed, Shape, Working
<1>17. ASSUME Before, NEW u \in Updates, KeyExpires(u) PROVE Kept'
  BY <1>17 DEF KeyExpires, Kept, Accounted, Typed, Shape, Working
<1>18. ASSUME Before, NEW u \in Updates, HandlerFails(u) PROVE Kept'
  BY <1>18 DEF HandlerFails, Kept, Accounted, Typed, Shape, Working
<1>19. ASSUME Before, UNCHANGED vars PROVE Kept'
  BY <1>19 DEF vars, Kept, Accounted, Typed, Shape, Working
<1> QED
  BY RemoteSteps, Facts, ServedStays, <1>1, <1>2, <1>3, <1>4, <1>5, <1>6, <1>7, <1>8,
      <1>9, <1>10, <1>11, <1>12, <1>13, <1>14, <1>15, <1>16, <1>17, <1>18, <1>19 DEF Next,
      Controller, Cloud

-----------------------------------------------------------------------------
(* A takeover and a handback keep the two readers apart *)

\* Only somebody else's call counts as one, and the mode of control is fixed.
LEMMA CountsStay ==
    TypeOK /\ Shape /\ [Next]_vars => SetupWebhook \/ UNCHANGED <<control, setups>>
<1> USE DEF file, process, telegram, redis, ghost, bounds, Elsewhere, Quiet, At, GoTo, Answers,
            Fails
<1>1. ASSUME Typed, Shape, Remote
      PROVE SetupWebhook \/ UNCHANGED <<control, setups>>
  BY <1>1 DEF Remote, Typed, Shape
<1>2. ASSUME Typed, Shape, FlushBeforePoll
      PROVE SetupWebhook \/ UNCHANGED <<control, setups>>
  BY <1>2 DEF FlushBeforePoll, FlushPendingReplies, Typed, Shape
<1>3. ASSUME Typed, Shape, FlushAfterUpdate
      PROVE SetupWebhook \/ UNCHANGED <<control, setups>>
  BY <1>3 DEF FlushAfterUpdate, FlushPendingReplies, Typed, Shape
<1>4. ASSUME Typed, Shape, Poll
      PROVE SetupWebhook \/ UNCHANGED <<control, setups>>
  BY <1>4 DEF Poll, Typed, Shape
<1>5. ASSUME Typed, Shape, MarkLine
      PROVE SetupWebhook \/ UNCHANGED <<control, setups>>
  BY <1>5 DEF MarkLine, Typed, Shape
<1>6. ASSUME Typed, Shape, InterruptedLine
      PROVE SetupWebhook \/ UNCHANGED <<control, setups>>
  BY <1>6 DEF InterruptedLine, Typed, Shape
<1>7. ASSUME Typed, Shape, SkipDoneLine
      PROVE SetupWebhook \/ UNCHANGED <<control, setups>>
  BY <1>7 DEF SkipDoneLine, Typed, Shape
<1>8. ASSUME Typed, Shape, RunLine
      PROVE SetupWebhook \/ UNCHANGED <<control, setups>>
  BY <1>8 DEF RunLine, Typed, Shape
<1>9. ASSUME Typed, Shape, LineDone
      PROVE SetupWebhook \/ UNCHANGED <<control, setups>>
  BY <1>9 DEF LineDone, Typed, Shape
<1>10. ASSUME Typed, Shape, FinishUpdate
      PROVE SetupWebhook \/ UNCHANGED <<control, setups>>
  BY <1>10 DEF FinishUpdate, Typed, Shape
<1>11. ASSUME Typed, Shape, Send
      PROVE SetupWebhook \/ UNCHANGED <<control, setups>>
  BY <1>11 DEF Send, Typed, Shape
<1>12. ASSUME Typed, Shape, SetupWebhook
      PROVE SetupWebhook \/ UNCHANGED <<control, setups>>
  BY <1>12 DEF SetupWebhook, Typed, Shape
<1>13. ASSUME Typed, Shape, Age
      PROVE SetupWebhook \/ UNCHANGED <<control, setups>>
  BY <1>13 DEF Age, Typed, Shape
<1>14. ASSUME Typed, Shape, LoseState
      PROVE SetupWebhook \/ UNCHANGED <<control, setups>>
  BY <1>14 DEF LoseState, Enter, Typed, Shape
<1>15. ASSUME Typed, Shape, NEW u \in Updates, Deliver(u)
      PROVE SetupWebhook \/ UNCHANGED <<control, setups>>
  BY <1>15 DEF Deliver, Typed, Shape
<1>16. ASSUME Typed, Shape, NEW u \in Updates, Complete(u)
      PROVE SetupWebhook \/ UNCHANGED <<control, setups>>
  BY <1>16 DEF Complete, Typed, Shape
<1>17. ASSUME Typed, Shape, NEW u \in Updates, KeyExpires(u)
      PROVE SetupWebhook \/ UNCHANGED <<control, setups>>
  BY <1>17 DEF KeyExpires, Typed, Shape
<1>18. ASSUME Typed, Shape, NEW u \in Updates, HandlerFails(u)
      PROVE SetupWebhook \/ UNCHANGED <<control, setups>>
  BY <1>18 DEF HandlerFails, Typed, Shape
<1>19. ASSUME Typed, Shape, UNCHANGED vars
      PROVE SetupWebhook \/ UNCHANGED <<control, setups>>
  BY <1>19 DEF vars, Typed, Shape
<1> QED
  BY RemoteSteps, Facts, <1>1, <1>2, <1>3, <1>4, <1>5, <1>6, <1>7, <1>8, <1>9, <1>10,
      <1>11, <1>12, <1>13, <1>14, <1>15, <1>16, <1>17, <1>18, <1>19 DEF Next, Controller,
      Cloud

\* Every step of a takeover or handback leaves one reader.
LEMMA ApartStep ==
    TypeOK /\ Shape /\ (Takeover => Apart) /\ [Next]_vars => (Takeover' => Apart')
<1> USE DEF file, process, telegram, redis, ghost, bounds, Elsewhere, Quiet, At, GoTo, Abort,
            Answers, Fails, Enter, Remember, Own, Block
<1> DEFINE Before == Typed /\ Shape /\ Apart /\ ~ LocalPrimary
<1>1. ASSUME Before, Start PROVE Apart'
  BY <1>1 DEF Start, Apart, Fenced, Typed, Shape, LocalPrimary, Modes
<1>2. ASSUME Before, ReconcileStartup PROVE Apart'
  BY <1>2 DEF ReconcileStartup, StartupMode, Apart, Fenced, Typed, Shape, LocalPrimary, Modes
<1>3. ASSUME Before, StayInStandby PROVE Apart'
  BY <1>3 DEF StayInStandby, Apart, Fenced, Typed, Shape, LocalPrimary, Modes
<1>4. ASSUME Before, WriteProbeFails PROVE Apart'
  BY <1>4 DEF WriteProbeFails, Apart, Fenced, Typed, Shape, LocalPrimary, Modes
<1>5. ASSUME Before, CloudRecovered PROVE Apart'
  BY <1>5 DEF CloudRecovered, Apart, Fenced, Typed, Shape, LocalPrimary, Modes
<1>6. ASSUME Before, ContinueIteration PROVE Apart'
  BY <1>6 DEF ContinueIteration, Apart, Fenced, Typed, Shape, LocalPrimary, Modes
<1>7. ASSUME Before, ObserveForOwnership PROVE Apart'
  BY <1>7 DEF ObserveForOwnership, Apart, Fenced, Typed, Shape, LocalPrimary, Modes
<1>8. ASSUME Before, DeleteForOwnership PROVE Apart'
  BY <1>8 DEF DeleteForOwnership, DeleteWebhook, Apart, Fenced, Typed, Shape,
      LocalPrimary, Modes
<1>9. ASSUME Before, VerifyOwnershipTaken PROVE Apart'
  BY <1>9 DEF VerifyOwnershipTaken, Apart, Fenced, Typed, Shape, LocalPrimary, Modes
<1>10. ASSUME Before, CheckBeforeActivation PROVE Apart'
  <2>1. UNCHANGED <<control, hook, queue, sent, key, cloud, offset, handled, inbox>>
    BY <1>10 DEF CheckBeforeActivation
  <2>2. \/ mode' = "BLOCKED_UNCERTAIN" /\ pc' = "top"
        \/ mode' = mode /\ pc = "armCheck" /\ pc' \in {"armDelete", "top", "down"}
    BY <1>10 DEF CheckBeforeActivation
  <2> QED
    BY <1>10, <2>1, <2>2 DEF Apart, Fenced, LocalPrimary, Shape
<1>11. ASSUME Before, DeleteForActivation PROVE Apart'
  BY <1>11 DEF DeleteForActivation, DeleteWebhook, Apart, Fenced, Typed, Shape,
      LocalPrimary, Modes
<1>12. ASSUME Before, ActivateLocal PROVE Apart'
  <2>1. UNCHANGED <<control, hook, queue, sent, key, cloud, offset, handled, inbox>>
    BY <1>12 DEF ActivateLocal
  <2>2. \/ mode' = "BLOCKED_UNCERTAIN" /\ pc' = "top"
        \/ mode' = mode /\ pc' \in {"top", "down"}
        \/ mode' = "LOCAL_ACTIVE" /\ pc' = "verify" /\ hook = "none"
    BY <1>12 DEF ActivateLocal
  <2> QED
    BY <1>12, <2>1, <2>2 DEF Apart, Fenced, LocalPrimary, Shape
<1>13. ASSUME Before, VerifyBeforeRecovery PROVE Apart'
  <2>1. UNCHANGED <<control, hook, queue, sent, key, cloud, offset, handled, inbox>>
    BY <1>13 DEF VerifyBeforeRecovery
  <2>2. \/ mode' = "BLOCKED_UNCERTAIN" /\ pc' = "top"
        \/ mode' = mode /\ pc = "recVerify" /\ pc' = "verify"
        \/ mode' = "RECOVERING" /\ pc' = "fence" /\ pc = "recVerify" /\ hook = "none"
    BY <1>13 DEF VerifyBeforeRecovery
  <2> QED
    BY <1>13, <2>1, <2>2 DEF Apart, Fenced, LocalPrimary, Shape
<1>14. ASSUME Before, FenceHandledUpdates PROVE Apart'
  <2>1. UNCHANGED <<control, hook, queue, sent, cloud, offset, inbox, handled>> /\ pc = "fence"
    BY <1>14 DEF FenceHandledUpdates
  <2>2. \/ mode' = mode /\ pc' = "setHook" /\ key' = Marked
        \/ mode' = "LOCAL_ACTIVE" /\ pc' = "verify" /\ key' \in {key, Marked}
    BY <1>14 DEF FenceHandledUpdates, Marked
  <2>3. \A u \in Updates : key'[u] = IF key' = key \/ u \notin handled THEN key[u] ELSE "done"
    BY <1>14, <2>2 DEF Marked, Typed
  <2>4. \A u \in Updates : cloud[u] = "running" => u \notin handled
    BY <1>14, <2>1 DEF Apart, Shape, Typed
  <2>5. \A u \in Updates : key[u] = "done" => key'[u] = "done"
    BY <2>3
  <2>6. ASSUME key' = Marked, NEW u \in queue, u <= offset PROVE key'[u] = "done"
    BY <1>14, <2>5, <2>6 DEF Apart, Marked, Typed
  <2>7. /\ \A u \in Updates : cloud'[u] = "running" => key'[u] = "processing"
        /\ \A u \in queue' : u <= offset' => u \in handled' \/ key'[u] = "done"
        /\ hook' = "cloud" => Fenced'
    BY <1>14, <2>1, <2>3, <2>4, <2>5 DEF Apart, Fenced, Typed
  <2>8. pc' = "setHook" => Fenced'
    BY <2>1, <2>2, <2>6 DEF Fenced
  <2>9. hook' = "cloud" \/ mode' = "RECOVERING" \/ pc' = "recVerify" =>
             \A u \in Updates : cloud'[u] = "running" => u > offset'
    BY <1>14, <2>1, <2>2 DEF Apart
  <2> QED
    BY <1>14, <2>1, <2>2, <2>7, <2>8, <2>9 DEF Apart, Shape
<1>15. ASSUME Before, SetWebhook PROVE Apart'
  BY <1>15 DEF SetWebhook, Apart, Fenced, Typed, Shape, LocalPrimary, Modes
<1>16. ASSUME Before, FinishRecovery PROVE Apart'
  <2>1. UNCHANGED <<control, hook, queue, sent, key, cloud, offset, inbox>>
    BY <1>16 DEF FinishRecovery
  <2>2. CASE mode' = "BLOCKED_UNCERTAIN" /\ pc' = "top" /\ handled' = handled
    BY <1>16, <2>1, <2>2 DEF Apart, Fenced, LocalPrimary, Shape
  <2>3. CASE mode' = mode /\ pc' \in {"top", "down"} /\ handled' = handled
    BY <1>16, <2>1, <2>3 DEF Apart, Fenced, LocalPrimary, Shape
  <2>4. CASE mode' = "STANDBY" /\ pc' = "top" /\ hook = "cloud"
    BY <1>16, <2>1, <2>4 DEF Apart, Fenced, LocalPrimary, Shape
  <2> QED
    BY <1>16, <2>2, <2>3, <2>4 DEF FinishRecovery
<1>17. ASSUME Before, VerifyLocalOwnership PROVE Apart'
  <2>1. UNCHANGED <<control, hook, queue, sent, key, cloud, offset, handled, inbox>>
    BY <1>17 DEF VerifyLocalOwnership
  <2>2. \/ mode' = "BLOCKED_UNCERTAIN" /\ pc' = "top"
        \/ mode' = mode /\ pc = "verify" /\ pc' \in {"flush", "top"}
    BY <1>17 DEF VerifyLocalOwnership
  <2> QED
    BY <1>17, <2>1, <2>2 DEF Apart, Fenced, LocalPrimary, Shape
<1>18. ASSUME Before, Crash PROVE Apart'
  BY <1>18 DEF Crash, Apart, Fenced, Typed, Shape, LocalPrimary, Modes
<1>19. ASSUME Before, FlushBeforePoll PROVE Apart'
  BY <1>19 DEF FlushBeforePoll, FlushPendingReplies, Apart, Fenced, Typed, Shape,
      LocalPrimary, Modes
<1>20. ASSUME Before, FlushAfterUpdate PROVE Apart'
  BY <1>20 DEF FlushAfterUpdate, FlushPendingReplies, Apart, Fenced, Typed, Shape,
      LocalPrimary, Modes
<1>21. ASSUME Before, Poll PROVE Apart'
  BY <1>21 DEF Poll, Apart, Fenced, Typed, Shape, LocalPrimary, Modes
<1>22. ASSUME Before, MarkLine PROVE Apart'
  BY <1>22 DEF MarkLine, Apart, Fenced, Typed, Shape, LocalPrimary, Modes
<1>23. ASSUME Before, InterruptedLine PROVE Apart'
  BY <1>23 DEF InterruptedLine, Apart, Fenced, Typed, Shape, LocalPrimary, Modes
<1>24. ASSUME Before, SkipDoneLine PROVE Apart'
  BY <1>24 DEF SkipDoneLine, Apart, Fenced, Typed, Shape, LocalPrimary, Modes
<1>25. ASSUME Before, RunLine PROVE Apart'
  BY <1>25 DEF RunLine, Apart, Fenced, Typed, Shape, LocalPrimary, Modes
<1>26. ASSUME Before, LineDone PROVE Apart'
  BY <1>26 DEF LineDone, Apart, Fenced, Typed, Shape, LocalPrimary, Modes
<1>27. ASSUME Before, FinishUpdate PROVE Apart'
  <2>1. PICK u \in inbox : u = First(inbox)
    BY <1>27 DEF FinishUpdate, Typed
  <2>2. /\ offset' = Upto(offset, u) /\ UNCHANGED <<mode, hook, queue, sent, key, cloud>>
        /\ handled' = handled \cup {u} /\ inbox' = inbox \ {u}
        /\ pc = "line" /\ pc' = "reply"
    BY <1>27, <2>1 DEF FinishUpdate
  <2>3. u \in Updates /\ u \in Nat /\ \A v \in inbox : u <= v
    BY <1>27, <2>1, <2>2 DEF Typed
  <2>4. mode = "LOCAL_ACTIVE" /\ hook = "none"
    BY <1>27, <2>2 DEF Apart
  <2>5. \A v \in queue : v <= offset' => v \in handled' \/ key'[v] = "done"
    <3>1. ASSUME NEW v \in queue, v <= u PROVE v = u \/ v <= offset
      BY <1>27, <2>3, <3>1 DEF Apart, Typed
    <3>2. offset' = u \/ offset' = offset
      BY <2>2 DEF Upto
    <3> QED
      BY <1>27, <2>2, <3>1, <3>2 DEF Apart
  <2>6. \A w \in inbox' : \A v \in queue' : v < w => v \in inbox' \/ v <= offset'
    <3>1. u <= offset' /\ offset <= offset' /\ offset' \in Nat
      BY <1>27, <2>2, <2>3 DEF Upto, Typed
    <3>2. \A v \in queue : v <= offset => v <= offset'
      BY <1>27, <3>1 DEF Typed
    <3> QED
      BY <1>27, <2>2, <3>1, <3>2 DEF Apart
  <2> QED
    BY <1>27, <2>2, <2>4, <2>5, <2>6 DEF Apart
<1>28. ASSUME Before, Send PROVE Apart'
  BY <1>28 DEF Send, Apart, Fenced, Typed, Shape, LocalPrimary, Modes
<1>29. ASSUME Before, Age PROVE Apart'
  BY <1>29 DEF Age, Apart, Fenced, Typed, Shape, LocalPrimary, Modes
<1>30. ASSUME Before, LoseState PROVE Apart'
  BY <1>30 DEF LoseState, Enter, Apart, Fenced, Typed, Shape, LocalPrimary, Modes
<1>31. ASSUME Before, NEW u \in Updates, Deliver(u) PROVE Apart'
  <2>1. UNCHANGED <<control, mode, pc, hook, sent, offset, handled, inbox>>
        /\ hook = "cloud" /\ u \in queue
    BY <1>31 DEF Deliver
  <2>2. CASE key[u] = "none" /\ key' = [key EXCEPT ![u] = "processing"]
             /\ cloud' = [cloud EXCEPT ![u] = "running"] /\ queue' = queue
    <3>1. u > offset
      BY <1>31, <2>1, <2>2 DEF Apart, Fenced, Typed
    <3>2. /\ \A v \in Updates : cloud'[v] = "running" => v = u \/ cloud[v] = "running"
          /\ \A v \in Updates : v # u => key'[v] = key[v]
          /\ key'[u] = "processing"
      BY <1>31, <2>2 DEF Typed
    <3> QED
      BY <1>31, <2>1, <2>2, <3>1, <3>2 DEF Apart, Fenced, Typed
  <2>3. CASE UNCHANGED redis /\ queue' = queue \ {u}
    BY <1>31, <2>1, <2>3 DEF Apart, Fenced, Typed
  <2> QED
    BY <1>31, <2>2, <2>3 DEF Deliver
<1>32. ASSUME Before, NEW u \in Updates, Complete(u) PROVE Apart'
  BY <1>32 DEF Complete, Apart, Fenced, Typed, Shape, LocalPrimary, Modes
<1>33. ASSUME Before, NEW u \in Updates, KeyExpires(u) PROVE Apart'
  BY <1>33 DEF KeyExpires, Apart, Fenced, Typed, Shape, LocalPrimary, Modes
<1>34. ASSUME Before, NEW u \in Updates, HandlerFails(u) PROVE Apart'
  BY <1>34 DEF HandlerFails, Apart, Fenced, Typed, Shape, LocalPrimary, Modes
<1>35. ASSUME Before, UNCHANGED vars PROVE Apart'
  BY <1>35 DEF vars, Apart, Fenced
<1>36. ASSUME TypeOK, SetupWebhook PROVE ~ Takeover'
  BY <1>36, BoundsAreNaturals DEF SetupWebhook, TypeOK, Takeover
<1>37. ASSUME TypeOK, Shape, [Next]_vars, Takeover' PROVE Takeover \/ SetupWebhook
  BY <1>37, CountsStay DEF Takeover, LocalPrimary
<1> QED
  BY Facts, <1>1, <1>2, <1>3, <1>4, <1>5, <1>6, <1>7, <1>8, <1>9, <1>10, <1>11, <1>12,
      <1>13, <1>14, <1>15, <1>16, <1>17, <1>18, <1>19, <1>20, <1>21, <1>22, <1>23, <1>24,
      <1>25, <1>26, <1>27, <1>28, <1>29, <1>30, <1>31, <1>32, <1>33, <1>34, <1>35, <1>36,
      <1>37 DEF Next, Controller, Cloud, Takeover

\* Only the cloud's own steps start or end a handler.
LEMMA CloudMoves ==
    TypeOK /\ Shape /\ [Next]_vars =>
        \/ UNCHANGED cloud
        \/ \E u \in Updates : Deliver(u) \/ Complete(u) \/ HandlerFails(u)
<1> DEFINE Moved == \/ UNCHANGED cloud
                    \/ \E u \in Updates : Deliver(u) \/ Complete(u) \/ HandlerFails(u)
<1> USE DEF file, process, telegram, redis, ghost, bounds, Elsewhere, Quiet, At, GoTo, Answers,
            Fails
<1>1. ASSUME Typed, Shape, Remote PROVE Moved
  BY <1>1 DEF Remote
<1>2. ASSUME Typed, Shape, FlushBeforePoll PROVE Moved
  BY <1>2 DEF FlushBeforePoll, FlushPendingReplies
<1>3. ASSUME Typed, Shape, FlushAfterUpdate PROVE Moved
  BY <1>3 DEF FlushAfterUpdate, FlushPendingReplies
<1>4. ASSUME Typed, Shape, Poll PROVE Moved
  BY <1>4 DEF Poll
<1>5. ASSUME Typed, Shape, MarkLine PROVE Moved
  BY <1>5 DEF MarkLine
<1>6. ASSUME Typed, Shape, InterruptedLine PROVE Moved
  BY <1>6 DEF InterruptedLine
<1>7. ASSUME Typed, Shape, SkipDoneLine PROVE Moved
  BY <1>7 DEF SkipDoneLine
<1>8. ASSUME Typed, Shape, RunLine PROVE Moved
  BY <1>8 DEF RunLine
<1>9. ASSUME Typed, Shape, LineDone PROVE Moved
  BY <1>9 DEF LineDone
<1>10. ASSUME Typed, Shape, FinishUpdate PROVE Moved
  BY <1>10 DEF FinishUpdate
<1>11. ASSUME Typed, Shape, Send PROVE Moved
  BY <1>11 DEF Send
<1>12. ASSUME Typed, Shape, SetupWebhook PROVE Moved
  BY <1>12 DEF SetupWebhook
<1>13. ASSUME Typed, Shape, Age PROVE Moved
  BY <1>13 DEF Age
<1>14. ASSUME Typed, Shape, LoseState PROVE Moved
  BY <1>14 DEF LoseState, Enter
<1>15. ASSUME Typed, Shape, NEW u \in Updates, Deliver(u) PROVE Moved
  BY <1>15
<1>16. ASSUME Typed, Shape, NEW u \in Updates, Complete(u) PROVE Moved
  BY <1>16
<1>17. ASSUME Typed, Shape, NEW u \in Updates, KeyExpires(u) PROVE Moved
  BY <1>17 DEF KeyExpires
<1>18. ASSUME Typed, Shape, NEW u \in Updates, HandlerFails(u) PROVE Moved
  BY <1>18
<1>19. ASSUME Typed, Shape, UNCHANGED vars PROVE Moved
  BY <1>19 DEF vars
<1> QED
  BY RemoteSteps, Facts, <1>1, <1>2, <1>3, <1>4, <1>5, <1>6, <1>7, <1>8, <1>9, <1>10,
      <1>11, <1>12, <1>13, <1>14, <1>15, <1>16, <1>17, <1>18, <1>19 DEF Next, Controller,
      Cloud

-----------------------------------------------------------------------------
(* The invariant and what it gives *)

\* The invariant holds at first.
LEMMA InitialStates == Init => IInv
<1> SUFFICES ASSUME Init PROVE IInv
  OBVIOUS
<1>1. TypeOK
  <2>1. fresh \in BOOLEAN /\ booting \in BOOLEAN
    BY DEF Init
  <2>2. control \in ControlModes /\ lost = 0 /\ faults = 0 /\ crashes = 0 /\ setups = 0
    BY DEF Init
  <2>3. MaxLosses[control] \in Nat /\ MaxSetups[control] \in Nat
    BY <2>2, OwnershipAssumption
  <2>4. lost \in 0..MaxLosses[control] /\ faults \in 0..MaxFaults
        /\ crashes \in 0..MaxCrashes /\ setups \in 0..MaxSetups[control]
    BY <2>2, <2>3, BoundsAreNaturals
  <2>5. streak \in 0..Threshold
    BY BoundsAreNaturals DEF Init
  <2> QED
    BY <2>1, <2>2, <2>4, <2>5 DEF Init, TypeOK, Modes, Hooks, Steps, Records
<1>2. Shape
  BY UpdatesAreNumbered DEF Init, Shape
<1>3. Once /\ Behind /\ Kept
  BY DEF Init, Once, Behind, Kept, Halted, LocalPrimary
<1>4. Apart
  BY DEF Init, Apart, Fenced
<1> QED
  BY <1>1, <1>2, <1>3, <1>4 DEF IInv

\* Every step keeps all six parts.
LEMMA InvariantStep == IInv /\ [Next]_vars => IInv'
  BY TypeStep, ShapeStep, OnceStep, BehindStep, KeptStep, ApartStep DEF IInv

\* The invariant holds throughout.
THEOREM Invariance == Spec => []IInv
  BY InitialStates, InvariantStep, PTL DEF Spec

\* Every variable keeps its type, whatever fails, stops or is lost.
THEOREM TypeCorrect == Spec => []TypeOK
<1>1. IInv => TypeOK
  BY DEF IInv
<1> QED
  BY <1>1, Invariance, PTL

\* The controller handles a line at most once, through every crash, repeated
\* poll and handback, until it loses its state file in local-primary mode.
THEOREM LineRunsOnceLocallyHolds == Spec => []LineRunsOnceLocally
<1>1. IInv => LineRunsOnceLocally
  BY BoundsAreNaturals DEF IInv, TypeOK, Once, LineRunsOnceLocally
<1> QED
  BY <1>1, Invariance, PTL

\* An update Telegram has forgotten has an outcome for every line, or was
\* completed by the cloud, or the state file was lost.
THEOREM ConfirmedIsHandledHolds == Spec => []ConfirmedIsHandled
<1>1. IInv => ConfirmedIsHandled
  <2> SUFFICES ASSUME IInv, NEW u \in Updates, u <= sent, u \notin queue
               PROVE  u \in Accounted
    BY DEF ConfirmedIsHandled, Accounted, Served
  <2>1. u \in 1..sent
    BY Facts DEF IInv, Typed
  <2> QED
    BY <2>1 DEF IInv, Kept
<1> QED
  BY <1>1, Invariance, PTL

\* A controller in STANDBY, in failover mode, has not left Telegram without a
\* reader.
THEOREM StandbyMeansCloudHolds == Spec => []StandbyMeansCloud
<1>1. IInv => StandbyMeansCloud
  BY BoundsAreNaturals DEF IInv, TypeOK, Takeover, Apart, StandbyMeansCloud
<1> QED
  BY <1>1, Invariance, PTL

\* The cloud starts no update the controller has finished, in failover mode.
THEOREM HandledIsNotRunByCloudHolds == Spec => HandledIsNotRunByCloud
<1> USE DEF file, process, telegram, redis, ghost, bounds
<1> DEFINE NoneStarts == \A u \in Updates : cloud[u] = "idle" /\ cloud'[u] = "running"
                           => u > offset \/ LocalPrimary \/ setups > 0
           Starts(u)  == cloud[u] = "idle" /\ cloud'[u] = "running"
<1>1. ASSUME IInv, NEW u \in Updates, Deliver(u) PROVE NoneStarts
  <2>1. \A v \in Updates : Starts(v) => v = u /\ key[u] = "none"
    BY <1>1, Facts DEF IInv, Typed, Deliver
  <2>2. hook = "cloud" /\ u \in queue
    BY <1>1 DEF Deliver
  <2>3. setups = 0 \/ setups > 0
    BY <1>1, BoundsAreNaturals DEF IInv, TypeOK
  <2>4. Takeover /\ key[u] = "none" => u > offset
    BY <1>1, <2>2, Facts DEF IInv, Typed, Apart, Fenced
  <2> QED
    BY <2>1, <2>3, <2>4 DEF Takeover
<1>2. ASSUME IInv, NEW u \in Updates, Complete(u) \/ HandlerFails(u)
      PROVE \A v \in Updates : ~ Starts(v)
  BY <1>2, Facts DEF IInv, Typed, Complete, HandlerFails
<1>3. IInv /\ [Next]_vars /\ cloud' # cloud
        => \E u \in Updates : Deliver(u) \/ Complete(u) \/ HandlerFails(u)
  BY CloudMoves DEF IInv
<1>4. cloud' = cloud => NoneStarts
  OBVIOUS
<1>5. IInv /\ [Next]_vars => [NoneStarts]_vars
  BY <1>1, <1>2, <1>3, <1>4
<1> QED
  BY <1>5, Invariance, PTL DEF Spec, HandledIsNotRunByCloud

=============================================================================

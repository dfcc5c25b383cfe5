-------------------------- MODULE EaManagerProofs --------------------------
(***************************************************************************)
(* Proofs about EaManager, for every setting of the EA, every volume and   *)
(* price range and any number of faults.                                   *)
(***************************************************************************)
EXTENDS EaManager, SequenceTheorems, TLAPS

\* What the settings are made of.
LEMMA InputTypes ==
    ASSUME TypeOK
    PROVE  /\ inp.closeAt \in Nat /\ inp.beAt \in Nat /\ inp.beOff \in Int
           /\ inp.defSL \in Nat /\ inp.defTP \in Nat
           /\ inp.levels \in Seq(Nat) /\ inp.pcts \in Seq(Nat)
  BY InputsAssumption DEF TypeOK

\* What the broker, the price and the operator are made of.
LEMMA Numbers ==
    /\ MinVol \in Nat \ {0} /\ Dist \in Nat /\ RollStep \in Nat /\ Far \in Nat
    /\ Lowest \in Int /\ Highest \in Int /\ Stops \subseteq Int /\ MaxFaults \in Nat
    /\ Volumes \subseteq Nat
    /\ \A rule \in Rules : rule.vol \in Int
  BY InputsAssumption

\* Levels are positive, their thresholds and percentages are numbers.
LEMMA LevelTypes ==
    ASSUME TypeOK
    PROVE  /\ Levels \subseteq Nat \ {0} /\ FirstCuts \subseteq DueCuts
           /\ DueLevels \subseteq Levels /\ DueCuts \subseteq DueLevels
           /\ \A l \in DueCuts : PercentOf(l) \in Nat
<1>1. Levels \subseteq Nat \ {0}
  BY DEF Levels
<1>2. FirstCuts \subseteq DueCuts /\ DueLevels \subseteq Levels /\ DueCuts \subseteq DueLevels
  BY DEF DueLevels, DueCuts, FirstCuts
<1>3. ASSUME NEW l \in DueCuts PROVE PercentOf(l) \in Nat
  <2>1. inp.pcts \in Seq(Nat) /\ inp.pcts # <<>>
    BY <1>3, InputTypes DEF DueCuts, DueLevels
  <2>2. Len(inp.pcts) \in Nat /\ Len(inp.pcts) # 0
    BY <2>1, EmptySeq, LenProperties
  <2>3. Least(l, Len(inp.pcts)) \in 1..Len(inp.pcts)
    BY <1>1, <1>2, <2>2 DEF Least
  <2> QED
    BY <2>1, <2>3, ElementOfSeq DEF PercentOf
<1> QED
  BY <1>1, <1>2, <1>3

\* A partial that is sent asks for a volume above nothing and below what is open.
LEMMA PartialVolumeType ==
    ASSUME NEW wanted \in Int, vol \in Nat
    PROVE  PartialVolume(wanted) \in Nat
  BY Numbers DEF PartialVolume, Least

\* The volume asked for a level is a number.
LEMMA LevelVolumeType ==
    ASSUME TypeOK, NEW l \in DueCuts
    PROVE  LevelVolume(l) \in Int
<1> DEFINE base == IF Len(inp.pcts) > 1 THEN gv.orig ELSE seen.vol
<1>1. base \in Int
  BY DEF TypeOK, Memories, Readings
<1>2. base * PercentOf(l) \in Int
  BY <1>1, LevelTypes
<1> QED
  BY <1>2 DEF LevelVolume

\* What the Global Variables hold.
LEMMA MemoryTypes ==
    ASSUME TypeOK
    PROVE  /\ gv.risk \in Nat /\ gv.orig \in Nat /\ gv.mask \in SUBSET Levels
           /\ gv.tried \in SUBSET Throttles /\ gv.rule \in Rules \cup {NoRule}
           /\ \A k \in Throttles : Tried(k) \in SUBSET Throttles
  BY DEF TypeOK, Memories, Tried

\* Every way the manager updates what it remembers leaves it well typed.
LEMMA MemoryUpdates ==
    ASSUME gv \in Memories, NEW T \in SUBSET Throttles, NEW M \in SUBSET Levels,
           NEW r \in Rules \cup {NoRule}, NEW n \in Nat, NEW v \in Nat
    PROVE  /\ [gv EXCEPT !.tried = T] \in Memories
           /\ [gv EXCEPT !.tried = T, !.rrDone = TRUE] \in Memories
           /\ [gv EXCEPT !.tried = T, !.be = TRUE] \in Memories
           /\ [gv EXCEPT !.mask = M] \in Memories
           /\ [gv EXCEPT !.mask = M, !.tried = T] \in Memories
           /\ [gv EXCEPT !.risk = n, !.orig = v] \in Memories
           /\ [gv EXCEPT !.rrDone = TRUE] \in Memories
           /\ [gv EXCEPT !.be = TRUE] \in Memories
           /\ [gv EXCEPT !.rule = r] \in Memories
<1>1. [gv EXCEPT !.tried = T] \in Memories
  BY DEF Memories
<1>2. [gv EXCEPT !.tried = T, !.rrDone = TRUE] \in Memories
  BY DEF Memories
<1>3. [gv EXCEPT !.tried = T, !.be = TRUE] \in Memories
  BY DEF Memories
<1>4. [gv EXCEPT !.mask = M] \in Memories
  BY DEF Memories
<1>5. [gv EXCEPT !.mask = M, !.tried = T] \in Memories
  BY DEF Memories
<1>6. [gv EXCEPT !.risk = n, !.orig = v] \in Memories
  BY DEF Memories
<1>7. [gv EXCEPT !.rrDone = TRUE] \in Memories
  BY DEF Memories
<1>8. [gv EXCEPT !.be = TRUE] \in Memories
  BY DEF Memories
<1>9. [gv EXCEPT !.rule = r] \in Memories
  BY DEF Memories
<1> QED
  BY <1>1, <1>2, <1>3, <1>4, <1>5, <1>6, <1>7, <1>8, <1>9

\* A request is well typed, and there is one.
LEMMA RequestType ==
    ASSUME NEW kind \in Kinds, NEW v \in Nat, NEW s \in Int, NEW t \in Int,
           NEW l \in Levels \cup {0}
    PROVE  LET r == Request(kind, v, s, t, l)
           IN  r \in Requests /\ r.kind = kind /\ r.level = l /\ kind # "none"
  BY DEF Request, Requests, Kinds, Throttles

\* Nothing in hand.
LEMMA Nothing ==
    /\ NoReq \in Requests /\ NoReq.kind = "none" /\ Unseen \in Readings /\ Fresh \in Memories
    /\ NoRule \in Rules \cup {NoRule}
  BY DEF NoReq, Requests, Unseen, Readings, Fresh, Memories

\* A stage that leaves memory, reading and request well typed is a well typed step.
LEMMA StageType ==
    ASSUME TypeOK, NEW stage, InStage(stage), stage # "idle", gv' \in Memories,
           \/ \E to \in Stages : GoTo(to)
           \/ \E r \in Requests : (r.kind = "rp" => r.level # 0) /\ Send(r)
    PROVE  TypeOK'
<1>1. Levels' = Levels /\ Memories' = Memories /\ Requests' = Requests /\ Readings' = Readings
  BY DEF InStage, Levels, Memories, Requests, Readings
<1>2. /\ at' \in Stages /\ seen' \in Readings /\ req' \in Requests
      /\ (req'.kind = "none" => answer' = "none") /\ (req'.kind = "rp" => req'.level # 0)
      /\ (at' = "idle" => req' = NoReq /\ seen' = Unseen)
  BY Nothing DEF InStage, Send, GoTo, TypeOK, NoReq
<1> QED
  BY <1>1, <1>2 DEF InStage, TypeOK, position, ghosts

\* Type correctness is inductive by itself: one case per action.
LEMMA TypeStep == TypeOK /\ [Next]_vars => TypeOK'
<1> SUFFICES ASSUME TypeOK, [Next]_vars PROVE TypeOK'
  OBVIOUS
<1>0. inp' = inp => /\ Levels' = Levels /\ Memories' = Memories
                    /\ Requests' = Requests /\ Readings' = Readings
  BY DEF Levels, Memories, Requests, Readings
<1>1. CASE Begin
  <2>1. Risk \in Nat
    BY InputTypes, MemoryTypes DEF TypeOK, Risk, FirstRisk, Abs
  <2>2. gv' \in Memories
    BY <1>1, <2>1, MemoryTypes, MemoryUpdates DEF Begin, TypeOK
  <2>3. seen' \in Readings
    BY <1>1, <2>1 DEF Begin, Readings, TypeOK
  <2> QED
    BY <1>0, <1>1, <2>1, <2>2, <2>3 DEF Begin, TypeOK, Stages, position
<1>2. CASE Protect
  <2>1. StopToSet \in Int /\ TargetToSet \in Int
    BY InputTypes, Numbers DEF TypeOK, Readings, StopToSet, TargetToSet, DefaultStop, NearestSL
  <2>2. gv' \in Memories
    BY ZenonT(60), <1>2, MemoryTypes, MemoryUpdates DEF Protect, TypeOK, Throttles
  <2> QED
    BY <1>2, <2>1, <2>2, RequestType, StageType DEF Protect, Stages, Kinds, Throttles
<1>3. CASE FullClose
  <2>1. gv' \in Memories
    BY ZenonT(60), <1>3, MemoryTypes, MemoryUpdates DEF FullClose, TypeOK, Throttles
  <2>2. /\ Request("rr", vol, 0, 0, 0) \in Requests
        /\ Request("rr", vol, 0, 0, 0).kind = "rr"
    BY RequestType DEF TypeOK, Kinds, Throttles
  <2> QED
    BY <1>3, <2>1, <2>2, StageType DEF FullClose, Stages
<1>4. CASE PartialLevels
  <2>1. gv.mask \cup DueLevels \in SUBSET Levels
    BY LevelTypes, MemoryTypes
  <2>2. CASE DueCuts = {}
    BY <1>4, <2>1, <2>2, MemoryUpdates, MemoryTypes, StageType
       DEF PartialLevels, FirstCuts, TypeOK, Stages
  <2>3. ASSUME NEW l \in FirstCuts
        PROVE  /\ gv.mask \cup Before(l) \in SUBSET Levels
               /\ gv.mask \cup Before(l) \cup {l} \in SUBSET Levels
               /\ l \in Levels /\ l # 0 /\ PartialVolume(LevelVolume(l)) \in Nat
    BY LevelTypes, MemoryTypes, LevelVolumeType, PartialVolumeType DEF Before, TypeOK
  <2>4. ASSUME NEW l \in FirstCuts, ~MayTry("rp"),
               gv' = [gv EXCEPT !.mask = gv.mask \cup Before(l)], GoTo("dynamic")
        PROVE  TypeOK'
    BY <1>4, <2>3, <2>4, MemoryUpdates, MemoryTypes, StageType
       DEF PartialLevels, TypeOK, Stages
  <2>5. ASSUME NEW l \in FirstCuts, GoTo("idle"),
               gv' = [gv EXCEPT !.mask = gv.mask \cup Before(l) \cup {l}, !.tried = Tried("rp")]
        PROVE  TypeOK'
    BY <1>4, <2>3, <2>5, MemoryUpdates, MemoryTypes, StageType
       DEF PartialLevels, TypeOK, Stages, Throttles
  <2>6. ASSUME NEW l \in FirstCuts,
               gv' = [gv EXCEPT !.mask = gv.mask \cup Before(l), !.tried = Tried("rp")],
               \/ Send(Request("rp", PartialVolume(LevelVolume(l)), 0, 0, l))
               \/ GoTo("dynamic")
        PROVE  TypeOK'
    <3>1. gv' \in Memories
      BY <2>3, <2>6, MemoryUpdates, MemoryTypes DEF TypeOK, Throttles
    <3>2. InStage("levels")
      BY <1>4 DEF PartialLevels
    <3>3. "rp" \in Kinds
      BY DEF Kinds, Throttles
    <3> DEFINE r == Request("rp", PartialVolume(LevelVolume(l)), 0, 0, l)
    <3>4. r \in Requests /\ r.level # 0
      BY <2>3, <3>3, RequestType
    <3> HIDE DEF r
    <3>5. Send(r) \/ GoTo("dynamic")
      BY <2>6 DEF r
    <3> QED
      BY <3>1, <3>2, <3>4, <3>5, StageType DEF Stages
  <2> QED
    BY <1>4, <2>2, <2>4, <2>5, <2>6 DEF PartialLevels
<1>5. CASE DynamicPartial
  <2>1. PartialVolume(gv.rule.vol) \in Nat
    BY Numbers, MemoryTypes, PartialVolumeType DEF TypeOK, NoRule
  <2>2. gv' \in Memories
    BY <1>5, MemoryTypes, MemoryUpdates DEF DynamicPartial, TypeOK, Throttles
  <2> QED
    BY <1>5, <2>1, <2>2, RequestType, StageType DEF DynamicPartial, Stages, Kinds, Throttles
<1>6. CASE BreakEven
  <2>1. gv' \in Memories
    BY ZenonT(60), <1>6, MemoryTypes, MemoryUpdates DEF BreakEven, TypeOK, Throttles
  <2>2. CASE \E to \in Stages : GoTo(to)
    BY <1>6, <2>1, <2>2, StageType DEF BreakEven
  <2>3. CASE /\ seen' = [seen EXCEPT !.sl = sl, !.tp = tp]
             /\ req' = Request("be", 0, inp.beOff, tp, 0) /\ at' = at
    <3>1. req' \in Requests /\ req'.kind = "be"
      <4>1. inp.beOff \in Int /\ tp \in Int /\ "be" \in Kinds
        BY InputTypes DEF TypeOK, Kinds, Throttles
      <4> QED
        BY <2>3, <4>1, RequestType
    <3>2. seen' \in Readings
      BY <2>3 DEF TypeOK, Readings
    <3> QED
      BY <1>0, <1>6, <2>1, <2>3, <3>1, <3>2 DEF BreakEven, InStage, TypeOK, position, ghosts
  <2> QED
    BY <1>6, <2>2, <2>3 DEF BreakEven, Stages
<1>7. CASE Resume
  <2>1. req.kind = "rp" => gv.mask \cup {req.level} \in SUBSET Levels
    BY MemoryTypes DEF TypeOK, Requests
  <2>2. gv' \in Memories
    BY <1>7, <2>1, Nothing, MemoryTypes, MemoryUpdates DEF Resume, Remembered, TypeOK
  <2>3. at' \in Stages
    BY <1>7 DEF Resume, AfterSend, Stages
  <2>4. seen' \in Readings
    BY <1>7, Nothing DEF Resume, TypeOK, Readings
  <2> QED
    BY <1>0, <1>7, <2>2, <2>3, <2>4, Nothing DEF Resume, TypeOK, position, ghosts
<1>8. ASSUME NEW r \in Requests, r.kind # "none", r.kind # "rp", Task(r)
      PROVE  TypeOK'
  <2>1. seen' \in Readings
    BY <1>8 DEF Task, TypeOK, Readings
  <2> QED
    BY <1>0, <1>8, <2>1, Numbers DEF Task, TypeOK, Stages, position, ghosts, Fault
<1>9. CASE Tasks
  <2>1. CASE ExecuteCloseTask
    BY <1>8, <2>1, RequestType DEF ExecuteCloseTask, Kinds, TypeOK
  <2>2. ASSUME NEW level \in Stops, ExecuteModifyTask(level)
        PROVE  TypeOK'
    <3>1. level \in Int
      BY Numbers
    <3> QED
      BY <3>1, <1>8, <2>2, RequestType DEF ExecuteModifyTask, Kinds, TypeOK
  <2>3. CASE ExecuteTpRollTask
    <3>1. tp + RollStep \in Int /\ sl \in Int /\ "roll" \in Kinds
      BY Numbers DEF TypeOK, Kinds
    <3>2. /\ Request("roll", 0, sl, tp + RollStep, 0) \in Requests
          /\ Request("roll", 0, sl, tp + RollStep, 0).kind = "roll"
      BY <3>1, RequestType
    <3> QED
      BY <3>2, <1>8, <2>3 DEF ExecuteTpRollTask
  <2>4. ASSUME NEW rule \in Rules, ExecutePartialTask(rule)
        PROVE  TypeOK'
    <3>1. gv' \in Memories
      BY <2>4, MemoryTypes, MemoryUpdates DEF ExecutePartialTask, TypeOK
    <3>2. cuts' \in [Levels \cup {0} -> Nat]
      BY <2>4 DEF ExecutePartialTask, TypeOK
    <3> QED
      BY <1>0, <2>4, <3>1, <3>2, Numbers DEF ExecutePartialTask, TypeOK, position, Fault
  <2> QED
    BY <1>9, <2>1, <2>2, <2>3, <2>4 DEF Tasks
<1>10. ASSUME Act
       PROVE  vol' \in Nat /\ sl' \in Int /\ tp' \in Int /\ cuts' \in [Levels \cup {0} -> Nat]
  <2>1. req.vol \in Nat /\ req.sl \in Int /\ req.tp \in Int /\ req.level \in Levels \cup {0}
    BY DEF TypeOK, Requests
  <2>2. vol' \in Nat /\ sl' \in Int /\ tp' \in Int
    BY <1>10, <2>1 DEF Act, CanAct, TypeOK
  <2>3. cuts' \in [Levels \cup {0} -> Nat]
    BY <1>10, <2>1 DEF Act, TypeOK
  <2> QED
    BY <2>2, <2>3
<1>11. CASE Accept
  BY <1>0, <1>10, <1>11 DEF Accept, Asked, TypeOK
<1>12. CASE Refuse
  BY <1>0, <1>12, Numbers DEF Refuse, Asked, TypeOK, position, ghosts, Fault
<1>13. CASE Lose
  BY <1>0, <1>10, <1>13, Numbers DEF Lose, Asked, TypeOK, position, Fault
<1>14. CASE PriceMove
  BY <1>0, <1>14, Numbers DEF PriceMove, TypeOK, ghosts, Fault
<1>15. CASE OperatorTrade
  <2>1. vol' \in Nat /\ sl' \in Int
    <3>1. \A s \in Stops \cup {NoSL} : s \in Int
      BY Numbers DEF NoSL
    <3>2. vol \in Nat /\ sl \in Int
      BY DEF TypeOK
    <3> QED
      BY <1>15, <3>1, <3>2 DEF OperatorTrade
  <2> QED
    BY <1>0, <1>15, <2>1, Numbers DEF OperatorTrade, TypeOK, ghosts, Fault
<1>16. ASSUME NEW over \in {{"rr", "rp", "pp"}, Throttles}, Lapse(over)
       PROVE  TypeOK'
  <2>1. gv' \in Memories
    BY <1>16, MemoryTypes, MemoryUpdates DEF Lapse, TypeOK
  <2> QED
    BY <1>0, <1>16, <2>1 DEF Lapse, TypeOK, position, ghosts
<1>17. CASE Crash
  BY <1>0, <1>17, Nothing, Numbers DEF Crash, Stages, TypeOK, position, Fault
<1>18. CASE UNCHANGED vars
  BY <1>0, <1>18 DEF vars, position, ghosts, TypeOK
<1> QED
  BY <1>1, <1>2, <1>3, <1>4, <1>5, <1>6, <1>7, <1>9, <1>11, <1>12, <1>13, <1>14, <1>15,
     <1>16, <1>17, <1>18 DEF Next, Manage

\* Every state is well typed.
THEOREM TypeCorrect == Spec => []TypeOK
<1>1. ASSUME Init PROVE TypeOK
  <2>1. vol \in Nat /\ sl \in Int /\ tp \in Int
    BY <1>1, Numbers DEF Init, NoSL, NoTP
  <2>2. cuts \in [Levels \cup {0} -> Nat]
    BY <1>1 DEF Init
  <2>3. faults \in 0..MaxFaults
    BY <1>1, Numbers DEF Init
  <2>4. forgot \in BOOLEAN
    BY <1>1 DEF Init
  <2>5. inp \in Inputs /\ gain \in Int /\ first \in Nat /\ unsure \in Nat
    BY <1>1 DEF Init
  <2> QED
    BY <1>1, <2>1, <2>2, <2>3, <2>4, <2>5, Nothing DEF Init, TypeOK, Stages
<1> QED
  BY <1>1, TypeStep, PTL DEF Spec

-----------------------------------------------------------------------------
(* What the manager asks for is due by the risk it recorded first: the risk *)
(* it remembers is the first one, and a pass works with what it remembers.  *)

RiskInv ==
    /\ ~forgot => gv.risk = first
    /\ (~forgot /\ at \notin {"idle", "task"}) => seen.risk = first
    /\ req.kind \in {"rr", "rp", "be"} => at \notin {"idle", "task"}
    /\ at = "task" => req.kind \in {"close", "modify", "roll"}
    /\ req.kind = "rr" => seen.gain >= inp.closeAt * seen.risk
    /\ req.kind = "rp" => seen.gain >= inp.levels[req.level] * seen.risk
    /\ req.kind = "be" => seen.gain >= inp.beAt * seen.risk

\* What a request asks is what it was made from.
LEMMA RequestFields ==
    ASSUME NEW kind, NEW v, NEW s, NEW t, NEW l
    PROVE  /\ Request(kind, v, s, t, l).kind = kind
           /\ Request(kind, v, s, t, l).level = l
  BY DEF Request

\* A stage that asks for nothing in R, or for nothing that is not due.
LEMMA RiskStage ==
    ASSUME TypeOK, RiskInv, NEW stage, InStage(stage), stage \notin {"idle", "task"},
           gv'.risk = gv.risk,
           \/ \E to \in Stages \ {"task"} : GoTo(to)
           \/ /\ at' = at /\ seen'.risk = seen.risk /\ seen'.gain = seen.gain
              /\ \/ req'.kind \notin {"rr", "rp", "be"}
                 \/ req'.kind = "rr" /\ seen.gain >= inp.closeAt * seen.risk
                 \/ req'.kind = "rp" /\ seen.gain >= inp.levels[req'.level] * seen.risk
                 \/ req'.kind = "be" /\ seen.gain >= inp.beAt * seen.risk
    PROVE  RiskInv'
  BY DEF RiskInv, InStage, GoTo, NoReq, ghosts

LEMMA RiskStep == TypeOK /\ RiskInv /\ [Next]_vars => RiskInv'
<1> SUFFICES ASSUME TypeOK, RiskInv, [Next]_vars PROVE RiskInv'
  OBVIOUS
<1>m. gv \in Memories /\ gv.risk \in Nat /\ first \in Nat
  BY MemoryTypes DEF TypeOK
<1>1. CASE Begin
  <2>1. gv'.risk = Risk
    BY <1>1, <1>m DEF Begin, Memories
  <2>2. req.kind = "none"
    BY <1>1 DEF Begin, TypeOK, NoReq
  <2> QED
    BY <1>1, <1>m, <2>1, <2>2 DEF Begin, RiskInv, Risk
<1>2. CASE Protect
  <2>1. gv'.risk = gv.risk
    BY <1>2, <1>m DEF Protect, Memories
  <2>2. \/ GoTo("full")
        \/ Send(Request("protect", 0, StopToSet, TargetToSet, 0))
    BY <1>2 DEF Protect
  <2> QED
    BY <1>2, <2>1, <2>2, RiskStage, RequestFields DEF Protect, Send, Stages
<1>3. CASE FullClose
  <2>1. gv'.risk = gv.risk
    BY <1>3, <1>m DEF FullClose, Memories
  <2> QED
    BY <1>3, <2>1, RiskStage, RequestFields DEF FullClose, Send, Stages, Reached
<1>4. CASE PartialLevels
  <2>1. gv'.risk = gv.risk
    BY <1>4, <1>m DEF PartialLevels, Memories
  <2>2. \A l \in FirstCuts : seen.gain >= inp.levels[l] * seen.risk
    BY DEF FirstCuts, DueCuts, DueLevels, Reached
  <2>3. \/ \E to \in Stages \ {"task"} : GoTo(to)
        \/ \E l \in FirstCuts : Send(Request("rp", PartialVolume(LevelVolume(l)), 0, 0, l))
    BY <1>4 DEF PartialLevels, Stages
  <2> QED
    <3>1. CASE \E to \in Stages \ {"task"} : GoTo(to)
      BY <1>4, <2>1, <3>1, RiskStage DEF PartialLevels
    <3>2. ASSUME NEW l \in FirstCuts, Send(Request("rp", PartialVolume(LevelVolume(l)), 0, 0, l))
          PROVE  RiskInv'
      <4>1. req'.kind = "rp" /\ req'.level = l /\ at' = at /\ seen' = seen
        BY <3>2, RequestFields DEF Send
      <4>2. InStage("levels")
        BY <1>4 DEF PartialLevels
      <4> QED
        BY <2>1, <2>2, <4>1, <4>2, RiskStage
    <3> QED
      BY <2>3, <3>1, <3>2
<1>5. CASE DynamicPartial
  <2>1. gv'.risk = gv.risk
    BY <1>5, <1>m DEF DynamicPartial, Memories
  <2> QED
    BY <1>5, <2>1, RiskStage, RequestFields DEF DynamicPartial, Send, Stages
<1>6. CASE BreakEven
  <2>1. gv'.risk = gv.risk
    BY <1>6, <1>m DEF BreakEven, Memories
  <2>2. CASE GoTo("idle")
    BY <1>6, <2>1, <2>2, RiskStage DEF BreakEven, Stages
  <2>3. CASE /\ seen' = [seen EXCEPT !.sl = sl, !.tp = tp]
             /\ req' = Request("be", 0, inp.beOff, tp, 0) /\ at' = at /\ Reached(inp.beAt)
    <3>1. seen'.risk = seen.risk /\ seen'.gain = seen.gain
      BY <2>3 DEF TypeOK, Readings
    <3> QED
      BY <1>6, <2>1, <2>3, <3>1, RiskStage, RequestFields DEF BreakEven, Reached
  <2> QED
    BY <1>6, <2>2, <2>3 DEF BreakEven
<1>7. CASE Resume
  <2>1. gv'.risk = gv.risk
    BY <1>7, <1>m DEF Resume, Remembered, Memories
  <2>2. seen'.risk = seen.risk \/ at' = "idle"
    BY <1>7 DEF Resume, TypeOK, Readings
  <2>3. at' # "task" /\ (at' # "idle" => req.kind \in {"protect", "rp", "pp"})
    BY <1>7 DEF Resume, AfterSend
  <2>4. req'.kind = "none" /\ forgot' = forgot /\ first' = first
    BY <1>7, Nothing DEF Resume, ghosts
  <2>5. at' # "idle" => at \notin {"idle", "task"}
    <3>1. at = "idle" => req.kind = "none"
      BY Nothing DEF TypeOK
    <3> QED
      BY <2>3, <3>1 DEF RiskInv
  <2> QED
    BY <2>1, <2>2, <2>3, <2>4, <2>5 DEF RiskInv
<1>8. ASSUME NEW r, r.kind \in {"close", "modify", "roll"}, Task(r)
      PROVE  RiskInv'
  BY <1>8 DEF Task, RiskInv, ghosts
<1>9. CASE Tasks
  <2>1. CASE ExecuteCloseTask
    BY <1>8, <2>1, RequestFields DEF ExecuteCloseTask
  <2>2. ASSUME NEW level \in Stops, ExecuteModifyTask(level)
        PROVE  RiskInv'
    BY <1>8, <2>2, RequestFields DEF ExecuteModifyTask
  <2>3. CASE ExecuteTpRollTask
    BY <1>8, <2>3, RequestFields DEF ExecuteTpRollTask
  <2>4. ASSUME NEW rule \in Rules, ExecutePartialTask(rule)
        PROVE  RiskInv'
    <3>1. gv'.risk = gv.risk
      BY <1>m, <2>4 DEF ExecutePartialTask, Memories
    <3> QED
      BY <2>4, <3>1 DEF ExecutePartialTask, RiskInv
  <2> QED
    BY <1>9, <2>1, <2>2, <2>3, <2>4 DEF Tasks
<1>10. CASE Accept \/ Refuse \/ Lose
  BY <1>10 DEF Accept, Refuse, Lose, Asked, RiskInv, ghosts
<1>11. CASE PriceMove \/ OperatorTrade \/ UNCHANGED vars
  BY <1>11 DEF PriceMove, OperatorTrade, vars, RiskInv, ghosts
<1>12. ASSUME NEW over \in {{"rr", "rp", "pp"}, Throttles}, Lapse(over)
       PROVE  RiskInv'
  <2>1. gv'.risk = gv.risk
    BY <1>m, <1>12 DEF Lapse, Memories
  <2> QED
    BY <1>12, <2>1 DEF Lapse, RiskInv, ghosts
<1>13. CASE Crash
  BY <1>13, Nothing DEF Crash, RiskInv
<1> QED
  BY <1>1, <1>2, <1>3, <1>4, <1>5, <1>6, <1>7, <1>9, <1>10, <1>11, <1>12, <1>13 DEF Next, Manage

\* What the manager asks for is due by the risk it recorded first.
THEOREM ActsByFirstRiskHolds == Spec => []ActsByFirstRisk
<1>1. Init => RiskInv
  BY DEF Init, RiskInv, Fresh, NoReq
<1>2. ASSUME TypeOK, RiskInv PROVE ActsByFirstRisk
  BY <1>2 DEF RiskInv, ActsByFirstRisk
<1> QED
  BY <1>1, <1>2, TypeCorrect, RiskStep, PTL DEF Spec

-----------------------------------------------------------------------------
(* A level whose mark is missing was executed as often as answers were lost, *)
(* but for the one whose answer the EA is about to read.                     *)

Answered(kind, l) == answer = "yes" /\ req.kind = kind /\ req.level = l

OnceInv ==
    ~forgot =>
        /\ \A l \in Levels : cuts[l] <= unsure + 1
        /\ \A l \in Levels : l \notin gv.mask /\ ~Answered("rp", l) => cuts[l] <= unsure
        /\ cuts[0] <= unsure + 1
        /\ gv.rule # NoRule /\ ~Answered("pp", 0) => cuts[0] <= unsure
        /\ req.kind = "rp" => req.level \in Levels /\ req.level \notin gv.mask
        /\ req.kind = "pp" => req.level = 0 /\ gv.rule # NoRule

\* A stage that sends a level not in the mask, or the rule that is armed.
LEMMA OnceStage ==
    ASSUME TypeOK, OnceInv, NEW stage, InStage(stage),
           gv.mask \subseteq gv'.mask, gv'.rule = gv.rule,
           \/ req' = req
           \/ req'.kind \notin {"rp", "pp"}
           \/ req'.kind = "rp" /\ req'.level \in Levels /\ req'.level \notin gv'.mask
           \/ req'.kind = "pp" /\ req'.level = 0 /\ gv.rule # NoRule
    PROVE  OnceInv'
<1>1. req.kind = "none" /\ answer = "none" /\ answer' = "none" /\ Levels' = Levels
      /\ cuts' = cuts /\ unsure' = unsure /\ forgot' = forgot
  BY Nothing DEF InStage, TypeOK, Levels, ghosts
<1> QED
  BY <1>1 DEF OnceInv, Answered

LEMMA OnceStep == TypeOK /\ OnceInv /\ [Next]_vars => OnceInv'
<1> SUFFICES ASSUME TypeOK, OnceInv, [Next]_vars PROVE OnceInv'
  OBVIOUS
<1>m. gv \in Memories
  BY DEF TypeOK
<1>l. Levels \subseteq Nat \ {0} /\ (inp' = inp => Levels' = Levels)
  BY DEF Levels
<1>1. CASE Begin
  <2>1. gv'.mask = gv.mask /\ gv'.rule = gv.rule
    BY <1>1, <1>m DEF Begin, Memories
  <2> QED
    BY <1>l, <1>1, <2>1 DEF Begin, OnceInv, Answered
<1>2. CASE Protect
  <2>1. gv'.mask = gv.mask /\ gv'.rule = gv.rule
    BY <1>2, <1>m DEF Protect, Memories
  <2> QED
    BY <1>2, <2>1, OnceStage, RequestFields DEF Protect, Send, GoTo
<1>3. CASE FullClose
  <2>1. gv'.mask = gv.mask /\ gv'.rule = gv.rule
    BY <1>3, <1>m DEF FullClose, Memories
  <2> QED
    BY <1>3, <2>1, OnceStage, RequestFields DEF FullClose, Send, GoTo
<1>4. CASE PartialLevels
  <2>1. gv.mask \subseteq gv'.mask /\ gv'.rule = gv.rule
    BY <1>4, <1>m DEF PartialLevels, Memories
  <2>2. CASE req' = req
    BY <1>4, <2>1, <2>2, OnceStage DEF PartialLevels
  <2>3. ASSUME NEW l \in FirstCuts, Send(Request("rp", PartialVolume(LevelVolume(l)), 0, 0, l)),
               gv' = [gv EXCEPT !.mask = gv.mask \cup Before(l), !.tried = Tried("rp")]
        PROVE  OnceInv'
    <3>1. gv'.mask = gv.mask \cup Before(l)
      BY <1>m, <2>3 DEF Memories
    <3>2. l \in Levels /\ l \notin gv.mask /\ l \notin Before(l)
      BY <1>l DEF FirstCuts, DueCuts, DueLevels, Before
    <3>3. req'.kind = "rp" /\ req'.level = l
      BY <2>3, RequestFields DEF Send
    <3>4. InStage("levels")
      BY <1>4 DEF PartialLevels
    <3> QED
      BY <2>1, <3>1, <3>2, <3>3, <3>4, OnceStage
  <2> QED
    BY <1>4, <2>2, <2>3 DEF PartialLevels, GoTo
<1>5. CASE DynamicPartial
  <2>1. gv'.mask = gv.mask /\ gv'.rule = gv.rule
    BY <1>5, <1>m DEF DynamicPartial, Memories
  <2> QED
    BY <1>5, <2>1, OnceStage, RequestFields DEF DynamicPartial, Send, GoTo
<1>6. CASE BreakEven
  <2>1. gv'.mask = gv.mask /\ gv'.rule = gv.rule
    BY <1>6, <1>m DEF BreakEven, Memories
  <2> QED
    BY <1>6, <2>1, OnceStage, RequestFields DEF BreakEven, GoTo
<1>7. CASE Resume
  <2>1. /\ req.kind = "rp" /\ answer = "yes" => gv'.mask = gv.mask \cup {req.level}
        /\ ~(req.kind = "rp" /\ answer = "yes") => gv'.mask = gv.mask
    BY <1>7, <1>m DEF Resume, Remembered, Memories
  <2>2. /\ req.kind = "pp" /\ answer = "yes" => gv'.rule = NoRule
        /\ ~(req.kind = "pp" /\ answer = "yes") => gv'.rule = gv.rule
    BY <1>7, <1>m DEF Resume, Remembered, Memories
  <2>3. req'.kind = "none" /\ answer' = "none" /\ cuts' = cuts /\ unsure' = unsure
        /\ forgot' = forgot /\ Levels' = Levels
    BY <1>l, <1>7, Nothing DEF Resume, ghosts
  <2> QED
    BY <2>1, <2>2, <2>3 DEF OnceInv, Answered
<1>8. ASSUME NEW r, r.kind \in {"close", "modify", "roll"}, Task(r)
      PROVE  OnceInv'
  <2>1. answer = "none" /\ answer' = "none"
    BY <1>8, Nothing DEF Task, TypeOK
  <2> QED
    BY <1>l, <1>8, <2>1 DEF Task, OnceInv, Answered, ghosts
<1>9. CASE Tasks
  <2>1. CASE ExecuteCloseTask
    BY <1>8, <2>1, RequestFields DEF ExecuteCloseTask
  <2>2. ASSUME NEW level \in Stops, ExecuteModifyTask(level)
        PROVE  OnceInv'
    BY <1>8, <2>2, RequestFields DEF ExecuteModifyTask
  <2>3. CASE ExecuteTpRollTask
    BY <1>8, <2>3, RequestFields DEF ExecuteTpRollTask
  <2>4. ASSUME NEW rule \in Rules, ExecutePartialTask(rule)
        PROVE  OnceInv'
    <3>1. gv'.mask = gv.mask
      BY <1>m, <2>4 DEF ExecutePartialTask, Memories
    <3>2. cuts'[0] = 0 /\ \A l \in Levels : cuts'[l] = cuts[l]
      BY <1>l, <2>4 DEF ExecutePartialTask, TypeOK
    <3>3. req.kind = "none" /\ unsure \in Nat /\ answer = "none"
      BY <2>4, Nothing DEF ExecutePartialTask, TypeOK
    <3>4. req' = req /\ answer' = answer /\ unsure' = unsure /\ forgot' = forgot /\ Levels' = Levels
      BY <1>l, <2>4 DEF ExecutePartialTask
    <3> QED
      BY <3>1, <3>2, <3>3, <3>4 DEF OnceInv, Answered
  <2> QED
    BY <1>9, <2>1, <2>2, <2>3, <2>4 DEF Tasks
<1>10. CASE Accept \/ Refuse \/ Lose
  <2>1. /\ req' = req /\ gv' = gv /\ forgot' = forgot /\ Levels' = Levels
        /\ answer = "none" /\ answer' \in {"yes", "no"}
    BY <1>l, <1>10 DEF Accept, Refuse, Lose, Asked, ghosts
  <2>2. \/ cuts' = cuts /\ unsure' = unsure
        \/ Act /\ unsure' = unsure /\ answer' = "yes"
        \/ Act /\ unsure' = unsure + 1
    BY <1>10 DEF Accept, Refuse, Lose, Asked, ghosts
  <2>3. cuts \in [Levels \cup {0} -> Nat] /\ unsure \in Nat /\ req.level \in Levels \cup {0}
    BY DEF TypeOK, Requests
  <2>4. Act => \A l \in Levels \cup {0} :
                 cuts'[l] = IF req.kind \in {"rp", "pp"} /\ req.level = l THEN cuts[l] + 1 ELSE cuts[l]
    BY <2>3 DEF Act
  <2> QED
    BY <1>l, <2>1, <2>2, <2>3, <2>4 DEF OnceInv, Answered
<1>11. CASE PriceMove \/ OperatorTrade \/ UNCHANGED vars
  BY <1>l, <1>11 DEF PriceMove, OperatorTrade, vars, OnceInv, Answered, ghosts
<1>12. ASSUME NEW over \in {{"rr", "rp", "pp"}, Throttles}, Lapse(over)
       PROVE  OnceInv'
  <2>1. gv'.mask = gv.mask /\ gv'.rule = gv.rule
    BY <1>m, <1>12 DEF Lapse, Memories
  <2> QED
    BY <1>l, <1>12, <2>1 DEF Lapse, OnceInv, Answered, ghosts
<1>13. CASE Crash
  BY <1>l, <1>13, Nothing DEF Crash, OnceInv, Answered
<1> QED
  BY <1>1, <1>2, <1>3, <1>4, <1>5, <1>6, <1>7, <1>9, <1>10, <1>11, <1>12, <1>13 DEF Next, Manage

\* A level, and a rule an operator armed, is executed once for every lost answer
\* and once more.
THEOREM PartialOnceHolds == Spec => []PartialOnce
<1>1. Init => OnceInv
  BY DEF Init, OnceInv, Fresh, NoReq, Answered
<1>2. ASSUME TypeOK, OnceInv PROVE PartialOnce
  BY <1>2 DEF TypeOK, OnceInv, PartialOnce
<1> QED
  BY <1>1, <1>2, TypeCorrect, OnceStep, PTL DEF Spec

-----------------------------------------------------------------------------
(* A target never comes to look like none: however often it is rolled, what *)
(* the faults left could still add keeps it nearer than Far.  So a request  *)
(* made from a reading keeps what that reading had.                         *)

Room(f) == RollStep * (MaxFaults - f)
Below(t, f) == t = NoTP \/ t + Room(f) < NoTP

ProtInv ==
    /\ gain \in {0} \cup Lowest..Highest
    /\ Below(tp, faults) /\ Below(seen.tp, faults)
    /\ req.kind \notin Closings \cup {"none"} => Below(req.tp, faults)
    /\ req.kind \in {"protect", "be", "roll"} =>
           req.sl >= seen.sl /\ (seen.tp # NoTP => req.tp \in seen.tp .. NoTP - 1)

\* What the faults left can add to a target shrinks with every fault.
LEMMA RoomFacts ==
    /\ \A f \in 0..MaxFaults : Room(f) \in Nat /\ Room(f) <= RollStep * MaxFaults
    /\ \A f \in 0..MaxFaults : f + 1 <= MaxFaults => Room(f) = Room(f + 1) + RollStep
<1>n. RollStep \in Nat /\ MaxFaults \in Nat
  BY Numbers
<1>1. ASSUME NEW f \in 0..MaxFaults PROVE Room(f) \in Nat /\ Room(f) <= RollStep * MaxFaults
  <2>1. MaxFaults - f \in Nat /\ f \in Nat
    BY <1>n
  <2>2. RollStep * (MaxFaults - f) \in Nat /\ RollStep * f \in Nat
    BY <1>n, <2>1
  <2>3. RollStep * (MaxFaults - f) = RollStep * MaxFaults - RollStep * f
    BY <1>n, <2>1
  <2> QED
    BY <1>n, <2>2, <2>3 DEF Room
<1>2. ASSUME NEW f \in 0..MaxFaults, f + 1 <= MaxFaults PROVE Room(f) = Room(f + 1) + RollStep
  BY <1>n DEF Room
<1> QED
  BY <1>1, <1>2

\* A target that is not near Far stays so when a fault is spent, and when a fault
\* is spent on rolling it; a target an operator or the settings give is not near it.
LEMMA Targets ==
    ASSUME NEW f \in 0..MaxFaults, NEW t \in Int
    PROVE  /\ Below(t, f) /\ f + 1 <= MaxFaults => Below(t, f + 1)
           /\ Below(t, f) /\ t # NoTP /\ f + 1 <= MaxFaults => Below(t + RollStep, f + 1)
           /\ Below(t, f) /\ t # NoTP => t < NoTP
           /\ t + RollStep * MaxFaults < Far => Below(t, f)
           /\ Below(NoTP, f)
<1>1. /\ RollStep \in Nat /\ MaxFaults \in Nat /\ NoTP = Far /\ Far \in Nat
      /\ Room(f) \in Nat /\ Room(f) <= RollStep * MaxFaults
      /\ RollStep * MaxFaults \in Nat
  BY Numbers, RoomFacts DEF NoTP
<1>2. f + 1 <= MaxFaults => Room(f) = Room(f + 1) + RollStep /\ Room(f + 1) \in Nat
  BY <1>1, RoomFacts
<1> QED
  BY <1>1, <1>2 DEF Below

\* No stop the EA puts in place of none is as far as none.
LEMMA Defaults ==
    ASSUME TypeOK, ProtInv
    PROVE  /\ StopToSet \in Int /\ TargetToSet \in Int
           /\ StopToSet >= seen.sl
           /\ seen.tp # NoTP => TargetToSet = seen.tp
           /\ Below(TargetToSet, faults)
<1>1. seen.sl \in Int /\ seen.tp \in Int /\ gain \in Int /\ faults \in 0..MaxFaults
  BY DEF TypeOK, Readings
<1>2. /\ inp.defSL <= Far /\ -Far <= inp.beOff /\ -Far < -Dist /\ -Far < Lowest - Dist
      /\ inp.defTP + RollStep * MaxFaults < Far
  BY FarAssumption DEF TypeOK
<1>3. gain - Dist - 1 >= -Far
  BY <1>1, <1>2, Numbers DEF ProtInv
<1>4. DefaultStop \in Int /\ DefaultStop >= NoSL
  <2>1. \/ DefaultStop = inp.beOff \/ DefaultStop = -inp.defSL \/ DefaultStop = gain - Dist - 1
    BY DEF DefaultStop, NearestSL
  <2> QED
    BY <1>1, <1>2, <1>3, <2>1, InputTypes, Numbers DEF NoSL
<1>5. StopToSet \in Int /\ StopToSet >= seen.sl
  BY <1>1, <1>4 DEF StopToSet
<1>6. TargetToSet \in Int /\ (seen.tp # NoTP => TargetToSet = seen.tp)
  BY <1>1, InputTypes DEF TargetToSet
<1>7. Below(inp.defTP, faults)
  BY <1>1, <1>2, InputTypes, Targets
<1>8. Below(TargetToSet, faults)
  BY <1>7 DEF TargetToSet, ProtInv
<1> QED
  BY <1>5, <1>6, <1>8

\* The rest of a request.
LEMMA RequestLevels ==
    ASSUME NEW kind, NEW v, NEW s, NEW t, NEW l
    PROVE  /\ Request(kind, v, s, t, l).kind = kind
           /\ Request(kind, v, s, t, l).sl = s
           /\ Request(kind, v, s, t, l).tp = t
  BY DEF Request

\* Nothing in hand, as far as targets go.
LEMMA NothingBelow ==
    ASSUME NEW f \in 0..MaxFaults
    PROVE  Below(Unseen.tp, f) /\ NoReq.kind = "none"
<1>1. 0 + RollStep * MaxFaults < Far
  BY FarAssumption, Numbers
<1> QED
  BY <1>1, Targets DEF Unseen, NoReq

\* A stage that asks for nothing, for a close, or for what keeps what it read.
LEMMA ProtStage ==
    ASSUME TypeOK, ProtInv, NEW stage, InStage(stage),
           \/ \E to \in Stages : GoTo(to)
           \/ seen' = seen /\ req'.kind \in {"rr", "rp", "pp"}
           \/ /\ req'.kind \in {"protect", "be"} /\ Below(seen'.tp, faults)
              /\ Below(req'.tp, faults) /\ req'.sl >= seen'.sl
              /\ seen'.tp # NoTP => req'.tp \in seen'.tp .. NoTP - 1
    PROVE  ProtInv'
<1>1. /\ gain' = gain /\ tp' = tp /\ faults' = faults /\ req = NoReq /\ req.kind = "none"
      /\ faults \in 0..MaxFaults
  BY Nothing DEF InStage, position, TypeOK
<1>2. CASE \E to \in Stages : GoTo(to)
  <2>1. Below(seen'.tp, faults) /\ req' = NoReq
    BY <1>1, <1>2, NothingBelow DEF GoTo, ProtInv
  <2> QED
    BY <1>1, <2>1 DEF ProtInv
<1>3. CASE seen' = seen /\ req'.kind \in {"rr", "rp", "pp"}
  BY <1>1, <1>3 DEF ProtInv, Closings
<1>4. CASE /\ req'.kind \in {"protect", "be"} /\ Below(seen'.tp, faults)
           /\ Below(req'.tp, faults) /\ req'.sl >= seen'.sl
           /\ seen'.tp # NoTP => req'.tp \in seen'.tp .. NoTP - 1
  BY <1>1, <1>4 DEF ProtInv
<1> QED
  BY <1>2, <1>3, <1>4

\* One more fault leaves every target below Far.
LEMMA FaultKeepsBelow ==
    ASSUME TypeOK, ProtInv, Fault
    PROVE  /\ Below(tp, faults') /\ Below(seen.tp, faults')
           /\ req.kind \notin Closings \cup {"none"} => Below(req.tp, faults')
           /\ faults' \in 0..MaxFaults
<1>1. /\ faults \in 0..MaxFaults /\ faults' = faults + 1 /\ faults + 1 <= MaxFaults
      /\ MaxFaults \in Nat /\ tp \in Int /\ seen.tp \in Int /\ req.tp \in Int
  BY Numbers DEF TypeOK, Fault, Readings, Requests
<1> QED
  BY <1>1, Targets DEF ProtInv

LEMMA ProtStep == TypeOK /\ ProtInv /\ [Next]_vars => ProtInv'
<1> SUFFICES ASSUME TypeOK, ProtInv, [Next]_vars PROVE ProtInv'
  OBVIOUS
<1>t. /\ sl \in Int /\ tp \in Int /\ faults \in 0..MaxFaults
      /\ seen.sl \in Int /\ seen.tp \in Int /\ seen \in Readings
  BY DEF TypeOK, Readings
<1>1. CASE Begin
  <2>1. seen'.tp = tp /\ req = NoReq /\ req' = req
    BY <1>1 DEF Begin, TypeOK
  <2> QED
    BY <1>1, <2>1, Nothing DEF Begin, ProtInv, position
<1>2. CASE Protect
  <2>1. \/ GoTo("full")
        \/ Send(Request("protect", 0, StopToSet, TargetToSet, 0))
    BY <1>2 DEF Protect
  <2>2. CASE GoTo("full")
    BY <1>2, <2>2, ProtStage DEF Protect, Stages
  <2>3. CASE Send(Request("protect", 0, StopToSet, TargetToSet, 0))
    <3>1. /\ req'.kind = "protect" /\ req'.sl = StopToSet /\ req'.tp = TargetToSet
          /\ seen' = seen
      BY <2>3, RequestLevels DEF Send
    <3>2. /\ req'.sl >= seen'.sl /\ Below(seen'.tp, faults) /\ Below(req'.tp, faults)
      BY <3>1, Defaults DEF ProtInv
    <3>3. ASSUME seen'.tp # NoTP PROVE req'.tp \in seen'.tp .. NoTP - 1
      <4>1. req'.tp = seen.tp /\ seen.tp < NoTP
        BY <1>t, <3>1, <3>3, Defaults, Targets DEF ProtInv
      <4> QED
        BY <1>t, <3>1, <4>1, Numbers DEF NoTP
    <3> QED
      BY <1>2, <3>1, <3>2, <3>3, ProtStage DEF Protect
  <2> QED
    BY <2>1, <2>2, <2>3
<1>3. CASE FullClose
  <2>1. \/ \E to \in Stages : GoTo(to)
        \/ Send(Request("rr", vol, 0, 0, 0))
    BY <1>3 DEF FullClose, Stages
  <2> QED
    BY <1>3, <2>1, ProtStage, RequestLevels DEF FullClose, Send
<1>4. CASE PartialLevels
  <2>1. \/ \E to \in Stages : GoTo(to)
        \/ \E l \in FirstCuts : Send(Request("rp", PartialVolume(LevelVolume(l)), 0, 0, l))
    BY <1>4 DEF PartialLevels, Stages
  <2>2. (\E to \in Stages : GoTo(to)) \/ (seen' = seen /\ req'.kind = "rp")
    BY <2>1, RequestLevels DEF Send
  <2> QED
    BY <1>4, <2>2, ProtStage DEF PartialLevels
<1>5. CASE DynamicPartial
  <2>1. \/ \E to \in Stages : GoTo(to)
        \/ Send(Request("pp", PartialVolume(gv.rule.vol), 0, 0, 0))
    BY <1>5 DEF DynamicPartial, Stages
  <2> QED
    BY <1>5, <2>1, ProtStage, RequestLevels DEF DynamicPartial, Send
<1>6. CASE BreakEven
  <2>1. CASE GoTo("idle")
    BY <1>6, <2>1, ProtStage DEF BreakEven, Stages
  <2>2. CASE /\ seen' = [seen EXCEPT !.sl = sl, !.tp = tp] /\ Improves
             /\ req' = Request("be", 0, inp.beOff, tp, 0) /\ at' = at
    <3>1. seen'.sl = sl /\ seen'.tp = tp
      BY <1>t, <2>2 DEF Readings
    <3>2. req'.kind = "be" /\ req'.sl = inp.beOff /\ req'.tp = tp
      BY <2>2, RequestLevels
    <3>3. inp.beOff > sl /\ inp.beOff \in Int
      BY <2>2, InputTypes DEF Improves
    <3>4. tp # NoTP => tp \in tp .. NoTP - 1
      <4>1. tp # NoTP => tp < NoTP
        BY <1>t, Targets DEF ProtInv
      <4> QED
        BY <1>t, <4>1, Numbers DEF NoTP
    <3>5. req'.sl >= seen'.sl
      BY <1>t, <3>1, <3>2, <3>3
    <3>6. Below(tp, faults) /\ InStage("even")
      BY <1>6 DEF ProtInv, BreakEven
    <3> QED
      BY <3>1, <3>2, <3>4, <3>5, <3>6, ProtStage
  <2> QED
    BY <1>6, <2>1, <2>2 DEF BreakEven
<1>7. CASE Resume
  <2>1. seen'.tp = seen.tp \/ seen' = Unseen
    BY <1>t, <1>7 DEF Resume, Readings
  <2>2. Below(seen'.tp, faults)
    BY <1>t, <2>1, NothingBelow DEF ProtInv
  <2>3. req'.kind = "none" /\ gain' = gain /\ tp' = tp /\ faults' = faults
    BY <1>7, Nothing DEF Resume, position
  <2> QED
    BY <2>2, <2>3 DEF ProtInv
<1>8. ASSUME NEW r, Task(r), r.kind \notin Closings \cup {"none"} => Below(r.tp, faults'),
             r.kind \in {"close", "modify"} \/
                 (r.kind = "roll" /\ r.sl >= sl /\ r.tp \in tp .. NoTP - 1)
      PROVE  ProtInv'
  <2>1. seen'.sl = sl /\ seen'.tp = tp
    BY <1>t, <1>8 DEF Task, Readings
  <2>2. gain' = gain /\ tp' = tp /\ req' = r /\ Fault
    BY <1>8 DEF Task, position
  <2>3. Below(tp, faults')
    BY <2>2, FaultKeepsBelow
  <2> QED
    BY <1>8, <2>1, <2>2, <2>3 DEF ProtInv
<1>9. CASE Tasks
  <2>1. CASE ExecuteCloseTask
    BY <1>8, <2>1, RequestLevels DEF ExecuteCloseTask, Closings
  <2>2. ASSUME NEW level \in Stops, ExecuteModifyTask(level)
        PROVE  ProtInv'
    <3>1. Fault
      BY <2>2 DEF ExecuteModifyTask, Task
    <3>2. Below(tp, faults') /\ faults' \in 0..MaxFaults
      BY <3>1, FaultKeepsBelow
    <3>3. Below(level, faults')
      <4>1. level + RollStep * MaxFaults < Far /\ level \in Int
        BY FarAssumption, Numbers
      <4> QED
        BY <3>2, <4>1, Targets
    <3> QED
      BY <1>8, <2>2, <3>2, <3>3, RequestLevels DEF ExecuteModifyTask
  <2>3. CASE ExecuteTpRollTask
    <3>1. Fault /\ tp # NoTP /\ Task(Request("roll", 0, sl, tp + RollStep, 0))
      BY <2>3 DEF ExecuteTpRollTask, Task
    <3>2. /\ Below(tp + RollStep, faults + 1) /\ faults' = faults + 1
          /\ faults + 1 \in 0..MaxFaults
      <4>1. faults + 1 <= MaxFaults /\ faults' = faults + 1
        BY <1>t, <3>1, Numbers DEF Fault
      <4> QED
        BY <1>t, <3>1, <4>1, Targets, Numbers DEF ProtInv
    <3>3. tp < NoTP /\ RollStep \in Nat /\ Far \in Nat
      BY <1>t, <3>1, Numbers, Targets DEF ProtInv
    <3>4. tp + RollStep < NoTP
      <4>1. tp + RollStep + Room(faults + 1) < NoTP
        <5>1. tp + Room(faults) < NoTP
          BY <3>1 DEF ProtInv, Below
        <5>2. Room(faults) = Room(faults + 1) + RollStep
          BY <1>t, <3>2, RoomFacts, Numbers
        <5>3. Room(faults + 1) \in Nat
          BY <3>2, RoomFacts
        <5> QED
          BY <1>t, <3>3, <5>1, <5>2, <5>3
      <4>2. Room(faults + 1) \in Nat
        BY <3>2, RoomFacts
      <4> QED
        BY <1>t, <3>3, <4>1, <4>2 DEF NoTP
    <3>5. tp + RollStep \in tp .. NoTP - 1
      BY <1>t, <3>3, <3>4 DEF NoTP
    <3>6. sl >= sl
      BY <1>t
    <3> DEFINE r == Request("roll", 0, sl, tp + RollStep, 0)
    <3>7. r.kind = "roll" /\ r.sl = sl /\ r.tp = tp + RollStep
      BY RequestLevels
    <3>8. Task(r)
      BY <3>1
    <3> HIDE DEF r
    <3> QED
      BY <1>8, <3>2, <3>5, <3>6, <3>7, <3>8
  <2>4. ASSUME NEW rule \in Rules, ExecutePartialTask(rule)
        PROVE  ProtInv'
    <3>1. Fault /\ gain' = gain /\ tp' = tp /\ seen' = seen /\ req' = req /\ req.kind = "none"
      BY <2>4, Nothing DEF ExecutePartialTask, position, TypeOK
    <3> QED
      BY <3>1, FaultKeepsBelow DEF ProtInv
  <2> QED
    BY <1>9, <2>1, <2>2, <2>3, <2>4 DEF Tasks
<1>10. ASSUME Asked, tp' = tp \/ Act, faults' = faults \/ Fault
       PROVE  ProtInv'
  <2>1. gain' = gain /\ req' = req /\ seen' = seen /\ req.kind # "none"
    BY <1>10 DEF Asked
  <2>2. tp' = tp \/ (req.kind \notin Closings /\ tp' = req.tp)
    BY <1>10 DEF Act
  <2>3. /\ Below(tp, faults') /\ Below(seen.tp, faults')
        /\ req.kind \notin Closings \cup {"none"} => Below(req.tp, faults')
    BY <1>10, FaultKeepsBelow DEF ProtInv
  <2> QED
    BY <2>1, <2>2, <2>3 DEF ProtInv
<1>11. CASE Accept \/ Refuse \/ Lose
  <2>1. Asked /\ (tp' = tp \/ Act) /\ (faults' = faults \/ Fault)
    BY <1>11 DEF Accept, Refuse, Lose, position
  <2> QED
    BY <1>10, <2>1
<1>12. CASE PriceMove
  <2>1. /\ gain' \in Lowest..Highest /\ tp' = tp /\ seen' = seen /\ req' = req
        /\ faults' = faults \/ Fault
    BY <1>12 DEF PriceMove
  <2> QED
    BY <2>1, FaultKeepsBelow DEF ProtInv
<1>13. CASE OperatorTrade
  <2>1. gain' = gain /\ tp' = tp /\ seen' = seen /\ req' = req /\ Fault
    BY <1>13 DEF OperatorTrade
  <2> QED
    BY <2>1, FaultKeepsBelow DEF ProtInv
<1>14. CASE Crash
  <2>1. gain' = gain /\ tp' = tp /\ seen' = Unseen /\ req'.kind = "none" /\ Fault
    BY <1>14, Nothing DEF Crash, position
  <2>2. Below(Unseen.tp, faults') /\ Below(tp, faults')
    BY <2>1, FaultKeepsBelow, NothingBelow
  <2> QED
    BY <2>1, <2>2 DEF ProtInv
<1>15. ASSUME NEW over \in {{"rr", "rp", "pp"}, Throttles}, Lapse(over)
       PROVE  ProtInv'
  BY <1>15 DEF Lapse, ProtInv, position
<1>16. CASE UNCHANGED vars
  BY <1>16 DEF vars, ProtInv, position
<1> QED
  BY <1>1, <1>2, <1>3, <1>4, <1>5, <1>6, <1>7, <1>9, <1>11, <1>12, <1>13, <1>14, <1>15,
     <1>16 DEF Next, Manage

\* Only the broker's answer to a request changes the position and the answer at once.
LEMMA KeepStep ==
    ASSUME TypeOK, ProtInv, [Next]_vars, req.kind \in {"protect", "be", "roll"},
           answer' # answer, position' # position
    PROVE  sl' >= seen.sl /\ (seen.tp # NoTP => tp' \in seen.tp .. NoTP - 1)
<1>1. Accept \/ Lose
  <2>1. ASSUME Begin \/ Protect \/ FullClose \/ PartialLevels \/ DynamicPartial
                     \/ BreakEven \/ Resume
        PROVE  position' = position
    BY <2>1 DEF Begin, Protect, FullClose, PartialLevels, DynamicPartial, BreakEven,
                Resume, InStage
  <2>2. ASSUME Tasks PROVE position' = position
    BY <2>2 DEF Tasks, ExecuteCloseTask, ExecuteModifyTask, ExecuteTpRollTask,
                ExecutePartialTask, Task
  <2>3. ASSUME Refuse \/ Crash PROVE position' = position
    BY <2>3 DEF Refuse, Crash
  <2>4. ASSUME PriceMove \/ OperatorTrade PROVE answer' = answer
    BY <2>4 DEF PriceMove, OperatorTrade
  <2>5. ASSUME NEW over \in {{"rr", "rp", "pp"}, Throttles}, Lapse(over)
        PROVE  position' = position
    BY <2>5 DEF Lapse
  <2>6. ASSUME UNCHANGED vars PROVE position' = position
    BY <2>6 DEF vars
  <2> QED
    BY <2>1, <2>2, <2>3, <2>4, <2>5, <2>6 DEF Next, Manage
<1>2. Act
  BY <1>1 DEF Accept, Lose, position
<1>3. sl' = req.sl /\ tp' = req.tp
  BY <1>2 DEF Act, Closings
<1> QED
  BY <1>3 DEF ProtInv

\* Whatever the broker executes for the manager, the stop is no looser than the one
\* read before the request and a target that was read is not taken away.
THEOREM ProtectionIsKeptHolds == Spec => ProtectionIsKept
<1>1. Init => ProtInv
  <2>1. ASSUME Init PROVE Below(tp, 0)
    <3>1. tp = NoTP \/ (tp \in Int /\ tp + RollStep * MaxFaults < Far)
      BY <2>1, FarAssumption, Numbers DEF Init
    <3>2. 0 \in 0..MaxFaults /\ NoTP \in Int
      BY Numbers DEF NoTP
    <3> QED
      BY <3>1, <3>2, Targets
  <2>2. ASSUME Init PROVE Below(seen.tp, 0) /\ req.kind = "none"
    BY <2>2, NothingBelow, Numbers DEF Init
  <2> QED
    BY <2>1, <2>2 DEF Init, ProtInv
<1>2. ASSUME TypeOK, ProtInv, [Next]_vars
      PROVE  (req.kind \in {"protect", "be", "roll"} /\ answer' # answer
                  /\ position' # position) =>
             (sl' >= seen.sl /\ (seen.tp # NoTP => tp' \in seen.tp .. NoTP - 1))
  BY <1>2, KeepStep
<1> QED
  BY <1>1, <1>2, TypeCorrect, ProtStep, PTL DEF Spec, ProtectionIsKept
=============================================================================

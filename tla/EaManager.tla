----------------------------- MODULE EaManager -----------------------------
(***************************************************************************)
(* The position manager of mt5/OAK_Cloud_Manager_EA.mq5: ManageAccount on  *)
(* every tick, timer and trade transaction, and the mailbox actions that   *)
(* touch open positions (close, modify, partial, tp_roll).                 *)
(*                                                                         *)
(* Positions share nothing but the EA's one thread, and what is remembered *)
(* of each is a record of terminal Global Variables under its identifier:  *)
(* the model follows one position.  A pass reads the position once and     *)
(* then works through its stages on what it read; every request blocks the *)
(* EA in OrderSend while price, operator and broker go on.                 *)
(*                                                                         *)
(* Prices are points of gain from the open price, in the direction of the  *)
(* position, so that BUY and SELL are one case.  Volumes are broker steps. *)
(***************************************************************************)
EXTENDS Integers, Sequences

CONSTANTS
    Inputs,     \* settings of the EA, records: see InputsAssumption
    Volumes,    \* volumes a position may be opened with
    Lowest,     \* the gain moves in Lowest..Highest
    Highest,
    MinVol,     \* the broker's minimum volume
    Dist,       \* stops/freeze distance of the broker
    RollStep,   \* ScheduledTpRollStepPrice
    Rules,      \* dynamic partials an operator may arm: [mode, reach, vol]
    Stops,      \* stop and target levels an operator may set
    Far,        \* further than any price: no stop is -Far, no target is Far
    MaxFaults   \* bound on crashes, bad answers, slippage and operator trades

NoRule == [mode |-> "none", reach |-> 0, vol |-> 0]

ASSUME InputsAssumption ==
    /\ \A i \in Inputs : /\ i.levels \in Seq(Nat) /\ i.pcts \in Seq(Nat)
                         /\ i.closeAt \in Nat /\ i.beAt \in Nat /\ i.beOff \in Int
                         /\ i.attach \in BOOLEAN /\ i.defSL \in Nat /\ i.defTP \in Nat
    /\ Volumes \subseteq Nat \ {0}
    /\ Rules \subseteq [mode : {"profit", "price"}, reach : Int, vol : Nat \ {0}]
    /\ Lowest \in Int /\ Highest \in Int /\ Stops \subseteq Int
    /\ MinVol \in Nat \ {0} /\ Dist \in Nat /\ RollStep \in Nat \ {0}
    /\ Far \in Nat /\ MaxFaults \in Nat

\* Far stands for "none": no default, and no target however often it is rolled,
\* comes to be a price that far away.
ASSUME FarAssumption ==
    /\ RollStep * MaxFaults < Far
    /\ \A t \in Stops : t + RollStep * MaxFaults < Far
    /\ \A i \in Inputs : /\ i.defTP + RollStep * MaxFaults < Far
                         /\ i.defSL <= Far /\ -Far <= i.beOff
    /\ -Far < -Dist /\ -Far < Lowest - Dist

VARIABLES
    inp,      \* the settings the EA was attached with
    vol,      \* volume open at the broker, 0 once closed
    sl, tp,   \* stop and target at the broker
    gain,     \* the price
    gv,       \* the position's Global Variables
    at,       \* stage of the pass, or the task the EA is in
    seen,     \* what the pass read when it selected the position
    req,      \* the request the EA is blocked on
    answer,   \* what OrderSend returned
    first,    \* risk recorded first (never read)
    cuts,     \* level, 0 for the rule armed: executed closes (never read)
    unsure,   \* executed requests the EA has no answer to (never read)
    forgot,   \* has a crash lost an answer or Global Variables? (never read)
    faults

position == <<vol, sl, tp>>
ghosts   == <<first, cuts, unsure, forgot>>
vars     == <<inp, position, gain, gv, at, seen, req, answer, ghosts, faults>>

-----------------------------------------------------------------------------
NoSL == -Far
NoTP == Far
Abs(n) == IF n < 0 THEN -n ELSE n
Least(a, b) == IF a < b THEN a ELSE b

Levels == 1..Len(inp.levels)
Throttles == {"protect", "rr", "rp", "pp", "be"}
Closings  == {"rr", "rp", "pp", "close"}
Kinds     == Throttles \cup {"close", "modify", "roll"}
Stages    == {"idle", "protect", "full", "levels", "dynamic", "even", "task"}

NoReq  == [kind |-> "none", vol |-> 0, sl |-> 0, tp |-> 0, level |-> 0]
Fresh  == [risk |-> 0, orig |-> 0, mask |-> {}, rrDone |-> FALSE, be |-> FALSE,
           rule |-> NoRule, tried |-> {}]
Unseen == [gain |-> 0, vol |-> 0, sl |-> 0, tp |-> 0, risk |-> 0]

\* One more crash, bad answer, price move under a request or operator trade.
Fault == faults < MaxFaults /\ faults' = faults + 1

Memories == [risk : Nat, orig : Nat, mask : SUBSET Levels, rrDone : BOOLEAN,
             be : BOOLEAN, rule : Rules \cup {NoRule}, tried : SUBSET Throttles]
Readings == [gain : Int, vol : Nat, sl : Int, tp : Int, risk : Nat]
Requests == [kind : Kinds \cup {"none"}, vol : Nat, sl : Int, tp : Int,
             level : Levels \cup {0}]

TypeOK ==
    /\ inp \in Inputs
    /\ vol \in Nat /\ sl \in Int /\ tp \in Int /\ gain \in Int
    /\ gv \in Memories /\ at \in Stages /\ seen \in Readings /\ req \in Requests
    /\ answer \in {"none", "yes", "no"}
    /\ req.kind = "none" => answer = "none"
    /\ req.kind = "rp" => req.level # 0
    /\ at = "idle" => req = NoReq /\ seen = Unseen
    /\ first \in Nat /\ cuts \in [Levels \cup {0} -> Nat] /\ unsure \in Nat
    /\ forgot \in BOOLEAN /\ faults \in 0..MaxFaults

Init ==
    /\ inp \in Inputs /\ vol \in Volumes
    /\ sl \in {NoSL} \cup {s \in Stops : s < 0}
    /\ tp \in {NoTP} \cup {t \in Stops : t > 0}
    /\ gain = 0 /\ gv = Fresh /\ at = "idle" /\ seen = Unseen
    /\ req = NoReq /\ answer = "none"
    /\ first = 0 /\ cuts = [l \in Levels \cup {0} |-> 0] /\ unsure = 0 /\ forgot = FALSE
    /\ faults = 0

-----------------------------------------------------------------------------
(* What the broker accepts, and what the EA computes *)

AllowsSL(s) == s = NoSL \/ s <= gain - Dist
AllowsTP(t) == t = NoTP \/ t >= gain + Dist
NearestSL   == gain - Dist - 1

\* Mutants, here and below: a plausible bug in the definition that follows.
DefaultStopOnlyIfAllowed ==
    LET wanted == IF gv.be THEN inp.beOff ELSE -inp.defSL
    IN  IF AllowsSL(wanted) THEN wanted ELSE NoSL

\* EnsureSelectedProtection: stop and target for a position that lacks them.
DefaultStop ==
    LET wanted == IF gv.be THEN inp.beOff ELSE -inp.defSL
    IN  IF AllowsSL(wanted) THEN wanted ELSE NearestSL
StopToSet ==
    IF seen.sl = NoSL /\ inp.defSL > 0 THEN DefaultStop ELSE seen.sl
TargetToSet ==
    IF seen.tp = NoTP /\ inp.defTP > 0 /\ AllowsTP(inp.defTP)
    THEN inp.defTP ELSE seen.tp

\* Is a threshold of n R reached, by the price and the risk the pass read?
Reached(n) == seen.risk > 0 /\ seen.gain >= n * seen.risk

PercentOf(l) == inp.pcts[Least(l, Len(inp.pcts))]

\* Levels the price has passed and the mask does not have.
DueLevels ==
    IF inp.pcts = <<>> THEN {}
    ELSE {l \in Levels : l \notin gv.mask /\ Reached(inp.levels[l])}
DueCuts   == {l \in DueLevels : PercentOf(l) > 0}
FirstCuts == {l \in DueCuts : \A k \in DueCuts : l <= k}
Before(l) == {k \in DueLevels : k < l}

LevelVolume(l) ==
    ((IF Len(inp.pcts) > 1 THEN gv.orig ELSE seen.vol) * PercentOf(l)) \div 100

\* ClosePositionVolume keeping the minimum: what is sent, 0 when nothing is.
PartialVolume(wanted) ==
    LET volume == Least(wanted, vol - MinVol)
    IN  IF vol <= MinVol \/ volume < MinVol THEN 0 ELSE volume

-----------------------------------------------------------------------------
(* One pass of ManageSelectedPosition, stage by stage *)

InStage(stage) ==
    /\ at = stage /\ req = NoReq
    /\ UNCHANGED <<inp, position, gain, answer, ghosts, faults>>

GoTo(stage) ==
    at' = stage /\ seen' = (IF stage = "idle" THEN Unseen ELSE seen) /\ UNCHANGED req
Send(r)     == req' = r /\ UNCHANGED <<at, seen>>
Request(kind, volume, s, t, l) ==
    [kind |-> kind, vol |-> volume, sl |-> s, tp |-> t, level |-> l]

\* AttemptThrottle, the last condition of its && chain.
MayTry(k)  == k \notin gv.tried
Tried(k)   == gv.tried \cup {k}

\* The risk of a position never seen before: its stop, or the default.
FirstRisk == IF sl # NoSL THEN Abs(sl) ELSE inp.defSL

RiskOfTheStop == FirstRisk

Risk == IF gv.risk > 0 THEN gv.risk ELSE FirstRisk

Begin ==
    /\ at = "idle" /\ vol > 0
    /\ gv' = [gv EXCEPT !.risk = Risk, !.orig = IF @ = 0 THEN vol ELSE @]
    /\ seen' = [gain |-> gain, vol |-> vol, sl |-> sl, tp |-> tp, risk |-> Risk]
    /\ first' = IF first = 0 THEN Risk ELSE first
    /\ at' = "protect"
    /\ UNCHANGED <<inp, position, gain, req, answer, cuts, unsure, forgot, faults>>

\* EnsureSelectedProtection.
Protect ==
    LET need == /\ inp.attach
                /\ (seen.sl = NoSL /\ StopToSet # NoSL) \/ (seen.tp = NoTP /\ TargetToSet # NoTP)
    IN  /\ InStage("protect")
        /\ \/ /\ need /\ MayTry("protect")
              /\ gv' = [gv EXCEPT !.tried = Tried("protect")]
              /\ IF vol > 0
                 THEN Send(Request("protect", 0, StopToSet, TargetToSet, 0))
                 ELSE GoTo("full")
           \/ /\ ~(need /\ MayTry("protect"))
              /\ gv' = gv /\ GoTo("full")

\* Full close at InpCloseAtR; a throttled one falls through to the partials.
FullClose ==
    LET due == inp.closeAt > 0 /\ Reached(inp.closeAt) /\ ~gv.rrDone /\ MayTry("rr")
    IN  /\ InStage("full")
        /\ \/ /\ due /\ vol > 0
              /\ gv' = [gv EXCEPT !.tried = Tried("rr")]
              /\ Send(Request("rr", vol, 0, 0, 0))
           \/ /\ due /\ vol = 0
              /\ gv' = [gv EXCEPT !.tried = Tried("rr"), !.rrDone = TRUE]
              /\ GoTo("idle")
           \/ ~due /\ gv' = gv /\ GoTo("levels")

\* The R levels in order: placeholders are marked on the way to the first level
\* that asks for a volume, and that one is the last, sent or not.
PartialLevels ==
    /\ InStage("levels")
    /\ \/ /\ DueCuts = {}
          /\ gv' = [gv EXCEPT !.mask = @ \cup DueLevels]
          /\ GoTo("dynamic")
       \/ \E l \in FirstCuts :
            LET volume == PartialVolume(LevelVolume(l))
                marked == gv.mask \cup Before(l)
            IN  \/ /\ ~MayTry("rp")
                   /\ gv' = [gv EXCEPT !.mask = marked]
                   /\ GoTo("dynamic")
                \/ /\ MayTry("rp") /\ vol = 0
                   /\ gv' = [gv EXCEPT !.mask = marked \cup {l}, !.tried = Tried("rp")]
                   /\ GoTo("idle")
                \/ /\ MayTry("rp") /\ vol > 0
                   /\ gv' = [gv EXCEPT !.mask = marked, !.tried = Tried("rp")]
                   /\ IF volume > 0
                      THEN Send(Request("rp", volume, 0, 0, l))
                      ELSE GoTo("dynamic")

\* The rule a partial task armed, on a fresh reading of the position.
DynamicPartial ==
    LET rule == gv.rule
        hit == /\ rule # NoRule /\ vol > 0 /\ MayTry("pp")
               /\ IF rule.mode = "price" THEN gain >= rule.reach ELSE gain * vol >= rule.reach
        volume == PartialVolume(rule.vol)
    IN  /\ InStage("dynamic")
        /\ gv' = IF hit THEN [gv EXCEPT !.tried = Tried("pp")] ELSE gv
        /\ IF hit /\ volume > 0
           THEN Send(Request("pp", volume, 0, 0, 0))
           ELSE GoTo("even")

ImprovesAlways == TRUE

Improves == inp.beOff > sl

\* Automatic break-even: moved, found better already, or not allowed yet.
BreakEven ==
    LET due == inp.beAt > 0 /\ Reached(inp.beAt) /\ ~gv.be /\ MayTry("be")
    IN  /\ InStage("even")
        /\ \/ /\ due /\ vol > 0 /\ Improves /\ AllowsSL(inp.beOff)
              /\ gv' = [gv EXCEPT !.tried = Tried("be")]
              /\ seen' = [seen EXCEPT !.sl = sl, !.tp = tp]
              /\ req' = Request("be", 0, inp.beOff, tp, 0) /\ at' = at
           \/ /\ due /\ (vol = 0 \/ (Improves /\ ~AllowsSL(inp.beOff)))
              /\ gv' = [gv EXCEPT !.tried = Tried("be")]
              /\ GoTo("idle")
           \/ /\ due /\ vol > 0 /\ ~Improves
              /\ gv' = [gv EXCEPT !.tried = Tried("be"), !.be = TRUE]
              /\ GoTo("idle")
           \/ ~due /\ gv' = gv /\ GoTo("idle")

-----------------------------------------------------------------------------
(* What the EA does with the answer: yes is RetcodeDone, no is everything else. *)
(* A success is a success whatever part of the volume the broker executed.      *)

AfterSend(kind, ok) ==
    CASE kind = "protect"        -> "full"
      [] kind = "rr"             -> "idle"
      [] kind = "rp"             -> IF ok /\ vol = 0 THEN "idle" ELSE "dynamic"
      [] kind = "pp"             -> IF ok /\ vol = 0 THEN "idle" ELSE "even"
      [] OTHER                   -> "idle"

RememberedBeforeTheMask(kind) ==
    CASE kind = "rr" -> [gv EXCEPT !.rrDone = TRUE]
      [] kind = "pp" -> [gv EXCEPT !.rule = NoRule]
      [] kind = "be" -> [gv EXCEPT !.be = TRUE]
      [] OTHER       -> gv

Remembered(kind) ==
    CASE kind = "rr" -> [gv EXCEPT !.rrDone = TRUE]
      [] kind = "rp" -> [gv EXCEPT !.mask = @ \cup {req.level}]
      [] kind = "pp" -> [gv EXCEPT !.rule = NoRule]
      [] kind = "be" -> [gv EXCEPT !.be = TRUE]
      [] OTHER       -> gv

Resume ==
    /\ answer # "none"
    /\ gv' = IF answer = "yes" THEN Remembered(req.kind) ELSE gv
    /\ at' = AfterSend(req.kind, answer = "yes")
    /\ seen' = IF at' = "idle" THEN Unseen
               ELSE IF req.kind = "rp" /\ answer = "yes" THEN [seen EXCEPT !.vol = vol] ELSE seen
    /\ req' = NoReq /\ answer' = "none"
    /\ UNCHANGED <<inp, position, gain, ghosts, faults>>

-----------------------------------------------------------------------------
(* Mailbox tasks, executed between two passes *)

Task(r) ==
    /\ at = "idle" /\ vol > 0
    /\ at' = "task" /\ req' = r
    /\ seen' = [seen EXCEPT !.sl = sl, !.tp = tp]
    /\ Fault
    /\ UNCHANGED <<inp, position, gain, gv, answer, ghosts>>

ExecuteCloseTask == Task(Request("close", vol, 0, 0, 0))

ExecuteModifyTask(level) ==
    \/ Task(Request("modify", 0, level, tp, 0))
    \/ Task(Request("modify", 0, sl, level, 0))

\* RollSameDirectionTakeProfit: the target one step further, the stop as it is.
ExecuteTpRollTask ==
    /\ tp # NoTP /\ AllowsTP(tp + RollStep)
    /\ Task(Request("roll", 0, sl, tp + RollStep, 0))

ExecutePartialTask(rule) ==
    /\ at = "idle" /\ vol > 0 /\ gv.rule # rule
    /\ gv' = [gv EXCEPT !.rule = rule]
    /\ cuts' = [cuts EXCEPT ![0] = 0]
    /\ Fault
    /\ UNCHANGED <<inp, position, gain, at, seen, req, answer, first, unsure, forgot>>

-----------------------------------------------------------------------------
(* The broker *)

CanAct ==
    /\ vol > 0
    /\ IF req.kind \in Closings THEN req.vol <= vol ELSE AllowsSL(req.sl) /\ AllowsTP(req.tp)

\* The request is executed; an order to close may be filled in part.
Act ==
    /\ CanAct
    /\ \/ /\ req.kind \in Closings
          /\ \E filled \in 1..req.vol : vol' = vol - filled
          /\ UNCHANGED <<sl, tp>>
       \/ /\ req.kind \notin Closings
          /\ sl' = req.sl /\ tp' = req.tp /\ vol' = vol
    /\ cuts' = IF req.kind \in {"rp", "pp"} THEN [cuts EXCEPT ![req.level] = @ + 1] ELSE cuts

Asked == req.kind # "none" /\ answer = "none" /\ UNCHANGED <<inp, gain, gv, at, seen, req>>

Accept ==
    Asked /\ Act /\ answer' = "yes" /\ UNCHANGED <<first, unsure, forgot, faults>>

\* A refusal, after the other filling modes of SendTradeRequest were refused too.
Refuse ==
    /\ Asked /\ answer' = "no"
    /\ IF CanAct THEN Fault ELSE faults' = faults
    /\ UNCHANGED <<position, ghosts>>

\* OrderSend fails in transport: executed all the same, or not.
Lose ==
    /\ Asked /\ answer' = "no" /\ Fault
    /\ \/ Act /\ unsure' = unsure + 1
       \/ UNCHANGED <<position, cuts, unsure>>
    /\ UNCHANGED <<first, forgot>>

-----------------------------------------------------------------------------
(* Price, operator, time and crashes *)

\* The price moves by a point; a stop or target it meets closes the position.
PriceMove ==
    /\ vol > 0
    /\ gain' \in {gain - 1, gain + 1} \cap Lowest..Highest
    /\ vol' = IF gain' <= sl \/ gain' >= tp THEN 0 ELSE vol
    /\ IF req = NoReq THEN faults' = faults ELSE Fault
    /\ UNCHANGED <<inp, sl, tp, gv, at, seen, req, answer, ghosts>>

\* The operator trades by hand: closes a part or all, moves or removes the stop.
OperatorTrade ==
    /\ vol > 0 /\ Fault
    /\ \/ vol' \in 0..(vol - 1) /\ sl' = sl
       \/ sl' \in {s \in Stops \cup {NoSL} : AllowsSL(s)} \ {sl} /\ vol' = vol
    /\ UNCHANGED <<inp, tp, gain, gv, at, seen, req, answer, ghosts>>

\* Seconds pass between two passes: the throttles of 5 s are over, or all.
Lapse(over) ==
    /\ at = "idle" /\ gv.tried \cap over # {}
    /\ gv' = [gv EXCEPT !.tried = @ \ over]
    /\ UNCHANGED <<inp, position, gain, at, seen, req, answer, ghosts, faults>>

\* The EA is removed or the terminal ends.  Global Variables are on disk when the
\* terminal was closed in order; the EA never flushes them, so a crash may lose them.
Crash ==
    /\ Fault
    /\ gv' \in {gv, Fresh}
    /\ forgot' = (forgot \/ gv' # gv \/ answer = "yes")
    /\ at' = "idle" /\ req' = NoReq /\ answer' = "none"
    /\ seen' = Unseen
    /\ UNCHANGED <<inp, position, gain, first, cuts, unsure>>

-----------------------------------------------------------------------------
Tasks ==
    \/ ExecuteCloseTask
    \/ \E level \in Stops : ExecuteModifyTask(level)
    \/ ExecuteTpRollTask
    \/ \E rule \in Rules : ExecutePartialTask(rule)

Manage == Begin \/ Protect \/ FullClose \/ PartialLevels \/ DynamicPartial \/ BreakEven \/ Resume

Next ==
    \/ Manage \/ Tasks
    \/ Accept \/ Refuse \/ Lose
    \/ PriceMove \/ OperatorTrade \/ Crash
    \/ \E over \in {{"rr", "rp", "pp"}, Throttles} : Lapse(over)

Spec == Init /\ [][Next]_vars

\* Ticks and the timer keep coming, OrderSend returns, seconds pass.
FairSpec ==
    Spec /\ WF_vars(Manage) /\ WF_vars(Accept \/ Refuse)
         /\ SF_vars(Lapse(Throttles))

-----------------------------------------------------------------------------
(* Properties *)

\* mt5/README.md "There is no blind broker retry after an ambiguous transport
\* result": the close of a level, once executed, is not sent again.
EachTriggerClosesOnce == ~forgot => \A l \in DOMAIN cuts : cuts[l] <= 1

\* EA:1886 "R-based partials, persisted as a bit mask": a level, and a rule an
\* operator armed, is executed once, unless the answer to an executed close was lost
\* or a crash came between the answer and the mark, or took the mark away.
PartialOnce ==
    ~forgot => \A l \in DOMAIN cuts : cuts[l] <= 1 + unsure

\* mt5/README.md "That risk is persisted before BE moves, so moving SL to entry
\* does not redefine R": what the manager sends is due by the first risk.
ActsByFirstRisk ==
    ~forgot =>
        CASE req.kind = "rr" -> seen.gain >= inp.closeAt * first
          [] req.kind = "rp" -> seen.gain >= inp.levels[req.level] * first
          [] req.kind = "be" -> seen.gain >= inp.beAt * first
          [] OTHER           -> TRUE

\* Whatever the broker executes for the manager leaves a stop no looser than the
\* one it read before it asked, and never takes a target away that it read.
ProtectionIsKept ==
    [][(req.kind \in {"protect", "be", "roll"} /\ answer' # answer /\ position' # position) =>
           (sl' >= seen.sl /\ (seen.tp # NoTP => tp' \in seen.tp .. NoTP - 1))]_vars

\* An open position ends up with a stop, or closed: a default stop the price has
\* overtaken is replaced by the nearest one the broker takes (EA:1842).
NakedIsProtected ==
    (vol > 0 /\ sl = NoSL /\ inp.attach /\ inp.defSL > 0) ~> (vol = 0 \/ sl # NoSL)

=============================================================================

--------------------------- MODULE CTraderManager ---------------------------
(***************************************************************************)
(* The cloud's manager of a cTrader position (ctrader-account-manager.ts). *)
(*                                                                         *)
(* Every minute a request without memory runs a pass: take the account's   *)
(* lock in Redis, ask the broker for the position, load the position's     *)
(* record, and repair missing protection, close at R, close a part at the  *)
(* next R level, apply an armed partial rule, move the stop to break-even. *)
(* Each of these mutations has an entry in a ledger: "running" is written  *)
(* before the broker is called, "done" or "uncertain" behind it; an entry  *)
(* that is not "done" is never called again, but taken for done once the   *)
(* volume has dropped.                                                     *)
(*                                                                         *)
(* The broker's answer may be lost, and it may act after the request was   *)
(* given up; a pass may be stopped or fail at every await, and its lock    *)
(* may expire under it; the operator trades the position too.              *)
(*                                                                         *)
(* Prices are marks of R, 0 standing for "no quote" as well, and a pass    *)
(* may find any of them; the stop and the target are marks: none, the      *)
(* account's default, break-even, better.  The long position alone is      *)
(* modelled; a short one is its mirror image.                              *)
(***************************************************************************)
EXTENDS Naturals, Sequences, FiniteSets

CONSTANTS
    Ticks,          \* passes, and cloud requests that arm a rule
    NoTick,
    Volume,         \* volume of the position when it is opened
    MinVolume,      \* the broker's minimum and step
    Step,
    RLevels,        \* partialRLevels and partialPercents
    Percents,
    CloseAtR,       \* marks; 0 switches the rule off
    EvenAtR,
    RuleAt,         \* the armed partial: trigger and volume
    RuleVolume,
    MaxMark,
    MaxMoves,       \* operator's changes of the position
    MaxFaults       \* lost answers, failing calls, stops, lost locks

ASSUME ManagerAssumption ==
    /\ NoTick \notin Ticks /\ IsFiniteSet(Ticks)
    /\ Volume \in Nat \ {0} /\ MinVolume \in 1 .. Volume /\ Step \in Nat \ {0}
    /\ RLevels \in Seq(Nat \ {0}) /\ Percents \in Seq(1 .. 100)
    /\ Len(RLevels) > 0 => Len(Percents) \in {1, Len(RLevels)}
    /\ CloseAtR \in Nat /\ EvenAtR \in Nat /\ RuleAt \in Nat \ {0}
    /\ RuleVolume \in Nat \ {0} /\ MaxMark \in Nat
    /\ MaxMoves \in Nat /\ MaxFaults \in Nat

Stops == 0 .. 3     \* none, default, break-even, better
Takes == 0 .. 1     \* none, default
Default == 1
Even == 2
Levels == DOMAIN RLevels

VARIABLES
    pos,        \* the broker's position: volume, stop, take, lastUpdateAt
    late,       \* requests that were given up and not acted on
    rec,        \* the position's record in Redis
    ledger,     \* mutation entries in Redis
    lock,       \* the account's lock
    pc,         \* position of each pass
    phase,      \* the rule it is at
    snap,       \* the position as it knows it
    mem,        \* its copy of the record, and the record as it was loaded
    asked,      \* the operator's intent to arm the rule: waiting, a pass, settled
    cuts,       \* ghost: closes the broker has made for an entry
    raced,      \* ghost: a pass began while another one was running
    blind,      \* ghost: a pass went on from a call whose outcome it did not note
    moves, faults

broker == <<pos, late, cuts>>
redis == <<rec, ledger, lock>>
local == <<phase, snap, mem>>
ghosts == <<raced, blind>>
vars == <<broker, redis, pc, local, asked, ghosts, moves, faults>>

Phases == <<"protect", "full", "level", "rule", "even", "save">>
Inside == {t \in Ticks : pc[t] # "idle"}
Pcs == {"idle", "snapshot", "load", "create", "plan", "mark", "note", "call", "done",
        "fail", "unlock"}

Keys == {"full", "level", "rule", "even", "protect"} \X Nat \X Nat
NoEntry == [st |-> "none", pre |-> 0, req |-> 0]
Entry(key) == IF key \in DOMAIN ledger THEN ledger[key] ELSE NoEntry
Put(key, e) == ledger' = [k \in DOMAIN ledger \cup {key} |-> IF k = key THEN e ELSE ledger[k]]

NoRecord == [orig |-> 0, mask |-> {}, even |-> FALSE, rule |-> FALSE]
NoPosition == [vol |-> 0, stop |-> 0, take |-> 0, at |-> 0, mark |-> 0]

Positions == [vol : 0 .. Volume, stop : Stops, take : Takes, at : Nat]
Records == [orig : 0 .. Volume, mask : SUBSET Levels, even : BOOLEAN, rule : BOOLEAN]
Entries == [st : {"none", "running", "done", "uncertain"}, pre : Nat, req : Nat]
Requests == [key : Keys, req : Nat, stop : Stops, take : Takes]

TypeOK ==
    /\ pos \in Positions /\ late \subseteq Requests
    /\ rec \in Records
    /\ DOMAIN ledger \subseteq Keys /\ \A k \in DOMAIN ledger : ledger[k] \in Entries
    /\ lock \in Ticks \cup {NoTick}
    /\ pc \in [Ticks -> Pcs] /\ phase \in [Ticks -> 1 .. 6]
    /\ snap \in [Ticks -> [vol : 0 .. Volume, stop : Stops, take : Takes, at : Nat,
                           mark : 0 .. MaxMark]]
    /\ mem \in [Ticks -> [now : Records, was : Records]]
    /\ asked \in Ticks \cup {NoTick, "waiting"}
    /\ DOMAIN cuts \subseteq Keys /\ \A k \in DOMAIN cuts : cuts[k] \in Nat
    /\ raced \in BOOLEAN /\ blind \in BOOLEAN
    /\ moves \in 0 .. MaxMoves /\ faults \in 0 .. MaxFaults

Init ==
    /\ pos = [vol |-> Volume, stop |-> 0, take |-> Default, at |-> 0]
    /\ late = {}
    /\ rec = NoRecord /\ ledger = [k \in {} |-> NoEntry] /\ lock = NoTick
    /\ pc = [t \in Ticks |-> "idle"] /\ phase = [t \in Ticks |-> 1]
    /\ snap = [t \in Ticks |-> NoPosition]
    /\ mem = [t \in Ticks |-> [now |-> NoRecord, was |-> NoRecord]]
    /\ asked = "waiting" /\ cuts = [k \in {} |-> 0]
    /\ raced = FALSE /\ blind = FALSE /\ moves = 0 /\ faults = 0

Fault == faults < MaxFaults /\ faults' = faults + 1

-----------------------------------------------------------------------------
(* What a pass wants, from the position and the record as it knows them *)

Less(a, b) == IF a < b THEN a ELSE b
Floor(v) == (v \div Step) * Step
Percent(i) == IF i <= Len(Percents) THEN Percents[i] ELSE Percents[Len(Percents)]

\* normalizePartialCloseRaw: Math.round of the percentage, in steps.
PartialVolume(s, m, i) ==
    LET base == IF Len(Percents) > 1 THEN m.orig ELSE s.vol
        share == ((2 * base * Percent(i) + 100 * Step) \div (200 * Step)) * Step
        cut == Floor(Less(share, s.vol - MinVolume))
    IN  IF s.vol > MinVolume /\ cut >= MinVolume THEN cut ELSE 0

DueLevels(s, m) == {i \in Levels \ m.mask : s.mark >= RLevels[i]}
DueLevel(s, m) == CHOOSE i \in DueLevels(s, m) : \A j \in DueLevels(s, m) : i <= j

RuleCut(s) == IF s.vol > MinVolume THEN Less(RuleVolume, Floor(s.vol - MinVolume)) ELSE 0

Wants(p, s, m) ==
    CASE p = "protect" -> s.stop = 0 \/ s.take = 0
      [] p = "full"    -> CloseAtR > 0 /\ s.mark >= CloseAtR
      [] p = "level"   -> s.vol > MinVolume /\ DueLevels(s, m) # {}
      [] p = "rule"    -> m.rule /\ s.mark >= RuleAt /\ RuleCut(s) >= MinVolume
      [] p = "even"    -> EvenAtR > 0 /\ s.mark >= EvenAtR /\ ~m.even
      [] p = "save"    -> TRUE

\* The next rule behind the n-th that has something to do; nothing follows a close at R.
NextPhase(n, s, m) ==
    IF Phases[n] = "full" /\ Wants("full", s, m) THEN 6
    ELSE CHOOSE k \in n + 1 .. 6 : /\ Wants(Phases[k], s, m)
                                   /\ \A j \in n + 1 .. k - 1 : ~Wants(Phases[j], s, m)
FirstPhase(s, m) == IF Wants("protect", s, m) THEN 1 ELSE NextPhase(1, s, m)

At(t) == Phases[phase[t]]
IsClose(p) == p \in {"full", "level", "rule"}
CutOf(t) ==
    CASE At(t) = "full"  -> snap[t].vol
      [] At(t) = "level" -> PartialVolume(snap[t], mem[t].now, DueLevel(snap[t], mem[t].now))
      [] At(t) = "rule"  -> RuleCut(snap[t])
      [] OTHER           -> 0
KeyOf(t) ==
    CASE At(t) = "level"   -> <<"level", DueLevel(snap[t], mem[t].now), CutOf(t)>>
      [] At(t) = "protect" -> <<"protect", snap[t].at, 0>>
      [] OTHER             -> <<At(t), 0, 0>>
StopOf(t) == IF At(t) = "even" THEN Even ELSE IF snap[t].stop > 0 THEN snap[t].stop ELSE Default
TakeOf(t) == IF At(t) = "even" \/ snap[t].take > 0 THEN snap[t].take ELSE Default

\* The record when the rule at hand is settled.
Settled(t) ==
    LET m == mem[t].now IN
    CASE At(t) = "level" -> [m EXCEPT !.mask = @ \cup {DueLevel(snap[t], m)}]
      [] At(t) = "rule"  -> [m EXCEPT !.rule = FALSE]
      [] At(t) = "even"  -> [m EXCEPT !.even = TRUE]
      [] OTHER           -> m

\* The pass goes on with the next rule, with snapshot s and record m.
GoOn(t, s, m) ==
    /\ snap' = [snap EXCEPT ![t] = s]
    /\ mem' = [mem EXCEPT ![t].now = m]
    /\ phase' = [phase EXCEPT ![t] = NextPhase(@, s, m)]
    /\ pc' = [pc EXCEPT ![t] = "plan"]

Goto(t, to) == pc' = [pc EXCEPT ![t] = to]

\* The pass is through with the position.
Leave(t, to) ==
    /\ Goto(t, to)
    /\ phase' = [phase EXCEPT ![t] = 1] /\ snap' = [snap EXCEPT ![t] = NoPosition]
    /\ mem' = [mem EXCEPT ![t] = [now |-> NoRecord, was |-> NoRecord]]

-----------------------------------------------------------------------------
(* A pass *)

\* acquireAccountLock, by the manager or by an intent that arms the partial rule.
Acquire(t, arms) ==
    /\ pc[t] = "idle" /\ lock = NoTick /\ lock' = t /\ Goto(t, "snapshot")
    /\ IF arms THEN asked = "waiting" /\ asked' = t ELSE UNCHANGED asked
    /\ raced' = (raced \/ Inside # {})
    /\ UNCHANGED <<broker, rec, ledger, local, blind, moves, faults>>

\* fetchCTraderManagementSnapshot, with any price.
Snapshot(t) ==
    /\ pc[t] = "snapshot"
    /\ IF pos.vol = 0 \/ (asked = t /\ pos.vol < RuleVolume + MinVolume)
       THEN Leave(t, "unlock")
       ELSE /\ Goto(t, "load") /\ UNCHANGED <<phase, mem>>
            /\ \E mark \in 0 .. MaxMark :
                   snap' = [snap EXCEPT ![t] = [vol |-> pos.vol, stop |-> pos.stop,
                                take |-> pos.take, at |-> pos.at, mark |-> mark]]
    /\ UNCHANGED <<broker, redis, asked, ghosts, moves, faults>>

\* The record is there: the rules follow, or the intent's only write.
Begin(t, m) ==
    /\ Goto(t, "plan")
    /\ IF asked = t
       THEN /\ mem' = [mem EXCEPT ![t] = [now |-> [m EXCEPT !.rule = TRUE], was |-> m]]
            /\ phase' = [phase EXCEPT ![t] = 6]
       ELSE /\ mem' = [mem EXCEPT ![t] = [now |-> m, was |-> m]]
            /\ phase' = [phase EXCEPT ![t] = FirstPhase(snap[t], m)]

LoadState(t) ==
    /\ pc[t] = "load"
    /\ IF rec = NoRecord THEN Goto(t, "create") /\ UNCHANGED <<phase, mem>> ELSE Begin(t, rec)
    /\ UNCHANGED <<broker, redis, snap, asked, ghosts, moves, faults>>

CreateState(t) ==
    /\ pc[t] = "create"
    /\ rec' = [NoRecord EXCEPT !.orig = snap[t].vol]
    /\ Begin(t, rec')
    /\ UNCHANGED <<broker, ledger, lock, snap, asked, ghosts, moves, faults>>

\* A level whose share rounds to nothing is done; so is a stop that is good enough.
NothingToDo(t) ==
    \/ At(t) = "level" /\ CutOf(t) = 0
    \/ At(t) = "even" /\ snap[t].stop >= Even

Skip(t) ==
    /\ pc[t] = "plan" /\ At(t) # "save" /\ NothingToDo(t)
    /\ GoOn(t, snap[t], Settled(t))
    /\ UNCHANGED <<broker, redis, asked, ghosts, moves, faults>>

\* Volume that has dropped by the requested amount settles an unknown outcome.
Dropped(t, e) == IsClose(At(t)) /\ 2 * (snap[t].vol + e.req) <= 2 * e.pre + Step

ReadLedger(t) ==
    LET e == Entry(KeyOf(t)) IN
    /\ pc[t] = "plan" /\ At(t) # "save" /\ ~NothingToDo(t)
    /\ CASE e.st = "none" -> Goto(t, "note") /\ UNCHANGED local
         [] e.st = "done" -> GoOn(t, snap[t], Settled(t))
         [] OTHER -> IF Dropped(t, e) THEN Goto(t, "mark") /\ UNCHANGED local
                     ELSE GoOn(t, snap[t], mem[t].now)
    /\ UNCHANGED <<broker, redis, asked, ghosts, moves, faults>>

MarkReconciled(t) ==
    /\ pc[t] = "mark"
    /\ Put(KeyOf(t), [Entry(KeyOf(t)) EXCEPT !.st = "done"])
    /\ GoOn(t, snap[t], Settled(t))
    /\ UNCHANGED <<broker, rec, lock, asked, ghosts, moves, faults>>

EntryOf(t, st) == [st |-> st, pre |-> IF IsClose(At(t)) THEN snap[t].vol ELSE 0, req |-> CutOf(t)]

\* Mutant: a mutation whose outcome is unknown may be tried again.
NoteNothing(t) ==
    /\ pc[t] = "note" /\ Goto(t, "call")
    /\ UNCHANGED <<broker, redis, local, asked, ghosts, moves, faults>>

NoteRunning(t) ==
    /\ pc[t] = "note" /\ Goto(t, "call")
    /\ Put(KeyOf(t), EntryOf(t, "running"))
    /\ UNCHANGED <<broker, rec, lock, local, asked, ghosts, moves, faults>>

\* What the broker makes of a request: a close, or a stop and a target.
RequestOf(t) == [key |-> KeyOf(t), req |-> CutOf(t), stop |-> StopOf(t), take |-> TakeOf(t)]
Possible(q) == pos.vol > 0 /\ q.req <= pos.vol
Acts(q) ==
    /\ Possible(q)
    /\ IF IsClose(q.key[1])
       THEN /\ pos' = [pos EXCEPT !.vol = @ - q.req, !.at = @ + 1]
            /\ cuts' = [k \in DOMAIN cuts \cup {q.key} |->
                           IF k \notin DOMAIN cuts THEN 1
                           ELSE IF k = q.key THEN cuts[k] + 1 ELSE cuts[k]]
       ELSE /\ pos' = [pos EXCEPT !.stop = q.stop, !.at = @ + 1,
                                  !.take = IF q.take > 0 THEN q.take ELSE @]
            /\ UNCHANGED cuts

CallAnswered(t) ==
    /\ pc[t] = "call" /\ Acts(RequestOf(t)) /\ Goto(t, "done")
    /\ UNCHANGED <<late, redis, local, asked, ghosts, moves, faults>>

CallRefused(t) ==
    /\ pc[t] = "call" /\ Goto(t, "fail")
    /\ IF Possible(RequestOf(t)) THEN Fault ELSE UNCHANGED faults
    /\ UNCHANGED <<broker, redis, local, asked, ghosts, moves>>

\* 20 s without an execution event: the broker has acted, will act, or never will.
CallUnanswered(t) ==
    /\ pc[t] = "call" /\ Goto(t, "fail") /\ Fault
    /\ late' = late \cup {RequestOf(t)} /\ blind' = TRUE
    /\ UNCHANGED <<pos, cuts, redis, local, asked, raced, moves>>

After(t) ==
    IF IsClose(At(t)) THEN [snap[t] EXCEPT !.vol = @ - CutOf(t)]
    ELSE [snap[t] EXCEPT !.stop = StopOf(t), !.take = TakeOf(t)]

\* Mutant: the volume in hand stays what it was before the close.
MarkDoneBlindly(t) ==
    /\ pc[t] = "done" /\ Put(KeyOf(t), EntryOf(t, "done"))
    /\ GoOn(t, snap[t], Settled(t))
    /\ UNCHANGED <<broker, rec, lock, asked, ghosts, moves, faults>>

MarkDone(t) ==
    /\ pc[t] = "done" /\ Put(KeyOf(t), EntryOf(t, "done"))
    /\ GoOn(t, After(t), Settled(t))
    /\ UNCHANGED <<broker, rec, lock, asked, ghosts, moves, faults>>

\* The write of "done" is inside the try block: its failure is caught as a failed call.
MarkDoneFails(t) ==
    /\ pc[t] = "done" /\ Goto(t, "fail") /\ Fault
    /\ blind' = TRUE
    /\ UNCHANGED <<broker, redis, local, asked, raced, moves>>

MarkUncertain(t) ==
    /\ pc[t] = "fail" /\ Put(KeyOf(t), EntryOf(t, "uncertain"))
    /\ GoOn(t, snap[t], mem[t].now)
    /\ UNCHANGED <<broker, rec, lock, asked, ghosts, moves, faults>>

SaveState(t) ==
    /\ pc[t] = "plan" /\ At(t) = "save" /\ Leave(t, "unlock")
    /\ rec' = IF mem[t].now # mem[t].was THEN mem[t].now ELSE rec
    /\ UNCHANGED <<broker, ledger, lock, asked, ghosts, moves, faults>>

\* An intent to arm the rule is answered with its pass.
Over(t) == Leave(t, "idle") /\ asked' = IF asked = t THEN NoTick ELSE asked

\* releaseOwnedRedisLock compares the token; a failure is left to the lifetime.
Unlock(t) ==
    /\ pc[t] = "unlock" /\ Over(t)
    /\ \/ /\ lock' = IF lock = t THEN NoTick ELSE lock
          /\ UNCHANGED faults
       \/ /\ Fault
          /\ UNCHANGED lock
    /\ UNCHANGED <<broker, rec, ledger, ghosts, moves>>

\* A call to Redis or the snapshot throws: the pass goes straight to the release.
Throw(t) ==
    /\ pc[t] \in {"snapshot", "load", "create", "plan", "mark", "note", "fail"}
    /\ Leave(t, "unlock") /\ Fault
    /\ UNCHANGED <<broker, redis, asked, ghosts, moves>>

\* The request is stopped.
Stop(t) ==
    /\ pc[t] # "idle" /\ Over(t) /\ Fault
    /\ UNCHANGED <<broker, redis, ghosts, moves>>

-----------------------------------------------------------------------------
(* Time, the broker, the operator *)

LockExpires ==
    /\ lock # NoTick /\ lock' = NoTick
    /\ IF lock \in Inside THEN Fault ELSE UNCHANGED faults
    /\ UNCHANGED <<broker, rec, ledger, pc, local, asked, ghosts, moves>>

LateActs(q) ==
    /\ q \in late /\ Acts(q) /\ late' = late \ {q}
    /\ UNCHANGED <<redis, pc, local, asked, ghosts, moves, faults>>

LateIsDropped(q) ==
    /\ q \in late /\ late' = late \ {q}
    /\ UNCHANGED <<pos, cuts, redis, pc, local, asked, ghosts, moves, faults>>

OperatorMoves ==
    /\ moves < MaxMoves /\ moves' = moves + 1 /\ pos.vol > 0
    /\ \/ \E v \in {pos.vol - 1, 0} : pos' = [pos EXCEPT !.vol = v, !.at = @ + 1]
       \/ \E s \in {0, 3} : pos' = [pos EXCEPT !.stop = s, !.at = @ + 1]
       \/ pos' = [pos EXCEPT !.take = 0, !.at = @ + 1]
    /\ UNCHANGED <<late, cuts, redis, pc, local, asked, ghosts, faults>>

-----------------------------------------------------------------------------
Pass(t) ==
    \/ \E arms \in BOOLEAN : Acquire(t, arms)
    \/ Snapshot(t) \/ LoadState(t) \/ CreateState(t)
    \/ Skip(t) \/ ReadLedger(t) \/ MarkReconciled(t) \/ NoteRunning(t)
    \/ CallAnswered(t) \/ CallRefused(t) \/ CallUnanswered(t)
    \/ MarkDone(t) \/ MarkDoneFails(t) \/ MarkUncertain(t)
    \/ SaveState(t) \/ Unlock(t) \/ Throw(t) \/ Stop(t)

Next ==
    \/ \E t \in Ticks : Pass(t)
    \/ LockExpires \/ OperatorMoves
    \/ \E q \in late : LateActs(q) \/ LateIsDropped(q)

Spec == Init /\ [][Next]_vars

-----------------------------------------------------------------------------
\* The broker closes at most once for an entry of the ledger, whatever is lost,
\* stopped or late: only a pass that began while another was running can repeat it.
EntryClosesOnce == ~raced => \A k \in DOMAIN cuts : cuts[k] <= 1

\* Partial closes leave the minimum open, the rule's behind a level's in one pass
\* as well, unless an outcome was not noted or somebody else had a hand in it.
RunnerStays ==
    pos.vol < MinVolume =>
        \/ raced \/ blind \/ moves > 0
        \/ <<"full", 0, 0>> \in DOMAIN cuts
=============================================================================

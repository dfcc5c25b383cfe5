---------------------------- MODULE TradeNotices ----------------------------
(***************************************************************************)
(* How the operator hears of what happened to the trades.                  *)
(*                                                                         *)
(* The EA leaves one file per event in the terminals' common directory,    *)
(* written once under a name derived from the event's id                   *)
(* (EmitLocalTradeEvent).  The controller picks the files up, queues a     *)
(* text for each id it has not delivered, saves its state and only then    *)
(* removes the file (collectEaTradeEvents).  The outcome of a scheduled    *)
(* intent is queued in the same save as the intent's status                *)
(* (queueScheduledIntentNotification).  The head of the queue is sent to   *)
(* Telegram, entered among the delivered ids and saved                     *)
(* (flushTradeNotifications).                                              *)
(*                                                                         *)
(* A save may fail, an answer of Telegram may be lost after the message    *)
(* was shown, the controller may stop anywhere; it restarts from the last  *)
(* save.  saveState keeps only the newest PendingCap queued and            *)
(* DeliveredCap delivered ids.                                             *)
(***************************************************************************)
EXTENDS Naturals, Sequences

CONSTANTS
    Deals,          \* ids of events the EA emits once, deals and fills
    Moves,          \* ids it may emit again: a position's first break-even
    Intents,        \* ids of outcomes of scheduled intents
    PendingCap,     \* queued ids a save keeps (200)
    DeliveredCap,   \* delivered ids a save keeps (2000)
    MaxFaults       \* failures and interruptions in a behaviour

ASSUME NoticeAssumption ==
    /\ Deals \cap Moves = {} /\ Deals \cap Intents = {} /\ Moves \cap Intents = {}
    /\ PendingCap \in Nat \ {0} /\ DeliveredCap \in Nat \ {0} /\ MaxFaults \in Nat

Events == Deals \cup Moves
Ids == Events \cup Intents

VARIABLES
    file,       \* events with a file in the common directory
    fresh,      \* the account's heartbeat is fresh and names the account
    mem,        \* the controller's state: queue, delivered, final intents
    disk,       \* the same as last saved
    pc,         \* what the controller does: idle, collect, unlink, flush, save
    names,      \* directory entries of this pass not looked at yet
    cur,        \* the event, in a set, whose file is to be removed
    emitted,    \* ghost: deals whose file has been written
    told,       \* ghost: how often a notice was shown, capped at MaxFaults + 2
    evicted,    \* ghost: ids a save has dropped from either list
    faults

vars == <<file, fresh, mem, disk, pc, names, cur, emitted, told, evicted, faults>>

States == [pending : Seq(Ids), delivered : Seq(Ids), final : SUBSET Intents]
In(s) == {s[k] : k \in 1 .. Len(s)}
Known(s) == In(s.pending) \cup In(s.delivered)
Distinct(s) == \A i, j \in 1 .. Len(s) : s[i] = s[j] => i = j
Newest(s, n) == IF Len(s) <= n THEN s ELSE SubSeq(s, Len(s) - n + 1, Len(s))

TypeOK ==
    /\ file \subseteq Events /\ fresh \in BOOLEAN
    /\ mem \in States /\ disk \in States
    /\ pc \in {"idle", "collect", "unlink", "flush", "save"}
    /\ names \subseteq Events /\ cur \subseteq Events /\ emitted \subseteq Deals
    /\ told \in [Ids -> 0 .. MaxFaults + 2] /\ evicted \subseteq Ids
    /\ faults \in 0 .. MaxFaults

Init ==
    /\ file = {} /\ fresh = TRUE
    /\ mem = [pending |-> <<>>, delivered |-> <<>>, final |-> {}] /\ disk = mem
    /\ pc = "idle" /\ names = {} /\ cur = {} /\ emitted = {}
    /\ told = [n \in Ids |-> 0] /\ evicted = {} /\ faults = 0

-----------------------------------------------------------------------------
(* The state file *)

Trimmed(s) == [s EXCEPT !.pending = Newest(@, PendingCap), !.delivered = Newest(@, DeliveredCap)]

\* Both lists are cut in memory and written; what falls out is gone.
SaveState(s) ==
    LET t == Trimmed(s) IN
    /\ mem' = t /\ disk' = t
    /\ evicted' = evicted \cup (In(s.pending) \ In(t.pending)) \cup (In(s.delivered) \ In(t.delivered))

\* The write fails behind the cut: memory is ahead of the disk.
SaveFails(s) ==
    LET t == Trimmed(s) IN
    /\ faults < MaxFaults /\ faults' = faults + 1
    /\ mem' = t /\ disk' = disk
    /\ evicted' = evicted \cup (In(s.pending) \ In(t.pending)) \cup (In(s.delivered) \ In(t.delivered))

\* Mutant: queued again after its delivery.
QueuedUnlessWaiting(s, n) ==
    IF n \in In(s.pending) THEN s ELSE [s EXCEPT !.pending = Append(@, n)]

Queued(s, n) ==
    IF n \in Known(s) THEN s
    ELSE [s EXCEPT !.pending = Append(@, n)]

-----------------------------------------------------------------------------
(* The EA *)

\* EmitLocalTradeEvent leaves a file that is there alone.
Emit(n) ==
    /\ n \notin file /\ n \notin emitted
    /\ file' = file \cup {n}
    /\ emitted' = emitted \cup ({n} \cap Deals)
    /\ UNCHANGED <<fresh, mem, disk, pc, names, cur, told, evicted, faults>>

HeartbeatStale ==
    /\ fresh /\ faults < MaxFaults
    /\ fresh' = FALSE /\ faults' = faults + 1
    /\ UNCHANGED <<file, mem, disk, pc, names, cur, emitted, told, evicted>>

HeartbeatFresh ==
    /\ ~fresh /\ fresh' = TRUE
    /\ UNCHANGED <<file, mem, disk, pc, names, cur, emitted, told, evicted, faults>>

-----------------------------------------------------------------------------
(* The controller *)

\* A save that fails leaves the loop: the exception ends the iteration, and a
\* failed save behind a sent message ends the flush.
SaveThen(s, next) ==
    \/ SaveState(s) /\ pc' = next /\ UNCHANGED faults
    \/ SaveFails(s) /\ pc' = "idle"

\* An intent reaches its final status, or is looked at again while it is uncertain.
ReportIntent(n) ==
    /\ pc = "idle"
    /\ SaveThen(Queued([mem EXCEPT !.final = @ \cup {n}], n), "idle")
    /\ UNCHANGED <<file, fresh, names, cur, emitted, told>>

StartPass ==
    /\ pc = "idle" /\ pc' = "collect" /\ names' = file
    /\ UNCHANGED <<file, fresh, mem, disk, cur, emitted, told, evicted, faults>>

CollectDelivered(n) ==
    /\ pc = "collect" /\ n \in names /\ n \in In(mem.delivered)
    /\ names' = names \ {n} /\ file' = file \ {n}
    /\ UNCHANGED <<fresh, mem, disk, pc, cur, emitted, told, evicted, faults>>

\* Mutant: an event that cannot be assigned is thrown away.
CollectDropped(n) ==
    /\ pc = "collect" /\ n \in names /\ n \notin In(mem.delivered) /\ ~fresh
    /\ names' = names \ {n} /\ file' = file \ {n}
    /\ UNCHANGED <<fresh, mem, disk, pc, cur, emitted, told, evicted, faults>>

\* accountForTradeEvent: without a fresh heartbeat the file waits.
CollectLater(n) ==
    /\ pc = "collect" /\ n \in names /\ n \notin In(mem.delivered) /\ ~fresh
    /\ names' = names \ {n}
    /\ UNCHANGED <<file, fresh, mem, disk, pc, cur, emitted, told, evicted, faults>>

\* Mutant: the file goes before the save.
CollectUnlinked(n) ==
    /\ pc = "collect" /\ n \in names /\ n \notin In(mem.delivered) /\ fresh
    /\ SaveThen(Queued(mem, n), "collect")
    /\ names' = (IF pc' = "idle" THEN {} ELSE names \ {n}) /\ file' = file \ {n}
    /\ UNCHANGED <<cur, fresh, emitted, told>>

CollectEvent(n) ==
    /\ pc = "collect" /\ n \in names /\ n \notin In(mem.delivered) /\ fresh
    /\ SaveThen(Queued(mem, n), "unlink")
    /\ names' = IF pc' = "idle" THEN {} ELSE names \ {n}
    /\ cur' = IF pc' = "idle" THEN {} ELSE {n}
    /\ UNCHANGED <<file, fresh, emitted, told>>

Unlink ==
    /\ pc = "unlink" /\ pc' = "collect"
    /\ file' = file \ cur /\ cur' = {}
    /\ UNCHANGED <<fresh, mem, disk, names, emitted, told, evicted, faults>>

EndCollect ==
    /\ pc = "collect" /\ names = {} /\ pc' = "flush"
    /\ UNCHANGED <<file, fresh, mem, disk, names, cur, emitted, told, evicted, faults>>

EndFlush ==
    /\ pc = "flush" /\ mem.pending = <<>> /\ pc' = "idle"
    /\ UNCHANGED <<file, fresh, mem, disk, names, cur, emitted, told, evicted, faults>>

Shown(n) == [told EXCEPT ![n] = IF @ < MaxFaults + 2 THEN @ + 1 ELSE @]

Delivered(s) == [s EXCEPT !.delivered = Append(@, Head(s.pending)), !.pending = Tail(@)]

\* The head is never among the delivered (QueueIsFresh): the branch that drops
\* such a head is dead.
Send ==
    /\ pc = "flush" /\ mem.pending # <<>>
    /\ told' = Shown(Head(mem.pending))
    /\ mem' = Delivered(mem) /\ pc' = "save"
    /\ UNCHANGED <<file, fresh, disk, names, cur, emitted, evicted, faults>>

SaveSent ==
    /\ pc = "save"
    /\ SaveThen(mem, "flush")
    /\ UNCHANGED <<file, fresh, names, cur, emitted, told>>

\* The call fails; the message may have been shown all the same.
SendFails ==
    /\ pc = "flush" /\ mem.pending # <<>> /\ faults < MaxFaults
    /\ told' \in {told, Shown(Head(mem.pending))}
    /\ pc' = "idle" /\ faults' = faults + 1
    /\ UNCHANGED <<file, fresh, mem, disk, names, cur, emitted, evicted>>

\* The process stops and starts again from the last save.
Restart ==
    /\ faults < MaxFaults /\ faults' = faults + 1
    /\ mem' = disk /\ pc' = "idle" /\ names' = {} /\ cur' = {}
    /\ UNCHANGED <<file, fresh, disk, emitted, told, evicted>>

-----------------------------------------------------------------------------
Collect == \E n \in Events : CollectDelivered(n) \/ CollectLater(n) \/ CollectEvent(n)

Controller == StartPass \/ Collect \/ Unlink \/ EndCollect \/ EndFlush \/ Send \/ SaveSent

Next ==
    \/ Controller
    \/ \E n \in Intents : ReportIntent(n)
    \/ \E n \in Events : Emit(n)
    \/ HeartbeatStale \/ HeartbeatFresh
    \/ SendFails \/ Restart

Spec == Init /\ [][Next]_vars

\* The controller loops, and a terminal that lost its heartbeat writes one again.
FairSpec == Spec /\ WF_vars(Controller) /\ WF_vars(HeartbeatFresh)

-----------------------------------------------------------------------------
\* Whatever happened and was not shown yet has its file or its place in the saved
\* queue: a file is removed only behind the save that queued its event, and an
\* intent is final on disk only together with its notice.  Only a cap drops one.
NothingIsLost ==
    \A n \in (emitted \cup disk.final) \ evicted : told[n] = 0 => n \in file \cup In(disk.pending)

\* What is entered as delivered has been shown and is in the queue no more; an id
\* is queued once.  So the flush never meets a delivered head.
QueueIsFresh ==
    \A s \in {mem, disk} :
        /\ \A n \in In(s.delivered) : told[n] > 0
        /\ In(s.pending) \cap In(s.delivered) = {}
        /\ Distinct(s.pending)

\* Each further time a notice is shown has a fault of its own: a lost answer, a
\* restart or a failed save between the message and its entry.
RepeatHasACause == \A n \in Ids \ evicted : told[n] <= 1 + faults

\* Once the delivery is saved the notice is never shown again, though the EA
\* emits the same break-even again and uncertain intents are reported at every
\* pass; only an id that the cap pushed out may return.
DeliveredStaysQuiet ==
    [][\A n \in In(disk.delivered) : n \in evicted \/ told'[n] = told[n]]_vars

\* What was written or saved is shown in the end, or a cap has dropped it.
NoticeIsShown ==
    \A n \in Ids : (n \in file \/ n \in disk.final) ~> (told[n] > 0 \/ n \in evicted)

\* The inductive invariant.  Memory is ahead of the disk, never behind it, but for
\* what a cap dropped; what memory has delivered excuses one showing.
Ahead ==
    /\ Known(disk) \subseteq Known(mem) \cup evicted
    /\ In(disk.delivered) \subseteq In(mem.delivered) \cup evicted
    /\ \A s \in {mem, disk} : s.final \subseteq Known(s) \cup evicted
    /\ cur \subseteq Known(disk) \cup evicted
    /\ pc = "unlink" \/ cur = {}

EachExcused ==
    \A n \in Ids \ evicted :
        told[n] <= faults + (IF n \in In(mem.delivered) THEN 1 ELSE 0)

IInv == TypeOK /\ QueueIsFresh /\ NothingIsLost /\ Ahead /\ EachExcused
=============================================================================

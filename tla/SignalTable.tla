----------------------------- MODULE SignalTable -----------------------------
(***************************************************************************)
(* The H1 signal table: from the PC's queue of appointments through the    *)
(* route local-signal into a Redis with a backup.                          *)
(*                                                                         *)
(* The PC keeps an appointment in pendingWebSync until the route has       *)
(* accepted it, and sends the oldest one first                             *)
(* (oak-local-telegram-failover.mjs).  A request to the route takes the    *)
(* table's lock, loads the freshest copy of the table, puts the signal     *)
(* into its slot, saves, publishes and unlocks (h1-cloud-store.ts).  Every *)
(* call goes through callRedis (redis-core.ts): to the primary and, when   *)
(* it changes something, to the backup as well; a primary that does not    *)
(* answer is given up for good, by a marker in the backup.  A nightly run  *)
(* copies the primary to the backup, key by key.                           *)
(*                                                                         *)
(* The table is that of one day.  Its keys of older schemas, which are     *)
(* read until the first save, are left out, and so is the cloud's own      *)
(* writer, the webhook of a cloud that handles commands.                   *)
(***************************************************************************)
EXTENDS Naturals, Sequences, FiniteSets

CONSTANTS
    Procs,          \* processes that serve the route, one request at a time each
    Nobody, Old,    \* no owner, and the owner of a lock whose request has ended
    Slots,          \* entry blocks: numbers, in the order of the day
    Days,           \* the appointments of a day, in the order they are made
    MaxFaults       \* lost, failing and given-up calls, stops, expired locks, copying runs

Appointments == [slot : Slots, side : {"BUY", "SELL"}, legacy : Slots]

ASSUME TableAssumption ==
    /\ IsFiniteSet(Procs) /\ Procs \cap {Nobody, Old} = {} /\ Nobody # Old
    /\ Slots \subseteq Nat /\ IsFiniteSet(Slots) /\ Slots # {}
    /\ Days \subseteq Seq(Appointments) /\ IsFiniteSet(Days)
    /\ MaxFaults \in Nat

Ids == UNION {DOMAIN day : day \in Days}
Sides == {"none", "BUY", "SELL"}
DayTables == [Slots -> Sides]
Empty == [s \in Slots |-> "none"]
Absent == [s \in Slots |-> "absent"]    \* the key is not there

VARIABLES
    plan,       \* the appointments of the day, in their order
    made,       \* how many of them have been made
    queue,      \* pendingWebSync, and as it is in the state file
    waiting,    \* the process whose answer the PC waits for
    primary,    \* the two databases: lock, state, feed
    backup,
    marker,     \* the backup has been promoted
    away,       \* processes that do not try the primary
    req,        \* the id a process serves, 0 for none
    op,         \* the call of the request it is at
    via,        \* and the part of that call
    copy,       \* the table in its hands
    sync,       \* the copying run: the keys left, the key at hand, its value
    want,       \* ghost: what the accepted appointments make of the table
    causes,     \* ghost: what may explain a loss
    faults

redis == <<primary, backup, marker>>
pc == <<plan, made, queue, waiting>>
proc == <<away, req, op, via, copy>>
ghosts == <<want, causes>>
tableVars == <<pc, redis, proc, sync, ghosts, faults>>

Ops == {"idle", "acquire", "busy", "load", "replicas", "seed", "seedReplicas",
        "save", "publish", "release", "unwind"}
Keys == {"lock", "state", "feed"}
Stores == [lock : Procs \cup {Nobody, Old}, state : DayTables \cup {Absent}, feed : DayTables \cup {Absent}]
NoSync == [left |-> {}, key |-> "none", value |-> Nobody]

TableTypeOK ==
    /\ plan \in Days /\ made \in 0 .. Len(plan)
    /\ queue \in [memory : SUBSET Ids, file : SUBSET Ids] /\ waiting \in Procs \cup {Nobody}
    /\ primary \in Stores /\ backup \in Stores /\ marker \in BOOLEAN
    /\ away \subseteq Procs /\ req \in [Procs -> Ids \cup {0}] /\ op \in [Procs -> Ops]
    /\ via \in [Procs -> {"ask", "primary", "mirror", "promote", "backup"}]
    /\ copy \in [Procs -> DayTables \cup {Absent}] /\ want \in DayTables
    /\ causes \subseteq {"expired", "split", "behind", "late", "withdrawn", "repeated", "shrunk"}
    /\ faults \in 0 .. MaxFaults

Fault == faults < MaxFaults /\ faults' = faults + 1
Note(c) == causes' = causes \cup c
When(condition, c) == IF condition THEN {c} ELSE {}

TableInit ==
    /\ plan \in Days /\ made = 0
    /\ queue = [memory |-> {}, file |-> {}] /\ waiting = Nobody
    /\ primary = [lock |-> Nobody, state |-> Absent, feed |-> Absent] /\ backup = primary
    /\ marker = FALSE /\ away = {} /\ req = [p \in Procs |-> 0]
    /\ op = [p \in Procs |-> "idle"] /\ via = [p \in Procs |-> "ask"]
    /\ copy = [p \in Procs |-> Absent] /\ sync = NoSync
    /\ want = Empty /\ causes = {} /\ faults = 0

-----------------------------------------------------------------------------
(* The table *)

\* writeTelegramScheduledSignal: the same side at the slot of the older mapping goes.
Put(t, q) ==
    [s \in Slots |-> CASE s = q.slot -> q.side
                       [] s = q.legacy /\ s # q.slot /\ t[s] = q.side -> "none"
                       [] OTHER -> t[s]]

\* stateProgress, of one day: the last slot that is taken, then their number.
Taken(t) == {s \in Slots : t[s] # "none"}
LastSlot(t) ==
    IF Taken(t) = {} THEN 0 ELSE CHOOSE s \in Taken(t) : \A o \in Taken(t) : o <= s
Newer(t, u) ==
    \/ LastSlot(t) > LastSlot(u)
    \/ LastSlot(t) = LastSlot(u) /\ Cardinality(Taken(t)) > Cardinality(Taken(u))

\* freshestCandidate: the first of those that no other surpasses.
Better(t, u) == IF t = Absent \/ (u # Absent /\ Newer(u, t)) THEN u ELSE t
Freshest(t, u, v) == Better(Better(t, u), v)
OrEmpty(t) == IF t = Absent THEN Empty ELSE t

-----------------------------------------------------------------------------
(* The PC *)

\* A scheduled entry is queued with the state it is saved in.
Schedule ==
    /\ waiting = Nobody /\ made < Len(plan) /\ made' = made + 1
    /\ queue' = [memory |-> queue.memory \cup {made'}, file |-> queue.memory \cup {made'}]
    /\ UNCHANGED <<plan, waiting, redis, proc, sync, ghosts, faults>>

\* Deleted by the operator, or past its time: what was sent of it stays.
Withdraw(r) ==
    /\ waiting = Nobody /\ r \in queue.memory /\ Fault
    /\ queue' = [memory |-> queue.memory \ {r}, file |-> queue.memory \ {r}]
    /\ Note({"withdrawn"})
    /\ UNCHANGED <<plan, made, waiting, redis, proc, sync, want>>

\* flushWebSignalSync sends the oldest.  A lock of an earlier request is nobody's now.
Send(p) ==
    LET Left(store) == [store EXCEPT !.lock = IF @ = p THEN Old ELSE @]
    IN  /\ waiting = Nobody /\ queue.memory # {} /\ op[p] = "idle"
        /\ \E r \in queue.memory :
              /\ \A o \in queue.memory : r <= o
              /\ req' = [req EXCEPT ![p] = r]
        /\ waiting' = p /\ op' = [op EXCEPT ![p] = "acquire"]
        /\ primary' = Left(primary) /\ backup' = Left(backup)
        /\ sync' = IF sync.key = "lock" /\ sync.value = p THEN [sync EXCEPT !.value = Old] ELSE sync
        /\ UNCHANGED <<plan, made, queue, marker, away, via, copy, ghosts, faults>>

\* The request takes longer than webSyncTimeoutMs, or its answer is lost; it goes on.
PcGivesUp ==
    /\ waiting # Nobody /\ Fault /\ waiting' = Nobody
    /\ UNCHANGED <<plan, made, queue, redis, proc, sync, ghosts>>

\* The PC stops: what it has is what it saved.  A queue whose shortening was not saved
\* brings back what was accepted, and perhaps ahead of what came after it.
Restart ==
    /\ Fault /\ waiting' = Nobody /\ queue' = [queue EXCEPT !.memory = queue.file]
    /\ Note(When(\E o \in queue.file \ queue.memory : \E r \in queue.file : o < r, "repeated"))
    /\ UNCHANGED <<plan, made, redis, proc, sync, want>>

-----------------------------------------------------------------------------
(* A request *)

Inside(p) == op[p] \in {"load", "replicas", "seed", "seedReplicas", "save", "publish"}

Then(p, o, t) ==
    /\ op' = [op EXCEPT ![p] = o] /\ via' = [via EXCEPT ![p] = "ask"]
    /\ copy' = [copy EXCEPT ![p] = t]
    /\ UNCHANGED <<pc, req, want>>

\* Mutant: the PC marks an appointment as sent and forgets to take the mark back.
AnswerFailureKeepsWaiting(p, ok) ==
    LET rest == queue.memory \ {req[p]}
    IN  /\ op' = [op EXCEPT ![p] = "idle"] /\ via' = [via EXCEPT ![p] = "ask"]
        /\ copy' = [copy EXCEPT ![p] = Absent] /\ req' = [req EXCEPT ![p] = 0]
        /\ waiting' = IF waiting = p /\ ok THEN Nobody ELSE waiting
        /\ IF waiting = p /\ ok
           THEN /\ \E saved \in {rest, queue.file} : queue' = [memory |-> rest, file |-> saved]
                /\ want' = Put(want, plan[req[p]])
           ELSE UNCHANGED <<queue, want>>
        /\ UNCHANGED <<plan, made>>

\* The answer, to a PC that may no longer wait; the write of its shortened queue may fail.
Answer(p, ok) ==
    LET rest == queue.memory \ {req[p]}
    IN  /\ op' = [op EXCEPT ![p] = "idle"] /\ via' = [via EXCEPT ![p] = "ask"]
        /\ copy' = [copy EXCEPT ![p] = Absent] /\ req' = [req EXCEPT ![p] = 0]
        /\ waiting' = IF waiting = p THEN Nobody ELSE waiting
        /\ IF waiting = p /\ ok
           THEN /\ \E saved \in {rest, queue.file} : queue' = [memory |-> rest, file |-> saved]
                /\ want' = Put(want, plan[req[p]])
           ELSE UNCHANGED <<queue, want>>
        /\ UNCHANGED <<plan, made>>

\* What the call does to a store.
Apply(p, store) ==
    CASE op[p] \in {"acquire", "busy"} -> [store EXCEPT !.lock = IF @ = Nobody THEN p ELSE @]
      [] op[p] = "save" -> [store EXCEPT !.state = copy[p]]
      [] op[p] = "publish" -> [store EXCEPT !.feed = copy[p]]
      [] op[p] \in {"release", "unwind"} -> [store EXCEPT !.lock = IF @ = p THEN Nobody ELSE @]
      [] OTHER -> store

\* The call returns: store is the one that answered, free whether the lock was.
Returns(p, store, free) ==
    /\ CASE op[p] = "acquire" -> IF free THEN Then(p, "load", Absent) ELSE Answer(p, FALSE)
         [] op[p] = "load" -> Then(p, "replicas", store.state)
         [] op[p] = "seed" -> Then(p, "seedReplicas", store.feed)
         [] op[p] = "save" -> Then(p, "publish", copy[p])
         [] op[p] = "publish" -> Then(p, "release", Absent)
         [] OTHER -> Answer(p, op[p] = "release")

\* Mutant: a publication that fails is only logged.
ThrowsButPublish(p) ==
    IF op[p] \in {"acquire", "busy", "release", "unwind"} THEN Answer(p, op[p] = "release")
    ELSE Then(p, IF op[p] = "publish" THEN "release" ELSE "unwind", Absent)

\* It throws: a request that is inside unlocks, and an unlocking that fails is not noticed.
Throws(p) ==
    IF op[p] \in {"acquire", "busy", "release", "unwind"} THEN Answer(p, op[p] = "release")
    ELSE Then(p, "unwind", Absent)

Calls(p, part) == op[p] \notin {"idle", "replicas", "seedReplicas"} /\ via[p] = part
Part(p, part) == via' = [via EXCEPT ![p] = part] /\ UNCHANGED <<req, copy, want, pc>>

\* callRedis: the answer of the backup, to a lock that is taken there too, is not looked at;
\* the marker is not read by a process in its cooldown; a failing read is none.
Ask(p) ==
    /\ Calls(p, "ask")
    /\ \/ Part(p, IF p \in away \/ marker THEN "backup" ELSE "primary") /\ UNCHANGED <<causes, faults>>
       \/ p \notin away /\ marker /\ Fault /\ Part(p, "primary") /\ Note({"split"})
    /\ UNCHANGED <<redis, away, op, sync>>

Primary(p) ==
    /\ Calls(p, "primary")
    /\ primary' = Apply(p, primary)
    /\ IF op[p] \in {"load", "seed"} THEN Returns(p, primary, FALSE)
       ELSE /\ Part(p, "mirror")
            /\ op' = IF op[p] = "acquire" /\ primary.lock # Nobody THEN [op EXCEPT ![p] = "busy"] ELSE op
    /\ UNCHANGED <<backup, marker, away, sync, causes, faults>>

\* No answer of the primary, which may have acted.
PrimaryFails(p) ==
    /\ Calls(p, "primary") /\ Fault
    /\ primary' \in {primary, Apply(p, primary)}
    /\ away' = away \cup {p} /\ Part(p, "promote")
    /\ UNCHANGED <<backup, marker, op, sync, causes>>

Mirror(p) ==
    /\ Calls(p, "mirror")
    /\ \/ /\ backup' = Apply(p, backup) /\ UNCHANGED faults
          /\ Note(When(op[p] = "acquire" /\ backup.lock # Nobody, "behind"))
       \/ backup' = backup /\ Fault /\ Note({"behind"})
    /\ Returns(p, primary, TRUE)
    /\ UNCHANGED <<primary, marker, away, sync>>

\* activateSharedBackupAuthority; others may be at the primary at this moment.
Promote(p) ==
    /\ Calls(p, "promote") /\ Part(p, "backup")
    /\ \/ /\ marker' = TRUE /\ UNCHANGED faults
          /\ Note(When(\E q \in Procs \ {p} : via[q] \in {"primary", "mirror"}, "split")
                  \cup When(sync.key # "none", "behind"))
       \/ marker' = marker /\ Fault /\ Note({"split"})
    /\ UNCHANGED <<primary, backup, away, op, sync>>

Backup(p) ==
    /\ Calls(p, "backup")
    /\ \/ backup' = Apply(p, backup) /\ Returns(p, backup, backup.lock = Nobody) /\ UNCHANGED faults
       \/ backup' \in {backup, Apply(p, backup)} /\ Fault /\ Throws(p)
    /\ UNCHANGED <<primary, marker, away, sync, causes>>

\* readRedisReplicas and freshestCandidate, then the appointment is put into its slot.
Field(p, store) == IF op[p] = "seedReplicas" THEN store.feed ELSE store.state
Takes(p, u, v) ==
    LET t == Freshest(copy[p], u, v)
        placed == Put(OrEmpty(t), plan[req[p]])
    IN  IF t = Absent /\ op[p] = "replicas" THEN Then(p, "seed", Absent) /\ UNCHANGED causes
        ELSE /\ Then(p, "save", placed)
             /\ Note(When(Newer(OrEmpty(t), placed), "shrunk")
                     \cup When(waiting # p /\ req[p] \notin queue.memory, "late"))

Replicas(p) ==
    /\ op[p] \in {"replicas", "seedReplicas"}
    /\ \/ Takes(p, Field(p, primary), Field(p, backup)) /\ UNCHANGED faults
       \/ Fault /\ Takes(p, Field(p, primary), Absent)
       \/ Fault /\ Takes(p, Absent, Field(p, backup))
       \/ Fault /\ Then(p, "unwind", Absent) /\ UNCHANGED causes
    /\ UNCHANGED <<redis, away, sync>>

Step(p) ==
    Ask(p) \/ Primary(p) \/ PrimaryFails(p) \/ Mirror(p) \/ Promote(p) \/ Backup(p) \/ Replicas(p)

\* The process is stopped in the middle of a request; the PC hears of it, or waits in vain.
StopProcess(p) ==
    /\ op[p] # "idle" /\ Fault /\ Answer(p, FALSE) /\ away' = away \ {p}
    /\ UNCHANGED <<redis, sync, causes>>

\* FAILOVER_COOLDOWN_MS has passed.
CooldownEnds(p) ==
    /\ p \in away /\ away' = away \ {p}
    /\ UNCHANGED <<pc, redis, req, op, via, copy, sync, ghosts, faults>>

-----------------------------------------------------------------------------
(* The databases *)

\* H1_CLOUD_LOCK_SECONDS after it was taken, a lock is gone from both.
Expired(t) ==
    /\ t \in {primary.lock, backup.lock}
    /\ primary' = [primary EXCEPT !.lock = IF @ = t THEN Nobody ELSE @]
    /\ backup' = [backup EXCEPT !.lock = IF @ = t THEN Nobody ELSE @]
    /\ UNCHANGED <<pc, marker, proc, sync, want>>

LeftLockExpires(t) == (t \in Procs => op[t] = "idle") /\ Expired(t) /\ UNCHANGED <<causes, faults>>

HeldLockExpires(p) == op[p] # "idle" /\ Fault /\ Expired(p) /\ Note({"expired"})

\* syncRedisBackup: the marker is looked at once, before the first key.
SyncStart ==
    /\ sync = NoSync /\ ~ marker /\ Fault
    /\ sync' = [NoSync EXCEPT !.left = Keys]
    /\ UNCHANGED <<pc, redis, proc, ghosts>>

\* readPrimarySnapshot and the deletion in replaceBackupKey, as one step: a key that is
\* not there is skipped, and the other is not in the backup until it is written.
SyncTake(k) ==
    /\ sync.key = "none" /\ k \in sync.left
    /\ IF primary[k] \in {Nobody, Absent}
       THEN sync' = [sync EXCEPT !.left = @ \ {k}] /\ UNCHANGED <<backup, causes>>
       ELSE /\ sync' = [left |-> sync.left \ {k}, key |-> k, value |-> primary[k]]
            /\ backup' = [backup EXCEPT ![k] = IF k = "lock" THEN Nobody ELSE Absent]
            /\ Note(When(marker, "behind"))
    /\ UNCHANGED <<pc, primary, marker, proc, want, faults>>

\* replaceBackupKey writes what was read, whatever has been written since.
SyncWrite ==
    /\ sync.key # "none" /\ sync' = [sync EXCEPT !.key = "none", !.value = Nobody]
    /\ backup' = [backup EXCEPT ![sync.key] = sync.value]
    /\ Note(When(marker \/ primary[sync.key] # sync.value, "behind"))
    /\ UNCHANGED <<pc, primary, marker, proc, want, faults>>

SyncFails ==
    /\ sync # NoSync /\ Fault /\ sync' = NoSync
    /\ Note(When(sync.key # "none", "behind"))
    /\ UNCHANGED <<pc, redis, proc, want>>

-----------------------------------------------------------------------------
TableNext ==
    \/ Schedule \/ \E r \in Ids : Withdraw(r)
    \/ \E p \in Procs : Send(p) \/ Step(p) \/ StopProcess(p) \/ CooldownEnds(p) \/ HeldLockExpires(p)
    \/ PcGivesUp \/ Restart \/ \E t \in Procs \cup {Old} : LeftLockExpires(t)
    \/ SyncStart \/ SyncWrite \/ SyncFails \/ \E k \in Keys : SyncTake(k)

\* Fairness of the PC, of each process and of each lock's lifetime, said by what it comes
\* to: an idle PC sends what it has, a request ends, and a lock nobody holds is gone.
TableFairness ==
    /\ []<>(waiting # Nobody \/ queue.memory = {})
    /\ \A p \in Procs : []<>(op[p] = "idle")
    /\ \A t \in Procs \cup {Old} :
          []<>~(t \in {primary.lock, backup.lock} /\ (t \in Procs => op[t] = "idle"))

TableSpec == TableInit /\ [][TableNext]_tableVars
FairTableSpec == TableSpec /\ TableFairness

-----------------------------------------------------------------------------
(* Properties *)

\* At rest, what a reader loads, of the table and of the published feed, is what the
\* accepted appointments make of it: nothing accepted is undone and nothing else is there.
\* A primary that fails in any call, having acted or not, a backup that fails behind it, a
\* stopped process, a lost answer and a restarted PC are no excuse.  These are: a lock that
\* expired under its holder, processes at different databases, a backup that missed a write,
\* a late request of an appointment that is settled, a withdrawn one, an accepted one that an
\* old state file brings back ahead of a later one, and a table that gave up its last entry
\* to the older mapping: by its progress a stale copy is fresher.
AtRest ==
    /\ waiting = Nobody /\ queue.memory = {} /\ sync = NoSync
    /\ \A p \in Procs : op[p] = "idle"
Reader(f) ==
    OrEmpty(Freshest(IF marker THEN backup[f] ELSE primary[f], primary[f], backup[f]))
LossHasACause == AtRest /\ causes = {} => Reader("state") = want /\ Reader("feed") = want

\* Every appointment leaves the PC's queue, accepted or withdrawn, however a request ended
\* before: no lock and no lost answer holds it up for good.
EverySignalIsAnswered == \A r \in Ids : r <= made ~> r \notin queue.memory
=============================================================================

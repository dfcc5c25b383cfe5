--------------------------- MODULE PcTablesProofs ---------------------------
(***************************************************************************)
(* Proofs about the two tables the PC controller works with, each for any  *)
(* values of its constants.                                                *)
(*                                                                         *)
(* LocalAccounts: for any terminals, accounts, inputs, table and commands, *)
(* and whatever the operator does with the terminals.  Nothing is assumed  *)
(* of the controller's table of terminals: a command reaches what it was   *)
(* made for although the table may be wrong about everything.              *)
(*                                                                         *)
(* SignalTable: for any appointments of a day, any number of processes and *)
(* any number of faults.                                                   *)
(***************************************************************************)
EXTENDS LocalAccounts, SignalTable, FiniteSetTheorems, WellFoundedInduction, TLAPS

-----------------------------------------------------------------------------
(* The accounts of the PC's terminals (LocalAccounts) *)

\* What an intent is made of.
IsIntent(i) ==
    \E c, n, kind, label, profile, login, pid, st, ran, torn :
        i = [cmd |-> c, n |-> n, kind |-> kind, label |-> label, profile |-> profile,
             login |-> login, pid |-> pid, status |-> st, ran |-> ran, torn |-> torn]

\* Intents are intents, of commands that were taken.
Made == \A i \in intents : IsIntent(i) /\ i.cmd \in taken

\* The intents of one command for one account go to one mailbox.
Together ==
    \A i, j \in intents : i.cmd = j.cmd /\ i.login = j.login => Path(i) = Path(j)

\* One intent is out at a time, while the controller waits, and is unclaimed.
OneOut ==
    /\ \A i \in intents : i.status = "executing" => stage = "wait" /\ Path(i) \notin claims
    /\ \A i, j \in intents : i.status = "executing" /\ j.status = "executing" => i = j

\* What has acted is done, and its claim stays.
Claimed ==
    \A i \in intents : i.ran # None => i.status = "done" /\ Path(i) \in claims

IInv == Made /\ Together /\ OneOut /\ Claimed /\ ActsOnItsAccount /\ ActsOncePerAccount

-----------------------------------------------------------------------------
\* What is in hand for one account is the same whatever name led there.
LEMMA SelectedTogether ==
    ASSUME NEW a, NEW b, NEW r \in Selected(a), NEW s \in Selected(b), r.login = s.login
    PROVE  r.profile = s.profile /\ r.pid = s.pid
<1>1. ASSUME NEW x, NEW t \in Selected(x)
      PROVE  t.profile = seen[Beat(t.login)].profile /\ t.pid = seen[Beat(t.login)].pid
  BY <1>1 DEF Selected
<1> QED
  BY <1>1

\* A new intent is saved, has not acted, and goes where the selection says.
LEMMA TargetShape ==
    ASSUME NEW c, NEW i \in Targets(c)
    PROVE  /\ IsIntent(i) /\ i.cmd = c /\ i.status = "saved" /\ i.ran = None
           /\ \E name : \E r \in Selected(name) :
                 i.profile = r.profile /\ i.login = r.login /\ i.pid = r.pid
<1>1. \E n, name : \E r \in Selected(name) : i = Intents(c, n, r)
  BY DEF Targets
<1>2. PICK n, name : \E r \in Selected(name) : i = Intents(c, n, r)
  BY <1>1
<1>3. PICK r \in Selected(name) : i = Intents(c, n, r)
  BY <1>2
<1> QED
  BY <1>3 DEF Intents, IsIntent

\* An intent is changed in its status, or in how it acted, and in nothing else.
Alike(i, j) == IsIntent(j) /\ j.cmd = i.cmd /\ j.login = i.login /\ Path(j) = Path(i)

LEMMA Changes ==
    ASSUME NEW i, IsIntent(i), NEW st, NEW j,
           \/ j = [i EXCEPT !.status = st]
           \/ \E a, b : j = [i EXCEPT !.status = st, !.ran = a, !.torn = b]
    PROVE  Alike(i, j) /\ j.status = st
<1>1. PICK c, n, kind, label, profile, login, pid, was, ran, torn :
        i = [cmd |-> c, n |-> n, kind |-> kind, label |-> label, profile |-> profile,
             login |-> login, pid |-> pid, status |-> was, ran |-> ran, torn |-> torn]
  BY DEF IsIntent
<1>2. CASE j = [i EXCEPT !.status = st]
  <2>1. j = [cmd |-> c, n |-> n, kind |-> kind, label |-> label, profile |-> profile,
             login |-> login, pid |-> pid, status |-> st, ran |-> ran, torn |-> torn]
    BY <1>1, <1>2
  <2> QED
    BY <1>1, <2>1 DEF Alike, IsIntent, Path
<1>3. ASSUME NEW a, NEW b, j = [i EXCEPT !.status = st, !.ran = a, !.torn = b]
      PROVE  Alike(i, j) /\ j.status = st
  <2>1. j = [cmd |-> c, n |-> n, kind |-> kind, label |-> label, profile |-> profile,
             login |-> login, pid |-> pid, status |-> st, ran |-> a, torn |-> b]
    BY <1>1, <1>3
  <2> QED
    BY <1>1, <2>1 DEF Alike, IsIntent, Path
<1> QED
  BY <1>2, <1>3

\* What an intent says of how it acted, after either change.
LEMMA ActsChange ==
    ASSUME NEW i, IsIntent(i), NEW st, NEW a, NEW b
    PROVE  /\ [i EXCEPT !.status = st].ran = i.ran
           /\ [i EXCEPT !.status = st, !.ran = a, !.torn = b].ran = a
           /\ [i EXCEPT !.status = st, !.ran = a, !.torn = b].torn = b
  BY DEF IsIntent

\* While the controller works, no intent is out.
LEMMA NoneOut ==
    ASSUME IInv, stage # "wait"
    PROVE  \A i \in intents : i.status # "executing"
  BY DEF IInv, OneOut

\* A step that changes no intent and no claim, and the stage only when none is out.
LEMMA Untouched ==
    ASSUME IInv, intents' = intents, taken' = taken, claims' = claims,
           stage' = stage \/ stage # "wait"
    PROVE  IInv'
<1>1. Made' /\ Together' /\ Claimed' /\ ActsOnItsAccount' /\ ActsOncePerAccount'
  BY DEF IInv, Made, Together, Claimed, ActsOnItsAccount, ActsOncePerAccount
<1>2. OneOut'
  BY NoneOut DEF IInv, OneOut
<1> QED
  BY <1>1, <1>2 DEF IInv

\* One intent is replaced by what it becomes: it goes out while none is, or it acts
\* on an unclaimed path and claims it, or it comes to rest.
LEMMA Replaced ==
    ASSUME IInv, NEW i \in intents, NEW j, Update(i, j), taken' = taken,
           Alike(i, j),
           claims \subseteq claims',
           \A k \in intents \ {i} : k.status # "executing",
           j.status = "executing" => stage' = "wait" /\ Path(i) \notin claims',
           j.ran # None => /\ j.status = "done" /\ Path(i) \in claims' \ claims
                           /\ j.ran = j.login \/ j.torn
    PROVE  IInv'
<1>1. /\ intents' = (intents \ {i}) \cup {j}
      /\ IsIntent(j) /\ j.cmd = i.cmd /\ j.login = i.login /\ Path(j) = Path(i)
  BY DEF Update, Alike
<1>2. Made'
  BY <1>1 DEF IInv, Made
<1>3. Together'
  BY <1>1 DEF IInv, Together
<1>4. OneOut'
  BY <1>1 DEF IInv, OneOut
<1>5. Claimed'
  BY <1>1 DEF IInv, Claimed
<1>6. ActsOnItsAccount'
  BY <1>1 DEF IInv, ActsOnItsAccount
<1>7. ActsOncePerAccount'
  <2>1. ASSUME NEW k \in intents \ {i}, k.cmd = j.cmd, k.login = j.login,
               k.ran # None, j.ran # None
        PROVE  FALSE
    <3>1. Path(k) = Path(i)
      BY <1>1, <2>1 DEF IInv, Together
    <3>2. Path(k) \in claims
      BY <2>1 DEF IInv, Claimed
    <3> QED
      BY <2>1, <3>1, <3>2
  <2> QED
    BY <1>1, <2>1 DEF IInv, ActsOncePerAccount
<1> QED
  BY <1>2, <1>3, <1>4, <1>5, <1>6, <1>7 DEF IInv

\* A command adds intents of its own, none of them out.
LEMMA Created ==
    ASSUME IInv, NEW c, Create(c)
    PROVE  IInv'
<1>1. PICK S \in SUBSET Targets(c) : intents' = intents \cup S
  BY DEF Create
<1>2. /\ c \notin taken /\ taken' = taken \cup {c} /\ claims' = claims /\ stage' = stage
  BY DEF Create
<1>3. \A i \in S : IsIntent(i) /\ i.cmd = c /\ i.status = "saved" /\ i.ran = None
  BY TargetShape
<1>4. \A i \in intents : i.cmd # c
  BY <1>2 DEF IInv, Made
<1>5. ASSUME NEW i \in S, NEW j \in S, i.login = j.login PROVE Path(i) = Path(j)
  <2>1. PICK a : \E r \in Selected(a) :
                     i.profile = r.profile /\ i.login = r.login /\ i.pid = r.pid
    BY TargetShape
  <2>2. PICK r \in Selected(a) : i.profile = r.profile /\ i.login = r.login /\ i.pid = r.pid
    BY <2>1
  <2>3. PICK b : \E s \in Selected(b) :
                     j.profile = s.profile /\ j.login = s.login /\ j.pid = s.pid
    BY TargetShape
  <2>4. PICK s \in Selected(b) : j.profile = s.profile /\ j.login = s.login /\ j.pid = s.pid
    BY <2>3
  <2>5. r.login = s.login
    BY <1>5, <2>2, <2>4
  <2>6. r.profile = s.profile /\ r.pid = s.pid
    BY <2>5, SelectedTogether
  <2> QED
    BY <1>3, <1>5, <2>2, <2>4, <2>6 DEF Path
<1>6. Made'
  BY <1>1, <1>2, <1>3 DEF IInv, Made
<1>7. Together'
  BY <1>1, <1>3, <1>4, <1>5 DEF IInv, Together
<1>8. OneOut'
  BY <1>1, <1>2, <1>3 DEF IInv, OneOut
<1>9. Claimed'
  BY <1>1, <1>2, <1>3 DEF IInv, Claimed
<1>10. ActsOnItsAccount'
  BY <1>1, <1>3 DEF IInv, ActsOnItsAccount
<1>11. ActsOncePerAccount'
  BY <1>1, <1>3 DEF IInv, ActsOncePerAccount
<1> QED
  BY <1>6, <1>7, <1>8, <1>9, <1>10, <1>11 DEF IInv

\* The EA acts on a task of the mailbox it reads, or refuses it.
LEMMA Executed ==
    ASSUME IInv, NEW t, NEW i \in intents, i.status = "executing", Mailbox(t, i),
           Execute(t, i), taken' = taken
    PROVE  IInv'
<1>0. /\ IsIntent(i) /\ Path(i) \notin claims /\ i.ran = None
      /\ \A k \in intents \ {i} : k.status # "executing"
  BY DEF IInv, Made, OneOut, Claimed
<1>i. IsIntent(i)
  BY <1>0
<1>1. CASE i.pid = Pid(t, ea[t].login)
  <2>0. PICK torn : torn = (at[t] # ea[t].login)
    OBVIOUS
  <2> DEFINE done == [i EXCEPT !.status = "done", !.ran = at[t], !.torn = torn]
  <2>1. Update(i, done) /\ claims' = claims \cup {Path(i)}
    BY <1>1, <2>0 DEF Execute
  <2>2. done = [i EXCEPT !.status = "done", !.ran = at[t], !.torn = torn]
    OBVIOUS
  <2>3. done.ran = at[t] /\ done.torn = torn
    BY <1>0, ActsChange
  <2> HIDE DEF done
  <2>4. Alike(i, done) /\ done.status = "done"
    <3>1. \E a, b : done = [i EXCEPT !.status = "done", !.ran = a, !.torn = b]
      BY <2>2
    <3> QED
      BY <1>i, <3>1, Changes
  <2>5. done.ran = done.login \/ done.torn
    BY <2>0, <2>3, <2>4 DEF Mailbox, Alike
  <2> QED
    BY <1>0, <2>1, <2>4, <2>5, Replaced
<1>2. CASE i.pid # Pid(t, ea[t].login)
  <2> DEFINE refused == [i EXCEPT !.status = "failed"]
  <2>1. Update(i, refused) /\ claims' = claims
    BY <1>2 DEF Execute
  <2>2. refused = [i EXCEPT !.status = "failed"] /\ refused.ran = None
    BY <1>0, ActsChange
  <2> HIDE DEF refused
  <2>3. Alike(i, refused) /\ refused.status = "failed"
    BY <1>i, <2>2, Changes
  <2> QED
    BY <1>0, <2>1, <2>2, <2>3, Replaced
<1> QED
  BY <1>1, <1>2

\* An intent is sent, or found without its account or with its path claimed.
LEMMA Dispatched ==
    ASSUME IInv, NEW i \in intents, Dispatch(i)
    PROVE  IInv'
<1>0. /\ IsIntent(i) /\ i.ran = None /\ claims' = claims /\ taken' = taken
      /\ \A k \in intents \ {i} : k.status # "executing"
  BY NoneOut DEF IInv, Made, Claimed, Dispatch
<1>1. PICK st \in {"failed", "uncertain", "executing"} :
          /\ Update(i, [i EXCEPT !.status = st])
          /\ st = "executing" => stage' = "wait" /\ Path(i) \notin claims
  BY DEF Dispatch
<1> DEFINE j == [i EXCEPT !.status = st]
<1>2. j = [i EXCEPT !.status = st] /\ j.ran = None
  BY <1>0, ActsChange
<1>3. Update(i, j)
  BY <1>1
<1> HIDE DEF j
<1>4. Alike(i, j) /\ j.status = st
  BY ZenonT(60), <1>0, <1>2, Changes
<1> QED
  BY <1>0, <1>1, <1>2, <1>3, <1>4, Replaced

\* A task nobody took is withdrawn.
LEMMA GivenUp ==
    ASSUME IInv, NEW i \in intents, GiveUp(i)
    PROVE  IInv'
<1>0. /\ IsIntent(i) /\ i.ran = None /\ claims' = claims /\ taken' = taken
      /\ \A k \in intents \ {i} : k.status # "executing"
  BY DEF IInv, Made, Claimed, OneOut, GiveUp
<1> DEFINE j == [i EXCEPT !.status = "failed"]
<1>1. j = [i EXCEPT !.status = "failed"] /\ j.ran = None
  BY <1>0, ActsChange
<1>2. Update(i, j)
  BY DEF GiveUp
<1> HIDE DEF j
<1>3. Alike(i, j) /\ j.status = "failed"
  BY <1>0, <1>1, Changes
<1> QED
  BY <1>0, <1>1, <1>2, <1>3, Replaced

LEMMA InvariantStep == IInv /\ [Next]_vars => IInv'
<1> SUFFICES ASSUME IInv, [Next]_vars PROVE IInv'
  OBVIOUS
<1>1. ASSUME NEW t \in Terminals,
             (\E a \in Logins : Switch(t, a)) \/ Start(t) \/ Stop(t) \/ Kill(t) \/ Refresh(t)
      PROVE  IInv'
  BY <1>1, Untouched DEF Switch, Start, Stop, Kill, Refresh, control
<1>2. ASSUME NEW t \in Terminals, NEW due \in BOOLEAN, Poll(t, due)
      PROVE  IInv'
  <2>1. taken' = taken
    BY <1>2 DEF Poll
  <2>2. \/ \E i \in intents : i.status = "executing" /\ Mailbox(t, i) /\ Execute(t, i)
        \/ UNCHANGED <<stage, intents, claims>>
    BY <1>2 DEF Poll
  <2> QED
    BY <2>1, <2>2, Executed, Untouched
<1>3. ASSUME NEW p \in Profiles, Stale(p) PROVE IInv'
  BY <1>3, Untouched DEF Stale, control
<1>4. ASSUME Iterate \/ Reload PROVE IInv'
  BY <1>4, Untouched DEF Iterate, Reload
<1>5. ASSUME UNCHANGED vars PROVE IInv'
  BY <1>5, Untouched DEF vars, control
<1> QED
  BY <1>1, <1>2, <1>3, <1>4, <1>5, Created, Dispatched, GivenUp
     DEF Next, Terminal, Controller

\* The invariant holds throughout.
THEOREM Invariance == Spec => []IInv
<1>1. Init => IInv
  BY DEF Init, IInv, Made, Together, OneOut, Claimed, ActsOnItsAccount, ActsOncePerAccount
<1> QED
  BY <1>1, InvariantStep, PTL DEF Spec

\* What acts, acts on the account it was made for, unless the terminal was switched
\* between the EA's look at its identity and the order.
THEOREM ActsOnItsAccountHolds == Spec => []ActsOnItsAccount
<1>1. IInv => ActsOnItsAccount
  BY DEF IInv
<1> QED
  BY <1>1, Invariance, PTL

\* One command acts on an account once, however many rows and terminals show it.
THEOREM ActsOncePerAccountHolds == Spec => []ActsOncePerAccount
<1>1. IInv => ActsOncePerAccount
  BY DEF IInv
<1> QED
  BY <1>1, Invariance, PTL

-----------------------------------------------------------------------------
(* The table of scheduled signals (SignalTable) *)

(***************************************************************************)
(* The argument.  While no cause of a loss has been noted there is an      *)
(* appointment k that is next (IsNext): those before it are accepted and   *)
(* in the table, k and those after it are still queued, and nobody serves  *)
(* a later one.  Every database that counts then holds the table so far,   *)
(* with or without k, and so does every process that is about to write it. *)
(***************************************************************************)

\* The copying run has a key at hand, or none, and its value is one of that key.
SyncTyped ==
    /\ sync \in [left : SUBSET Keys, key : Keys \cup {"none"},
                 value : Procs \cup {Nobody, Old} \cup DayTables]
    /\ sync.key = "lock" => sync.value \in Procs \cup {Nobody, Old}
    /\ sync.key \in {"state", "feed"} => sync.value \in DayTables

\* What is queued and what is served are appointments that have been made.
MadeOnly ==
    /\ queue.memory \subseteq 1 .. made /\ queue.file \subseteq 1 .. made
    /\ \A p \in Procs : op[p] # "idle" => req[p] \in 1 .. made

Base == TableTypeOK /\ SyncTyped /\ MadeOnly

-----------------------------------------------------------------------------
\* An appointment is put into a table: what comes of it is a table.
LEMMA PutTyped ==
    ASSUME NEW t \in DayTables, NEW q \in Appointments
    PROVE  Put(t, q) \in DayTables
  BY DEF Put, DayTables, Appointments, Sides

LEMMA AbsentIsNone == Absent \notin DayTables /\ Empty \in DayTables
<1>1. PICK s : s \in Slots
  BY TableAssumption
<1> QED
  BY <1>1 DEF DayTables, Sides, Absent, Empty

LEMMA PlanTyped ==
    ASSUME TableTypeOK, NEW r \in 1 .. made
    PROVE  plan[r] \in Appointments /\ r \in Ids
<1>1. plan \in Seq(Appointments) /\ made \in 0 .. Len(plan) /\ plan \in Days
  BY TableAssumption DEF TableTypeOK
<1>2. r \in 1 .. Len(plan) /\ DOMAIN plan = 1 .. Len(plan)
  BY <1>1
<1> QED
  BY <1>1, <1>2 DEF Ids

LEMMA BaseInit == TableInit => Base
<1> SUFFICES ASSUME TableInit PROVE Base
  OBVIOUS
<1>1. plan \in Seq(Appointments) /\ made \in 0 .. Len(plan)
  BY TableAssumption DEF TableInit
<1>2. TableTypeOK
  <2>1. primary \in Stores /\ backup \in Stores
    BY DEF TableInit, Stores
  <2>2. op \in [Procs -> Ops] /\ req \in [Procs -> Ids \cup {0}]
        /\ via \in [Procs -> {"ask", "primary", "mirror", "promote", "backup"}]
    BY DEF TableInit, Ops
  <2>3. copy \in [Procs -> DayTables \cup {Absent}] /\ want \in DayTables
    BY AbsentIsNone DEF TableInit
  <2>4. queue \in [memory : SUBSET Ids, file : SUBSET Ids]
    BY DEF TableInit
  <2>5. faults \in 0 .. MaxFaults /\ made \in 0 .. Len(plan)
    BY <1>1, TableAssumption DEF TableInit
  <2> QED
    BY <2>1, <2>2, <2>3, <2>4, <2>5 DEF TableInit, TableTypeOK
<1>3. SyncTyped /\ MadeOnly
  BY TableAssumption DEF TableInit, SyncTyped, MadeOnly, NoSync, Keys
<1> QED
  BY <1>2, <1>3 DEF Base
-----------------------------------------------------------------------------
(* Base by its parts. *)

PcOK ==
    /\ plan \in Days /\ made \in 0 .. Len(plan)
    /\ queue \in [memory : SUBSET Ids, file : SUBSET Ids] /\ waiting \in Procs \cup {Nobody}
    /\ queue.memory \subseteq 1 .. made /\ queue.file \subseteq 1 .. made
    /\ want \in DayTables
ProcOK ==
    /\ req \in [Procs -> Ids \cup {0}] /\ op \in [Procs -> Ops]
    /\ via \in [Procs -> {"ask", "primary", "mirror", "promote", "backup"}]
    /\ copy \in [Procs -> DayTables \cup {Absent}]
    /\ \A p \in Procs : op[p] # "idle" => req[p] \in 1 .. made
StoreOK == primary \in Stores /\ backup \in Stores /\ marker \in BOOLEAN
RestOK ==
    /\ away \subseteq Procs /\ faults \in 0 .. MaxFaults
    /\ causes \subseteq {"expired", "split", "behind", "late", "withdrawn", "repeated", "shrunk"}

LEMMA BaseParts == Base <=> PcOK /\ ProcOK /\ StoreOK /\ RestOK /\ SyncTyped
  BY DEF Base, TableTypeOK, MadeOnly, PcOK, ProcOK, StoreOK, RestOK

LEMMA BasePartsNext == Base' <=> PcOK' /\ ProcOK' /\ StoreOK' /\ RestOK' /\ SyncTyped'
  BY DEF Base, TableTypeOK, MadeOnly, PcOK, ProcOK, StoreOK, RestOK

LEMMA RestFault == ASSUME RestOK, Fault PROVE faults' \in 0 .. MaxFaults
  BY TableAssumption DEF RestOK, Fault

LEMMA ApplyTyped ==
    ASSUME StoreOK, ProcOK, NEW p \in Procs, NEW store \in Stores
    PROVE  /\ Apply(p, store) \in Stores
           /\ Apply(p, store).lock \in {store.lock, p, Nobody}
           /\ Apply(p, store).state \in {store.state, copy[p]}
           /\ Apply(p, store).feed \in {store.feed, copy[p]}
<1>1. copy[p] \in DayTables \cup {Absent} /\ store.lock \in Procs \cup {Nobody, Old}
  BY DEF ProcOK, Stores
<1> QED
  BY <1>1 DEF Apply, Stores

LEMMA ThenOK ==
    ASSUME PcOK, ProcOK, NEW p \in Procs, NEW o \in Ops, NEW t \in DayTables \cup {Absent},
           op[p] # "idle", Then(p, o, t)
    PROVE  PcOK' /\ ProcOK'
<1>1. PcOK'
  BY DEF Then, PcOK, pc
<1>2. ProcOK'
  BY DEF Then, ProcOK, pc
<1> QED
  BY <1>1, <1>2

LEMMA AnswerOK ==
    ASSUME TableTypeOK, PcOK, ProcOK, NEW p \in Procs, NEW ok, op[p] # "idle", Answer(p, ok)
    PROVE  PcOK' /\ ProcOK'
<1>1. plan' = plan /\ made' = made /\ waiting' \in Procs \cup {Nobody}
  BY DEF Answer, PcOK
<1>2. queue' \in [memory : SUBSET Ids, file : SUBSET Ids]
      /\ queue'.memory \subseteq 1 .. made /\ queue'.file \subseteq 1 .. made
  BY DEF Answer, PcOK
<1>3. want' \in DayTables
  <2>1. plan[req[p]] \in Appointments
    BY PlanTyped DEF ProcOK
  <2> QED
    BY <2>1, PutTyped DEF Answer, PcOK
<1>4. PcOK'
  BY <1>1, <1>2, <1>3 DEF PcOK
<1>5. ProcOK'
  BY <1>1 DEF Answer, ProcOK, Ops
<1> QED
  BY <1>4, <1>5

LEMMA PartOK ==
    ASSUME PcOK, ProcOK, NEW p \in Procs, Part(p, "primary") \/ Part(p, "mirror") \/
           Part(p, "promote") \/ Part(p, "backup"), op' = op
    PROVE  PcOK' /\ ProcOK'
<1>1. PcOK'
  BY DEF Part, PcOK, pc
<1>2. ProcOK'
  BY DEF Part, ProcOK, pc
<1> QED
  BY <1>1, <1>2

LEMMA ReturnsOK ==
    ASSUME Base, NEW p \in Procs, NEW store \in Stores, NEW free, op[p] # "idle",
           Returns(p, store, free)
    PROVE  PcOK' /\ ProcOK'
<1>1. PcOK /\ ProcOK /\ TableTypeOK
  BY BaseParts DEF Base
<1>2. store.state \in DayTables \cup {Absent} /\ store.feed \in DayTables \cup {Absent}
      /\ copy[p] \in DayTables \cup {Absent}
  BY <1>1 DEF Stores, ProcOK
<1>3. {"load", "replicas", "seedReplicas", "publish", "release"} \subseteq Ops
  BY DEF Ops
<1>4. \/ Answer(p, FALSE) \/ Answer(p, op[p] = "release")
      \/ \E o \in Ops, t \in DayTables \cup {Absent} : Then(p, o, t)
  BY <1>2, <1>3 DEF Returns
<1> QED
  BY <1>1, <1>4, ThenOK, AnswerOK

LEMMA ThrowsOK ==
    ASSUME Base, NEW p \in Procs, op[p] # "idle", Throws(p)
    PROVE  PcOK' /\ ProcOK'
<1>1. PcOK /\ ProcOK /\ TableTypeOK
  BY BaseParts DEF Base
<1>2. Answer(p, op[p] = "release") \/ \E o \in Ops, t \in DayTables \cup {Absent} : Then(p, o, t)
  BY DEF Throws, Ops
<1> QED
  BY <1>1, <1>2, ThenOK, AnswerOK

-----------------------------------------------------------------------------
(* Base is kept. *)

LEMMA BaseAsk == ASSUME Base, NEW p \in Procs, Ask(p) PROVE Base'
<1>0. PcOK /\ ProcOK /\ StoreOK /\ RestOK /\ SyncTyped
  BY BaseParts
<1>1. PcOK' /\ ProcOK'
  <2>1. Part(p, "backup") \/ Part(p, "primary")
    BY DEF Ask
  <2> QED
    BY <1>0, <2>1, PartOK DEF Ask
<1>2. StoreOK' /\ SyncTyped'
  BY <1>0 DEF Ask, StoreOK, SyncTyped, redis
<1>3. RestOK'
  BY <1>0, RestFault DEF Ask, RestOK, Note
<1> QED
  BY <1>1, <1>2, <1>3, BasePartsNext

LEMMA BasePrimary == ASSUME Base, NEW p \in Procs, Primary(p) PROVE Base'
<1>0. PcOK /\ ProcOK /\ StoreOK /\ RestOK /\ SyncTyped /\ op[p] # "idle"
  BY BaseParts DEF Primary, Calls
<1>1. PcOK' /\ ProcOK'
  <2>1. CASE op[p] \in {"load", "seed"}
    BY <1>0, <2>1, ReturnsOK DEF Primary, StoreOK
  <2>2. CASE op[p] \notin {"load", "seed"}
    <3>1. PcOK'
      BY <1>0, <2>2 DEF Primary, Part, PcOK, pc
    <3>2. ProcOK'
      BY <1>0, <2>2 DEF Primary, Part, ProcOK, pc, Ops
    <3> QED
      BY <3>1, <3>2
  <2> QED
    BY <2>1, <2>2
<1>2. StoreOK' /\ SyncTyped'
  BY <1>0, ApplyTyped DEF Primary, StoreOK, SyncTyped
<1>3. RestOK'
  BY <1>0 DEF Primary, RestOK
<1> QED
  BY <1>1, <1>2, <1>3, BasePartsNext

LEMMA BasePrimaryFails == ASSUME Base, NEW p \in Procs, PrimaryFails(p) PROVE Base'
<1>0. PcOK /\ ProcOK /\ StoreOK /\ RestOK /\ SyncTyped
  BY BaseParts
<1>1. PcOK' /\ ProcOK'
  BY <1>0, PartOK DEF PrimaryFails
<1>2. StoreOK' /\ SyncTyped'
  BY <1>0, ApplyTyped DEF PrimaryFails, StoreOK, SyncTyped
<1>3. RestOK'
  BY <1>0, RestFault DEF PrimaryFails, RestOK
<1> QED
  BY <1>1, <1>2, <1>3, BasePartsNext

LEMMA BaseMirror == ASSUME Base, NEW p \in Procs, Mirror(p) PROVE Base'
<1>0. PcOK /\ ProcOK /\ StoreOK /\ RestOK /\ SyncTyped /\ op[p] # "idle"
  BY BaseParts DEF Mirror, Calls
<1>1. PcOK' /\ ProcOK'
  BY <1>0, ReturnsOK DEF Mirror, StoreOK
<1>2. StoreOK' /\ SyncTyped'
  BY <1>0, ApplyTyped DEF Mirror, StoreOK, SyncTyped
<1>3. RestOK'
  BY <1>0, RestFault DEF Mirror, RestOK, Note, When
<1> QED
  BY <1>1, <1>2, <1>3, BasePartsNext

LEMMA BasePromote == ASSUME Base, NEW p \in Procs, Promote(p) PROVE Base'
<1>0. PcOK /\ ProcOK /\ StoreOK /\ RestOK /\ SyncTyped
  BY BaseParts
<1>1. PcOK' /\ ProcOK'
  BY <1>0, PartOK DEF Promote
<1>2. StoreOK' /\ SyncTyped'
  BY <1>0 DEF Promote, StoreOK, SyncTyped
<1>3. RestOK'
  BY <1>0, RestFault DEF Promote, RestOK, Note, When
<1> QED
  BY <1>1, <1>2, <1>3, BasePartsNext

LEMMA BaseBackup == ASSUME Base, NEW p \in Procs, Backup(p) PROVE Base'
<1>0. PcOK /\ ProcOK /\ StoreOK /\ RestOK /\ SyncTyped /\ op[p] # "idle"
  BY BaseParts DEF Backup, Calls
<1>1. PcOK' /\ ProcOK'
  BY <1>0, ReturnsOK, ThrowsOK DEF Backup, StoreOK
<1>2. StoreOK' /\ SyncTyped'
  BY <1>0, ApplyTyped DEF Backup, StoreOK, SyncTyped
<1>3. RestOK'
  BY <1>0, RestFault DEF Backup, RestOK
<1> QED
  BY <1>1, <1>2, <1>3, BasePartsNext

LEMMA FreshestOf ==
    ASSUME NEW t, NEW u, NEW v
    PROVE  Freshest(t, u, v) \in {t, u, v}
  BY DEF Freshest, Better

LEMMA TakesOK ==
    ASSUME Base, NEW p \in Procs, op[p] # "idle", NEW u \in DayTables \cup {Absent},
           NEW v \in DayTables \cup {Absent}, Takes(p, u, v)
    PROVE  /\ PcOK' /\ ProcOK'
           /\ causes' = causes \/ \E c \in SUBSET {"shrunk", "late"} : causes' = causes \cup c
<1>0. PcOK /\ ProcOK /\ TableTypeOK
  BY BaseParts DEF Base
<1> DEFINE t == Freshest(copy[p], u, v)
           placed == Put(OrEmpty(t), plan[req[p]])
<1>1. t \in DayTables \cup {Absent}
  BY <1>0, FreshestOf DEF ProcOK
<1>2. placed \in DayTables
  <2>1. plan[req[p]] \in Appointments
    BY <1>0, PlanTyped DEF ProcOK
  <2>2. OrEmpty(t) \in DayTables
    BY <1>1, AbsentIsNone DEF OrEmpty
  <2> QED
    BY <2>1, <2>2, PutTyped
<1> HIDE DEF t, placed
<1>3. Then(p, "seed", Absent) \/ Then(p, "save", placed)
  BY DEF Takes, t, placed
<1>4. PcOK' /\ ProcOK'
  <2>1. CASE Then(p, "seed", Absent)
    BY <1>0, <2>1, ThenOK DEF Ops
  <2>2. CASE Then(p, "save", placed)
    BY <1>0, <1>2, <2>2, ThenOK DEF Ops
  <2> QED
    BY <1>3, <2>1, <2>2
<1>5. causes' = causes \/ \E c \in SUBSET {"shrunk", "late"} : causes' = causes \cup c
  <2>1. CASE UNCHANGED causes
    BY <2>1
  <2>2. CASE Note(When(Newer(OrEmpty(t), placed), "shrunk")
                  \cup When(waiting # p /\ req[p] \notin queue.memory, "late"))
    <3> DEFINE c == When(Newer(OrEmpty(t), placed), "shrunk")
                    \cup When(waiting # p /\ req[p] \notin queue.memory, "late")
    <3>1. c \in SUBSET {"shrunk", "late"} /\ causes' = causes \cup c
      BY <2>2 DEF When, Note
    <3> QED
      BY <3>1
  <2> QED
    BY <2>1, <2>2 DEF Takes, t, placed
<1> QED
  BY <1>4, <1>5

LEMMA BaseReplicas == ASSUME Base, NEW p \in Procs, Replicas(p) PROVE Base'
<1>0. PcOK /\ ProcOK /\ StoreOK /\ RestOK /\ SyncTyped /\ op[p] # "idle"
  BY BaseParts DEF Replicas
<1>1. /\ Field(p, primary) \in DayTables \cup {Absent}
      /\ Field(p, backup) \in DayTables \cup {Absent}
  BY <1>0 DEF Field, StoreOK, Stores
<1>2. /\ PcOK' /\ ProcOK'
      /\ causes' = causes \/ \E c \in SUBSET {"shrunk", "late"} : causes' = causes \cup c
  <2>1. CASE \E u, v \in DayTables \cup {Absent} : Takes(p, u, v)
    BY <1>0, <2>1, TakesOK
  <2>2. CASE Then(p, "unwind", Absent) /\ UNCHANGED causes
    BY <1>0, <2>2, ThenOK DEF Ops
  <2> QED
    BY <1>1, <2>1, <2>2 DEF Replicas
<1>3. StoreOK' /\ SyncTyped'
  BY <1>0 DEF Replicas, StoreOK, SyncTyped, redis
<1>4. RestOK'
  <2>1. faults' \in 0 .. MaxFaults /\ away' = away
    BY <1>0, RestFault DEF Replicas, RestOK
  <2> QED
    BY <1>0, <1>2, <2>1 DEF RestOK
<1> QED
  BY <1>2, <1>3, <1>4, BasePartsNext

LEMMA BasePc ==
    ASSUME Base, Schedule \/ (\E r \in Ids : Withdraw(r)) \/ (\E p \in Procs : Send(p))
                 \/ PcGivesUp \/ Restart
    PROVE  Base'
<1>0. PcOK /\ ProcOK /\ StoreOK /\ RestOK /\ SyncTyped
  BY BaseParts
<1>1. CASE Schedule
  <2>1. PcOK'
    <3>1. plan \in Seq(Appointments) /\ made + 1 \in 1 .. Len(plan) /\ DOMAIN plan = 1 .. Len(plan)
      BY <1>0, <1>1, TableAssumption DEF PcOK, Schedule
    <3>2. made' \in Ids
      BY <1>0, <1>1, <3>1 DEF PcOK, Schedule, Ids
    <3> QED
      BY <1>0, <1>1, <3>1, <3>2 DEF PcOK, Schedule, ghosts
  <2>2. ProcOK'
    BY <1>0, <1>1 DEF ProcOK, PcOK, Schedule, proc
  <2>3. StoreOK' /\ RestOK' /\ SyncTyped'
    BY <1>0, <1>1 DEF StoreOK, RestOK, SyncTyped, Schedule, redis, proc, ghosts
  <2> QED
    BY <2>1, <2>2, <2>3, BasePartsNext
<1>2. ASSUME NEW r \in Ids, Withdraw(r) PROVE Base'
  <2>1. PcOK'
    BY <1>0, <1>2 DEF PcOK, Withdraw
  <2>2. ProcOK'
    BY <1>0, <1>2 DEF ProcOK, Withdraw, proc
  <2>3. StoreOK' /\ RestOK' /\ SyncTyped'
    BY <1>0, <1>2, RestFault DEF StoreOK, RestOK, SyncTyped, Withdraw, redis, proc, Note
  <2> QED
    BY <2>1, <2>2, <2>3, BasePartsNext
<1>3. ASSUME NEW p \in Procs, Send(p) PROVE Base'
  <2>1. PcOK'
    BY <1>0, <1>3 DEF PcOK, Send, ghosts
  <2>2. ProcOK'
    BY <1>0, <1>3 DEF ProcOK, PcOK, Send, Ops
  <2>3. StoreOK'
    BY <1>0, <1>3 DEF StoreOK, Stores, Send
  <2>4. RestOK'
    BY <1>0, <1>3 DEF RestOK, Send, ghosts
  <2>5. SyncTyped'
    BY <1>0, <1>3 DEF SyncTyped, Send
  <2> QED
    BY <2>1, <2>2, <2>3, <2>4, <2>5, BasePartsNext
<1>4. CASE PcGivesUp
  <2>1. PcOK' /\ ProcOK'
    BY <1>0, <1>4 DEF PcOK, ProcOK, PcGivesUp, proc, ghosts
  <2>2. StoreOK' /\ RestOK' /\ SyncTyped'
    BY <1>0, <1>4, RestFault DEF StoreOK, RestOK, SyncTyped, PcGivesUp, redis, proc, ghosts
  <2> QED
    BY <2>1, <2>2, BasePartsNext
<1>5. CASE Restart
  <2>1. PcOK'
    BY <1>0, <1>5 DEF PcOK, Restart
  <2>2. ProcOK'
    BY <1>0, <1>5 DEF ProcOK, Restart, proc
  <2>3. StoreOK' /\ SyncTyped'
    BY <1>0, <1>5 DEF StoreOK, SyncTyped, Restart, redis
  <2>4. RestOK'
    BY <1>0, <1>5, RestFault DEF RestOK, Restart, proc, Note, When
  <2> QED
    BY <2>1, <2>2, <2>3, <2>4, BasePartsNext
<1> QED
  BY <1>1, <1>2, <1>3, <1>4, <1>5

LEMMA BaseStop == ASSUME Base, NEW p \in Procs, StopProcess(p) \/ CooldownEnds(p) PROVE Base'
<1>0. PcOK /\ ProcOK /\ StoreOK /\ RestOK /\ SyncTyped /\ TableTypeOK
  BY BaseParts DEF Base
<1>1. CASE StopProcess(p)
  <2>1. PcOK' /\ ProcOK'
    BY <1>0, <1>1, AnswerOK DEF StopProcess
  <2>2. StoreOK' /\ RestOK' /\ SyncTyped'
    BY <1>0, <1>1, RestFault DEF StoreOK, RestOK, SyncTyped, StopProcess, redis
  <2> QED
    BY <2>1, <2>2, BasePartsNext
<1>2. CASE CooldownEnds(p)
  <2>1. PcOK' /\ ProcOK'
    BY <1>0, <1>2 DEF PcOK, ProcOK, CooldownEnds, pc, ghosts
  <2>2. StoreOK' /\ RestOK' /\ SyncTyped'
    BY <1>0, <1>2 DEF StoreOK, RestOK, SyncTyped, CooldownEnds, redis, ghosts
  <2> QED
    BY <2>1, <2>2, BasePartsNext
<1> QED
  BY <1>1, <1>2

LEMMA BaseExpires ==
    ASSUME Base, (\E t \in Procs \cup {Old} : LeftLockExpires(t)) \/ (\E p \in Procs : HeldLockExpires(p))
    PROVE  Base'
<1>0. PcOK /\ ProcOK /\ StoreOK /\ RestOK /\ SyncTyped
  BY BaseParts
<1>1. \E t : Expired(t)
  BY DEF LeftLockExpires, HeldLockExpires
<1>2. PcOK' /\ ProcOK'
  BY <1>0, <1>1 DEF Expired, PcOK, ProcOK, pc, proc
<1>3. StoreOK' /\ SyncTyped'
  BY <1>0, <1>1 DEF Expired, StoreOK, Stores, SyncTyped
<1>4. away' = away
  BY <1>1 DEF Expired, proc
<1>5. RestOK'
  BY <1>0, <1>4, RestFault DEF LeftLockExpires, HeldLockExpires, RestOK, Note
<1> QED
  BY <1>2, <1>3, <1>5, BasePartsNext

LEMMA BaseSync ==
    ASSUME Base, SyncStart \/ SyncWrite \/ SyncFails \/ (\E k \in Keys : SyncTake(k))
    PROVE  Base'
<1>0. PcOK /\ ProcOK /\ StoreOK /\ RestOK /\ SyncTyped
  BY BaseParts
<1>1. CASE SyncStart
  <2>1. PcOK' /\ ProcOK'
    BY <1>0, <1>1 DEF SyncStart, PcOK, ProcOK, pc, proc, ghosts
  <2>2. StoreOK' /\ RestOK'
    BY <1>0, <1>1, RestFault DEF SyncStart, StoreOK, RestOK, proc, redis, ghosts
  <2>3. SyncTyped'
    BY <1>0, <1>1 DEF SyncStart, SyncTyped, NoSync, Keys
  <2> QED
    BY <2>1, <2>2, <2>3, BasePartsNext
<1>2. CASE SyncWrite
  <2>1. PcOK' /\ ProcOK'
    BY <1>0, <1>2 DEF SyncWrite, PcOK, ProcOK, pc, proc
  <2>2. StoreOK'
    BY <1>0, <1>2 DEF SyncWrite, StoreOK, Stores, SyncTyped, Keys
  <2>3. RestOK'
    BY <1>0, <1>2 DEF SyncWrite, RestOK, proc, Note, When
  <2>4. SyncTyped'
    BY <1>0, <1>2 DEF SyncWrite, SyncTyped, Keys
  <2> QED
    BY <2>1, <2>2, <2>3, <2>4, BasePartsNext
<1>3. CASE SyncFails
  <2>1. PcOK' /\ ProcOK'
    BY <1>0, <1>3 DEF SyncFails, PcOK, ProcOK, pc, proc
  <2>2. StoreOK' /\ RestOK'
    BY <1>0, <1>3, RestFault DEF SyncFails, StoreOK, RestOK, proc, redis, Note, When
  <2>3. SyncTyped'
    BY <1>0, <1>3 DEF SyncFails, SyncTyped, NoSync, Keys
  <2> QED
    BY <2>1, <2>2, <2>3, BasePartsNext
<1>4. ASSUME NEW k \in Keys, SyncTake(k) PROVE Base'
  <2>1. PcOK' /\ ProcOK'
    BY <1>0, <1>4 DEF SyncTake, PcOK, ProcOK, pc, proc
  <2>2. StoreOK'
    BY <1>0, <1>4 DEF SyncTake, StoreOK, Stores, Keys
  <2>3. RestOK'
    BY <1>0, <1>4 DEF SyncTake, RestOK, proc, Note, When
  <2>4. SyncTyped'
    <3>1. CASE k = "lock"
      BY <1>0, <1>4, <3>1 DEF SyncTake, SyncTyped, Keys, StoreOK, Stores
    <3>2. CASE k = "state"
      BY <1>0, <1>4, <3>2 DEF SyncTake, SyncTyped, Keys, StoreOK, Stores
    <3>3. CASE k = "feed"
      BY <1>0, <1>4, <3>3 DEF SyncTake, SyncTyped, Keys, StoreOK, Stores
    <3> QED
      BY <1>4, <3>1, <3>2, <3>3 DEF Keys
  <2> QED
    BY <2>1, <2>2, <2>3, <2>4, BasePartsNext
<1> QED
  BY <1>1, <1>2, <1>3, <1>4

LEMMA BaseStep == Base /\ [TableNext]_tableVars => Base'
<1> SUFFICES ASSUME Base, [TableNext]_tableVars PROVE Base'
  OBVIOUS
<1>1. CASE UNCHANGED tableVars
  BY <1>1 DEF tableVars, pc, redis, proc, ghosts, Base, TableTypeOK, SyncTyped, MadeOnly
<1>2. ASSUME NEW p \in Procs, Step(p) PROVE Base'
  BY <1>2, BaseAsk, BasePrimary, BasePrimaryFails, BaseMirror, BasePromote, BaseBackup,
     BaseReplicas DEF Step
<1> QED
  BY <1>1, <1>2, BasePc, BaseStop, BaseExpires, BaseSync DEF TableNext

\* The variables have their types, whatever fails.
THEOREM TableTypeCorrect == TableSpec => []TableTypeOK
<1>1. TableInit => Base
  BY BaseInit
<1>2. Base /\ [TableNext]_tableVars => Base'
  BY BaseStep
<1>3. Base => TableTypeOK
  BY DEF Base
<1> QED
  BY <1>1, <1>2, <1>3, PTL DEF TableSpec

-----------------------------------------------------------------------------
(* The order of progress. *)

\* A finite set of numbers has a greatest one: the smallest set without one would lose it
\* by losing any element.
LEMMA GreatestNumber ==
    ASSUME NEW T, T \subseteq Nat, IsFiniteSet(T), T # {}
    PROVE  \E m \in T : \A n \in T : n <= m
<1> DEFINE Top(U) == \E m \in U : \A n \in U : n <= m
           Bad == {U \in SUBSET T : U # {} /\ ~ Top(U)}
           R == StrictSubsetOrdering(T)
<1> SUFFICES ASSUME ~ Top(T) PROVE FALSE
  OBVIOUS
<1>1. IsWellFoundedOn(R, FiniteSubsetsOf(T))
  BY FS_StrictSubsetOrderingWellFounded
<1>2. Bad # {} /\ Bad \subseteq FiniteSubsetsOf(T)
  BY FS_Subset DEF FiniteSubsetsOf
<1>3. \A U, V \in SUBSET T : U \subseteq V /\ U # V => <<U, V>> \in R
  BY DEF StrictSubsetOrdering
<1>4. PICK U \in Bad : \A V \in Bad : ~ (<<V, U>> \in R)
  <2> HIDE DEF R, Bad
  <2> QED
    BY <1>1, <1>2, WFMin
<1> HIDE DEF R
<1>5. PICK x \in U : TRUE
  BY <1>4
<1> DEFINE V == U \ {x}
<1>6. V \in SUBSET T /\ U \in SUBSET T /\ V \subseteq U /\ V # U /\ x \in Nat
  BY <1>4, <1>5
<1>7. V \notin Bad
  BY <1>3, <1>4, <1>6
<1>8. CASE V = {}
  <2>1. \A n \in U : n = x
    BY <1>8
  <2> QED
    BY <1>4, <1>5, <1>6, <2>1
<1>9. CASE V # {}
  <2>1. PICK m \in V : \A n \in V : n <= m
    BY <1>6, <1>7, <1>9
  <2>2. m \in U /\ m \in Nat /\ U \subseteq Nat
    BY <1>6
  <2>3. CASE x <= m
    BY <1>4, <1>5, <2>1, <2>2, <2>3
  <2>4. CASE m <= x
    <3>1. \A n \in U : n <= x
      BY <1>6, <2>1, <2>2, <2>4
    <3> QED
      BY <1>4, <1>5, <3>1
  <2> QED
    BY <1>6, <2>2, <2>3, <2>4
<1> QED
  BY <1>8, <1>9

LEMMA Progress ==
    ASSUME NEW t \in DayTables
    PROVE  LastSlot(t) \in Nat /\ Cardinality(Taken(t)) \in Nat
<1>1. Taken(t) \subseteq Nat /\ IsFiniteSet(Taken(t))
  BY TableAssumption, FS_Subset DEF Taken
<1>2. Cardinality(Taken(t)) \in Nat
  BY <1>1, FS_CardinalityType
<1>3. CASE Taken(t) = {}
  BY <1>2, <1>3 DEF LastSlot
<1>4. CASE Taken(t) # {}
  <2>1. \E s \in Taken(t) : \A o \in Taken(t) : o <= s
    BY <1>1, <1>4, GreatestNumber
  <2>2. LastSlot(t) \in Taken(t)
    BY <1>4, <2>1 DEF LastSlot
  <2> QED
    BY <1>1, <1>2, <2>2
<1> QED
  BY <1>3, <1>4

\* No table is newer than itself, and what is not newer than a table is not newer than one
\* that this is not newer than.
LEMMA NotNewerThanItself == ASSUME NEW t \in DayTables PROVE ~ Newer(t, t)
  BY Progress DEF Newer

LEMMA NotNewerOnward ==
    ASSUME NEW t \in DayTables, NEW u \in DayTables, NEW v \in DayTables,
           ~ Newer(t, u), ~ Newer(u, v)
    PROVE  ~ Newer(t, v)
<1>1. /\ LastSlot(t) \in Nat /\ Cardinality(Taken(t)) \in Nat
      /\ LastSlot(u) \in Nat /\ Cardinality(Taken(u)) \in Nat
      /\ LastSlot(v) \in Nat /\ Cardinality(Taken(v)) \in Nat
  BY Progress
<1> QED
  BY <1>1 DEF Newer

\* Only an empty table is not newer than an empty one.
LEMMA OnlyEmpty == ASSUME NEW t \in DayTables, ~ Newer(t, Empty) PROVE t = Empty
<1>1. Taken(Empty) = {} /\ LastSlot(Empty) = 0 /\ Cardinality(Taken(Empty)) = 0
  BY FS_EmptySet DEF Taken, Empty, LastSlot
<1>2. LastSlot(t) \in Nat /\ Cardinality(Taken(t)) \in Nat
  BY Progress
<1>3. LastSlot(t) = 0 /\ Cardinality(Taken(t)) = 0
  BY <1>1, <1>2 DEF Newer
<1>4. IsFiniteSet(Taken(t))
  BY TableAssumption, FS_Subset DEF Taken
<1>5. Taken(t) = {}
  BY <1>3, <1>4, FS_EmptySet
<1>6. \A s \in Slots : t[s] = "none"
  BY <1>5 DEF Taken
<1> QED
  BY <1>6 DEF Empty, DayTables

\* To put an appointment in twice is to put it in once.
LEMMA PutTwice ==
    ASSUME NEW t \in DayTables, NEW q \in Appointments
    PROVE  Put(Put(t, q), q) = Put(t, q)
<1> DEFINE u == Put(t, q)
<1>1. u = [s \in Slots |-> CASE s = q.slot -> q.side
                       [] s = q.legacy /\ s # q.slot /\ t[s] = q.side -> "none"
                       [] OTHER -> t[s]]
  BY DEF Put
<1>2. Put(u, q) = [s \in Slots |-> CASE s = q.slot -> q.side
                       [] s = q.legacy /\ s # q.slot /\ u[s] = q.side -> "none"
                       [] OTHER -> u[s]]
  BY DEF Put
<1>3. q.side \in {"BUY", "SELL"}
  BY DEF Appointments
<1> HIDE DEF u
<1>4. ASSUME NEW s \in Slots PROVE Put(u, q)[s] = u[s]
  <2>1. CASE s = q.slot
    BY <1>1, <1>2, <2>1
  <2>2. CASE s # q.slot /\ s = q.legacy /\ t[s] = q.side
    BY <1>1, <1>2, <1>3, <2>2
  <2>3. CASE s # q.slot /\ ~ (s = q.legacy /\ t[s] = q.side)
    BY <1>1, <1>2, <1>3, <2>3
  <2> QED
    BY <2>1, <2>2, <2>3
<1>5. Put(u, q) = [s \in Slots |-> u[s]] /\ u = [s \in Slots |-> u[s]]
  BY <1>1, <1>2, <1>4
<1> QED
  BY <1>5 DEF u

-----------------------------------------------------------------------------
(* As long as no cause is noted, appointment k is the next to be accepted: *)
(* those before it are what want holds, and the tables hold want, or want  *)
(* with k placed in it.                                                    *)

Placed(k) == Put(want, plan[k])

\* Appointment k is made, and the table with it is not older than the one without.
Grows(k) == k <= made /\ ~ Newer(want, Placed(k))

\* A table, or none, that is what a reader has to see.
Current(k, x) == OrEmpty(x) = want \/ (Grows(k) /\ OrEmpty(x) = Placed(k))

\* A table, or none, that no reader prefers to a current one.
Held(k, x) == x = Absent \/ ~ Newer(x, want) \/ (Grows(k) /\ x = Placed(k))

\* A table is at every database that counts, unless the copying run is just replacing it.
Everywhere(g, x) ==
    IF marker THEN backup[g] = x ELSE primary[g] = x /\ (sync.key # g => backup[g] = x)

\* The request the PC waits for has published, and has only to unlock.
Finishing == \E q \in Procs : waiting = q /\ op[q] = "release"

\* The queue holds the appointments from k on; its file, those and perhaps some before.
\* When all are settled, the last one is in the table.
InOrder(k) ==
    /\ k \in 1 .. made + 1
    /\ queue.memory = k .. made
    /\ \E j \in 1 .. k : queue.file = j .. made
    /\ made > 0 /\ k = made + 1 => Put(want, plan[made]) = want

\* The PC waits for k, and no process serves a later one.
Requests(k) ==
    /\ \A p \in Procs : waiting = p => op[p] # "idle" /\ req[p] = k /\ k <= made
    /\ \A p \in Procs : op[p] # "idle" => req[p] <= k

\* Who is at which database.
Routed ==
    \A p \in Procs :
        /\ via[p] \in {"primary", "mirror"} => ~ marker
        /\ via[p] = "backup" => marker
        /\ p \in away => marker \/ via[p] = "promote"
        /\ op[p] \in {"idle", "replicas", "seedReplicas"} => via[p] = "ask"

\* A process inside has the lock of the database that counts, and will have that of the
\* backup should it come to count.
Locked ==
    \A p \in Procs :
        /\ op[p] = "acquire" /\ via[p] = "mirror" => primary.lock = p
        /\ Inside(p) /\ marker => backup.lock = p
        /\ Inside(p) /\ ~ marker =>
              /\ primary.lock = p
              /\ backup.lock = p \/ (sync.key = "lock" /\ sync.value = p)

\* What counts is current, the rest is held.
Stored(k) ==
    \A g \in {"state", "feed"} :
        /\ marker => Current(k, backup[g]) /\ Held(k, primary[g])
        /\ ~ marker => Current(k, primary[g]) /\ Held(k, backup[g])
        /\ ~ marker /\ sync.key # g => Current(k, backup[g])

\* What the processes have in hand.
Hands(k) ==
    \A p \in Procs :
        /\ op[p] \in {"replicas", "seedReplicas"} => Current(k, copy[p])
        /\ op[p] \in {"save", "publish"} =>
              \/ req[p] = k /\ Grows(k) /\ copy[p] = Placed(k)
              \/ req[p] = k - 1 /\ copy[p] = want
        /\ op[p] = "publish" => Everywhere("state", copy[p])
        /\ via[p] = "mirror" /\ op[p] = "save" => primary.state = copy[p]
        /\ via[p] = "mirror" /\ op[p] = "publish" => primary.feed = copy[p]

\* Before the PC hears that k is accepted, every table has it, and whoever has entered
\* since has found it.
Finished(k) ==
    Finishing =>
        /\ Grows(k) /\ Everywhere("state", Placed(k)) /\ Everywhere("feed", Placed(k))
        /\ \A p \in Procs : op[p] \in {"save", "publish"} => req[p] = k
        /\ \A p \in Procs : op[p] \in {"replicas", "seedReplicas"} => copy[p] = Placed(k)

IsNext(k) ==
    InOrder(k) /\ Requests(k) /\ Routed /\ Locked /\ Stored(k) /\ Hands(k) /\ Finished(k)

LEMMA OneInside ==
    ASSUME Locked, NEW p \in Procs, NEW q \in Procs, Inside(p), Inside(q)
    PROVE  p = q
  BY DEF Locked

\* What a process saves and publishes is current.
LEMMA HandsCurrent ==
    ASSUME Base, NEW k, Hands(k), NEW p \in Procs, op[p] \in {"save", "publish"}
    PROVE  Current(k, copy[p]) /\ Held(k, copy[p]) /\ copy[p] \in DayTables
<1>1. want \in DayTables /\ ~ Newer(want, want)
  BY NotNewerThanItself DEF Base, TableTypeOK
<1>2. op[p] # "idle" /\ req[p] \in 1 .. made
  BY DEF Base, MadeOnly
<1>3. copy[p] \in DayTables \cup {Absent} /\ copy[p] # Absent
  <2>1. CASE copy[p] = want
    BY <1>1, <2>1, AbsentIsNone
  <2>2. CASE req[p] = k /\ copy[p] = Placed(k)
    <3>1. plan[k] \in Appointments
      BY <1>2, <2>2, PlanTyped DEF Base
    <3> QED
      BY <1>1, <2>2, <3>1, PutTyped, AbsentIsNone DEF Placed
  <2> QED
    BY <2>1, <2>2 DEF Hands, Base, TableTypeOK
<1>4. OrEmpty(copy[p]) = copy[p]
  BY <1>3 DEF OrEmpty
<1> QED
  BY <1>1, <1>3, <1>4 DEF Hands, Current, Held

\* Nothing of it changes with the PC and its ghosts unchanged.
LEMMA SameNext ==
    ASSUME NEW k, UNCHANGED <<pc, want>>
    PROVE  /\ Placed(k)' = Placed(k) /\ (Grows(k)' <=> Grows(k)) /\ (InOrder(k) => InOrder(k)')
  BY DEF pc, Placed, Grows, InOrder

-----------------------------------------------------------------------------
(* The steps of a request. *)

\* Causes are never taken back.
LEMMA NextAsk ==
    ASSUME Base, NEW k, IsNext(k), NEW p \in Procs, Ask(p), causes' = {}
    PROVE  IsNext(k)'
<1>0. InOrder(k) /\ Requests(k) /\ Routed /\ Locked /\ Stored(k) /\ Hands(k) /\ Finished(k)
  BY DEF IsNext
<1>1. /\ via[p] = "ask" /\ op[p] \notin {"idle", "replicas", "seedReplicas"}
      /\ Part(p, IF p \in away \/ marker THEN "backup" ELSE "primary")
      /\ UNCHANGED <<redis, away, op, sync>>
  BY DEF Ask, Calls, Note
<1>2. /\ via \in [Procs -> {"ask", "primary", "mirror", "promote", "backup"}]
      /\ via' = [via EXCEPT ![p] = IF p \in away \/ marker THEN "backup" ELSE "primary"]
      /\ UNCHANGED <<pc, want, req, copy>>
  BY <1>1 DEF Part, Base, TableTypeOK
<1>3. UNCHANGED <<plan, made, queue, waiting, primary, backup, marker, op, sync, away>>
  BY <1>1, <1>2 DEF pc, redis
<1>4. InOrder(k)' /\ Placed(k)' = Placed(k) /\ (Grows(k)' <=> Grows(k))
  BY <1>0, <1>2, SameNext
<1>5. Requests(k)'
  BY <1>0, <1>2, <1>3 DEF Requests
<1>6. Routed'
  BY <1>0, <1>1, <1>2, <1>3 DEF Routed
<1>7. Locked'
  BY <1>0, <1>2, <1>3 DEF Locked, Inside
<1>8. Stored(k)'
  BY <1>0, <1>2, <1>3, <1>4 DEF Stored, Current, Held
<1>9. Hands(k)'
  BY <1>0, <1>2, <1>3, <1>4 DEF Hands, Current, Everywhere
<1>10. Finished(k)'
  BY <1>0, <1>2, <1>3, <1>4 DEF Finished, Finishing, Everywhere
<1> QED
  BY <1>4, <1>5, <1>6, <1>7, <1>8, <1>9, <1>10 DEF IsNext

\* The lock is all that the other calls change.
LEMMA ApplyLock ==
    ASSUME NEW p, NEW store \in Stores, op[p] \notin {"save", "publish"}
    PROVE  /\ Apply(p, store).state = store.state /\ Apply(p, store).feed = store.feed
           /\ Apply(p, store).lock =
                 IF op[p] \in {"acquire", "busy"} /\ store.lock = Nobody THEN p
                 ELSE IF op[p] \in {"release", "unwind"} /\ store.lock = p THEN Nobody
                 ELSE store.lock
  BY DEF Apply, Stores

LEMMA ApplySave ==
    ASSUME NEW p, NEW store \in Stores, op[p] = "save"
    PROVE  /\ Apply(p, store).state = copy[p] /\ Apply(p, store).feed = store.feed
           /\ Apply(p, store).lock = store.lock
  BY DEF Apply, Stores

LEMMA ApplyPublish ==
    ASSUME NEW p, NEW store \in Stores, op[p] = "publish"
    PROVE  /\ Apply(p, store).feed = copy[p] /\ Apply(p, store).state = store.state
           /\ Apply(p, store).lock = store.lock
  BY DEF Apply, Stores

\* A write at the primary, that is not in the backup yet.
LEMMA NextPrimaryActs ==
    ASSUME Base, NEW k, IsNext(k), NEW p \in Procs, via[p] = "primary",
           op[p] \notin {"idle", "replicas", "seedReplicas"},
           primary' \in {primary, Apply(p, primary)},
           UNCHANGED <<pc, want, req, copy, backup, marker, sync>>,
           via' \in {[via EXCEPT ![p] = "mirror"], [via EXCEPT ![p] = "promote"]},
           via' = [via EXCEPT ![p] = "mirror"] => primary' = Apply(p, primary) /\ away' = away,
           via' = [via EXCEPT ![p] = "promote"] => away' = away \cup {p} /\ op' = op,
           op' = IF op[p] = "acquire" /\ primary.lock # Nobody /\ via' = [via EXCEPT ![p] = "mirror"]
                 THEN [op EXCEPT ![p] = "busy"] ELSE op
    PROVE  IsNext(k)'
<1>0. InOrder(k) /\ Requests(k) /\ Routed /\ Locked /\ Stored(k) /\ Hands(k) /\ Finished(k)
  BY DEF IsNext
<1>1. /\ via \in [Procs -> {"ask", "primary", "mirror", "promote", "backup"}]
      /\ op \in [Procs -> Ops] /\ primary \in Stores /\ ~ marker
      /\ primary.lock \in Procs \cup {Nobody, Old} /\ p # Nobody
  BY <1>0, TableAssumption DEF Base, TableTypeOK, Stores, Routed
<1>2. UNCHANGED <<plan, made, queue, waiting>>
  BY DEF pc
<1>3. InOrder(k)' /\ Placed(k)' = Placed(k) /\ (Grows(k)' <=> Grows(k))
  BY <1>0, SameNext
<1>4. \A q \in Procs : /\ (Inside(q)' <=> Inside(q)) /\ (q # p => op'[q] = op[q] /\ via'[q] = via[q])
                       /\ (op'[q] = "idle" <=> op[q] = "idle")
                       /\ (op'[q] = op[q] \/ (q = p /\ op'[q] = "busy" /\ op[p] = "acquire"))
  BY <1>1 DEF Inside
<1>5. Requests(k)'
  BY <1>0, <1>2, <1>4 DEF Requests
<1>6. Routed'
  BY <1>0, <1>1, <1>4 DEF Routed
<1>7. /\ primary'.lock = primary.lock \/ (primary.lock = Nobody /\ primary'.lock = p)
           \/ (primary.lock = p /\ op[p] \in {"release", "unwind"} /\ primary'.lock = Nobody)
      /\ op[p] = "acquire" /\ primary.lock = Nobody /\ via' = [via EXCEPT ![p] = "mirror"] => primary'.lock = p
  <2>1. CASE primary' = primary
    BY <2>1, <1>1, ApplyLock
  <2>2. CASE primary' = Apply(p, primary) /\ op[p] \notin {"save", "publish"}
    BY <2>2, <1>1, ApplyLock
  <2>3. CASE primary' = Apply(p, primary) /\ op[p] \in {"save", "publish"}
    BY <2>3, <1>1, ApplySave, ApplyPublish
  <2> QED
    BY <2>1, <2>2, <2>3
<1>8. Locked'
  <2> SUFFICES ASSUME NEW q \in Procs
               PROVE  /\ op'[q] = "acquire" /\ via'[q] = "mirror" => primary'.lock = q
                      /\ Inside(q)' => primary'.lock = q /\ (backup.lock = q \/ (sync.key = "lock" /\ sync.value = q))
    BY <1>1 DEF Locked
  <2>1. op'[q] = "acquire" /\ via'[q] = "mirror" => primary'.lock = q
    <3>1. CASE q = p
      BY <1>1, <1>4, <1>7, <3>1
    <3>2. CASE q # p
      BY <1>0, <1>1, <1>4, <1>7, <3>2, TableAssumption DEF Locked
    <3> QED
      BY <3>1, <3>2
  <2>2. Inside(q)' => primary'.lock = q /\ (backup.lock = q \/ (sync.key = "lock" /\ sync.value = q))
    <3> SUFFICES ASSUME Inside(q)' PROVE primary'.lock = q /\ (backup.lock = q \/ (sync.key = "lock" /\ sync.value = q))
      OBVIOUS
    <3>1. Inside(q) /\ q # Nobody
      BY <1>4, TableAssumption
    <3>2. primary.lock = q /\ (backup.lock = q \/ (sync.key = "lock" /\ sync.value = q))
      BY <1>0, <1>1, <3>1 DEF Locked
    <3>3. ~ (q = p /\ op[p] \in {"release", "unwind"})
      BY <3>1 DEF Inside
    <3> QED
      BY <1>7, <3>1, <3>2, <3>3
  <2> QED
    BY <2>1, <2>2
<1>9. /\ primary'.state = primary.state \/ (op[p] = "save" /\ primary'.state = copy[p])
      /\ primary'.feed = primary.feed \/ (op[p] = "publish" /\ primary'.feed = copy[p])
      /\ via' = [via EXCEPT ![p] = "mirror"] /\ op[p] = "save" => primary'.state = copy[p]
      /\ via' = [via EXCEPT ![p] = "mirror"] /\ op[p] = "publish" => primary'.feed = copy[p]
  BY <1>1, ApplyLock, ApplySave, ApplyPublish
<1>10. \A q \in Procs : Inside(q) /\ Inside(p) => q = p
  BY <1>0, OneInside
<1>11. op[p] \in {"save", "publish"} => Current(k, copy[p]) /\ Inside(p)
  BY <1>0, HandsCurrent DEF Inside
<1>12. Stored(k)'
  BY <1>0, <1>1, <1>3, <1>9, <1>11 DEF Stored, Current, Held
<1>13. Hands(k)'
  <2> SUFFICES ASSUME NEW q \in Procs
               PROVE  /\ op'[q] \in {"replicas", "seedReplicas"} => Current(k, copy[q])
                      /\ op'[q] \in {"save", "publish"} =>
                            \/ req[q] = k /\ Grows(k) /\ copy[q] = Placed(k)
                            \/ req[q] = k - 1 /\ copy[q] = want
                      /\ op'[q] = "publish" => primary'.state = copy[q] /\ (sync.key # "state" => backup.state = copy[q])
                      /\ via'[q] = "mirror" /\ op'[q] = "save" => primary'.state = copy[q]
                      /\ via'[q] = "mirror" /\ op'[q] = "publish" => primary'.feed = copy[q]
    BY <1>1, <1>3 DEF Hands, Current, Everywhere
  <2>1. op'[q] \in {"replicas", "seedReplicas", "save", "publish"} => op'[q] = op[q]
    BY <1>4
  <2>2. /\ op'[q] \in {"replicas", "seedReplicas"} => Current(k, copy[q])
        /\ op'[q] \in {"save", "publish"} =>
                            \/ req[q] = k /\ Grows(k) /\ copy[q] = Placed(k)
                            \/ req[q] = k - 1 /\ copy[q] = want
    BY <1>0, <2>1 DEF Hands
  <2>3. op'[q] = "publish" => primary'.state = copy[q] /\ (sync.key # "state" => backup.state = copy[q])
    <3> SUFFICES ASSUME op'[q] = "publish" PROVE primary'.state = copy[q] /\ (sync.key # "state" => backup.state = copy[q])
      OBVIOUS
    <3>1. op[q] = "publish" /\ Inside(q)
      BY <2>1 DEF Inside
    <3>2. primary.state = copy[q] /\ (sync.key # "state" => backup.state = copy[q])
      BY <1>0, <1>1, <3>1 DEF Hands, Everywhere
    <3>3. op[p] # "save"
      BY <1>10, <1>11, <3>1
    <3> QED
      BY <1>9, <3>2, <3>3
  <2>4. /\ via'[q] = "mirror" /\ op'[q] = "save" => primary'.state = copy[q]
        /\ via'[q] = "mirror" /\ op'[q] = "publish" => primary'.feed = copy[q]
    <3>1. CASE q = p
      BY <1>1, <1>9, <2>1, <3>1
    <3>2. CASE q # p
      <4>1. op'[q] \in {"save", "publish"} => op[p] \notin {"save", "publish"}
        BY <1>10, <1>11, <2>1, <3>2 DEF Inside
      <4> QED
        BY <1>0, <1>4, <1>9, <2>1, <3>2, <4>1 DEF Hands
    <3> QED
      BY <3>1, <3>2
  <2> QED
    BY <2>2, <2>3, <2>4
<1>14. Finished(k)'
  <2> SUFFICES ASSUME Finishing'
               PROVE  /\ Grows(k) /\ primary'.state = Placed(k) /\ primary'.feed = Placed(k)
                      /\ sync.key # "state" => backup.state = Placed(k)
                      /\ sync.key # "feed" => backup.feed = Placed(k)
                      /\ \A q \in Procs : op'[q] \in {"save", "publish"} => req[q] = k
                      /\ \A q \in Procs : op'[q] \in {"replicas", "seedReplicas"} => copy[q] = Placed(k)
    BY <1>1, <1>3 DEF Finished, Everywhere
  <2>1. Finishing
    BY <1>2, <1>4 DEF Finishing
  <2>2. /\ Grows(k) /\ primary.state = Placed(k) /\ primary.feed = Placed(k)
        /\ sync.key # "state" => backup.state = Placed(k)
        /\ sync.key # "feed" => backup.feed = Placed(k)
        /\ \A q \in Procs : op[q] \in {"save", "publish"} => req[q] = k
        /\ \A q \in Procs : op[q] \in {"replicas", "seedReplicas"} => copy[q] = Placed(k)
    BY <1>0, <1>1, <2>1 DEF Finished, Everywhere
  <2>3. op[p] \in {"save", "publish"} => copy[p] = Placed(k)
    <3>1. k \in Nat
      BY <1>0 DEF InOrder, Base, TableTypeOK
    <3> QED
      BY <1>0, <2>2, <3>1 DEF Hands
  <2> QED
    BY <1>4, <1>9, <2>2, <2>3
<1> QED
  BY <1>3, <1>5, <1>6, <1>8, <1>12, <1>13, <1>14 DEF IsNext

\* What a call does to the backup leaves current what is current.
LEMMA StoredKept ==
    ASSUME Base, NEW k, IsNext(k), NEW p \in Procs, UNCHANGED <<pc, want, primary, marker, sync>>,
           backup' \in {backup, Apply(p, backup)}
    PROVE  Stored(k)'
<1>0. Stored(k) /\ Hands(k) /\ Placed(k)' = Placed(k) /\ (Grows(k)' <=> Grows(k)) /\ backup \in Stores
  BY SameNext DEF IsNext, Base, TableTypeOK
<1>1. /\ backup'.state = backup.state \/ (op[p] = "save" /\ backup'.state = copy[p])
      /\ backup'.feed = backup.feed \/ (op[p] = "publish" /\ backup'.feed = copy[p])
  BY <1>0, ApplyLock, ApplySave, ApplyPublish
<1>2. op[p] \in {"save", "publish"} => Current(k, copy[p]) /\ Held(k, copy[p])
  BY <1>0, HandsCurrent
<1> QED
  BY <1>0, <1>1, <1>2 DEF Stored, Current, Held

\* Nor does it take the lock of anyone else.
LEMMA LocksKept ==
    ASSUME Base, Routed, Locked, NEW p \in Procs, UNCHANGED <<primary, marker, sync>>,
           backup' \in {backup, Apply(p, backup)},
           NEW q \in Procs, q # p \/ op[p] \notin {"release", "unwind"},
           q # p => op'[q] = op[q] /\ via'[q] = via[q]
    PROVE  /\ q # p => (op'[q] = "acquire" /\ via'[q] = "mirror" => primary'.lock = q)
           /\ Inside(q) /\ marker => backup'.lock = q
           /\ Inside(q) /\ ~ marker => /\ primary'.lock = q
                                       /\ backup'.lock = q \/ (sync'.key = "lock" /\ sync'.value = q)
<1>1. backup \in Stores /\ q # Nobody
  BY TableAssumption DEF Base, TableTypeOK
<1>2. backup'.lock = backup.lock \/ backup.lock = Nobody
      \/ (backup.lock = p /\ op[p] \in {"release", "unwind"})
  BY <1>1, ApplyLock, ApplySave, ApplyPublish
<1> QED
  BY <1>1, <1>2 DEF Locked

\* The call is over and the request goes on.
LEMMA ThenKeeps ==
    ASSUME Base, NEW k, IsNext(k), NEW p \in Procs, NEW o, NEW t, Then(p, o, t),
           op[p] # "idle", o # "idle",
           UNCHANGED <<marker, away>>, p \in away => marker
    PROVE  /\ InOrder(k)' /\ Requests(k)' /\ Routed'
           /\ Placed(k)' = Placed(k) /\ (Grows(k)' <=> Grows(k))
           /\ op'[p] = o /\ via'[p] = "ask" /\ copy'[p] = t /\ req' = req /\ waiting' = waiting
           /\ \A q \in Procs : q # p => op'[q] = op[q] /\ via'[q] = via[q] /\ copy'[q] = copy[q]
<1>0. InOrder(k) /\ Requests(k) /\ Routed
  BY DEF IsNext
<1>1. /\ via \in [Procs -> {"ask", "primary", "mirror", "promote", "backup"}]
      /\ op \in [Procs -> Ops] /\ copy \in [Procs -> DayTables \cup {Absent}]
  BY DEF Base, TableTypeOK
<1>2. /\ op' = [op EXCEPT ![p] = o] /\ via' = [via EXCEPT ![p] = "ask"]
      /\ copy' = [copy EXCEPT ![p] = t] /\ UNCHANGED <<pc, req, want>>
  BY DEF Then
<1>3. UNCHANGED <<plan, made, queue, waiting>>
  BY <1>2 DEF pc
<1>4. InOrder(k)' /\ Placed(k)' = Placed(k) /\ (Grows(k)' <=> Grows(k))
  BY <1>0, <1>2, SameNext
<1>5. /\ op'[p] = o /\ via'[p] = "ask" /\ copy'[p] = t /\ req' = req
      /\ \A q \in Procs : q # p => op'[q] = op[q] /\ via'[q] = via[q] /\ copy'[q] = copy[q]
  BY <1>1, <1>2
<1>6. Requests(k)'
  BY <1>0, <1>2, <1>3, <1>5 DEF Requests
<1>7. Routed'
  BY <1>0, <1>5 DEF Routed
<1> QED
  BY <1>3, <1>4, <1>5, <1>6, <1>7

\* The request is over, and the PC has not accepted by it.
LEMMA AnswerKeeps ==
    ASSUME Base, NEW k, IsNext(k), NEW p \in Procs, NEW ok, Answer(p, ok), ~ (waiting = p /\ ok),
           marker' = marker, away' = away \/ away' = away \ {p}, p \in away' => marker
    PROVE  /\ InOrder(k)' /\ Requests(k)' /\ Routed'
           /\ Placed(k)' = Placed(k) /\ (Grows(k)' <=> Grows(k)) /\ want' = want
           /\ op'[p] = "idle" /\ via'[p] = "ask" /\ waiting' \in {waiting, Nobody}
           /\ \A q \in Procs : q # p => /\ op'[q] = op[q] /\ via'[q] = via[q]
                                        /\ copy'[q] = copy[q] /\ req'[q] = req[q]
<1>0. InOrder(k) /\ Requests(k) /\ Routed
  BY DEF IsNext
<1>1. /\ via \in [Procs -> {"ask", "primary", "mirror", "promote", "backup"}]
      /\ op \in [Procs -> Ops] /\ copy \in [Procs -> DayTables \cup {Absent}]
      /\ req \in [Procs -> Ids \cup {0}]
  BY DEF Base, TableTypeOK
<1>2. /\ op' = [op EXCEPT ![p] = "idle"] /\ via' = [via EXCEPT ![p] = "ask"]
      /\ copy' = [copy EXCEPT ![p] = Absent] /\ req' = [req EXCEPT ![p] = 0]
      /\ waiting' = IF waiting = p THEN Nobody ELSE waiting
      /\ UNCHANGED <<plan, made, queue, want>>
  BY DEF Answer
<1>3. InOrder(k)' /\ Placed(k)' = Placed(k) /\ (Grows(k)' <=> Grows(k))
  BY <1>0, <1>2 DEF InOrder, Placed, Grows
<1>4. /\ op'[p] = "idle" /\ via'[p] = "ask" /\ waiting' \in {waiting, Nobody}
      /\ \A q \in Procs : q # p => /\ op'[q] = op[q] /\ via'[q] = via[q]
                                   /\ copy'[q] = copy[q] /\ req'[q] = req[q]
  BY <1>1, <1>2
<1>5. waiting' # p /\ Nobody \notin Procs
  BY <1>2, TableAssumption
<1>6. Requests(k)'
  BY <1>0, <1>2, <1>4, <1>5 DEF Requests
<1>7. Routed'
  BY <1>0, <1>4 DEF Routed
<1> QED
  BY <1>2, <1>3, <1>4, <1>6, <1>7

LEMMA NextThen ==
    ASSUME Base, NEW k, IsNext(k), NEW p \in Procs, NEW o, NEW t, Then(p, o, t),
           UNCHANGED <<primary, marker, sync, away>>, p \in away => marker,
           backup' \in {backup, Apply(p, backup)},
           op[p] \notin {"idle", "replicas", "seedReplicas", "release", "unwind"},
           \/ /\ op[p] \in {"load", "seed"} /\ o \in {"replicas", "seedReplicas"}
              /\ \E g \in {"state", "feed"} : t = IF marker THEN backup[g] ELSE primary[g]
           \/ op[p] = "acquire" /\ o = "load" /\ backup'.lock = p /\ (~ marker => primary.lock = p)
           \/ /\ op[p] = "save" /\ o = "publish" /\ t = copy[p]
              /\ backup'.state = copy[p] /\ (~ marker => primary.state = copy[p])
           \/ /\ op[p] = "publish" /\ o = "release"
              /\ backup'.feed = copy[p] /\ (~ marker => primary.feed = copy[p])
           \/ o = "unwind"
    PROVE  IsNext(k)'
<1>0. InOrder(k) /\ Requests(k) /\ Routed /\ Locked /\ Stored(k) /\ Hands(k) /\ Finished(k)
  BY DEF IsNext
<1>1. backup \in Stores /\ k \in Nat /\ marker \in BOOLEAN
  BY <1>0 DEF Base, TableTypeOK, InOrder
<1>2. /\ InOrder(k)' /\ Requests(k)' /\ Routed'
      /\ Placed(k)' = Placed(k) /\ (Grows(k)' <=> Grows(k))
      /\ op'[p] = o /\ via'[p] = "ask" /\ copy'[p] = t /\ req' = req /\ waiting' = waiting
      /\ \A q \in Procs : q # p => op'[q] = op[q] /\ via'[q] = via[q] /\ copy'[q] = copy[q]
  BY ThenKeeps
<1>3. UNCHANGED <<pc, want>>
  BY DEF Then
<1>4. Stored(k)'
  BY <1>3, StoredKept
<1>5. /\ backup'.state = backup.state \/ (op[p] = "save" /\ backup'.state = copy[p])
      /\ backup'.feed = backup.feed \/ (op[p] = "publish" /\ backup'.feed = copy[p])
  BY <1>1, ApplyLock, ApplySave, ApplyPublish
<1>6. \A q \in Procs : Inside(q) /\ Inside(p) => q = p
  BY <1>0, OneInside
<1>7. Locked'
  <2> SUFFICES ASSUME NEW q \in Procs
               PROVE  /\ op'[q] = "acquire" /\ via'[q] = "mirror" => primary'.lock = q
                      /\ Inside(q)' /\ marker' => backup'.lock = q
                      /\ Inside(q)' /\ ~ marker' =>
                            /\ primary'.lock = q
                            /\ backup'.lock = q \/ (sync'.key = "lock" /\ sync'.value = q)
    BY DEF Locked
  <2>1. /\ q # p => (op'[q] = "acquire" /\ via'[q] = "mirror" => primary'.lock = q)
        /\ Inside(q) /\ marker => backup'.lock = q
        /\ Inside(q) /\ ~ marker => /\ primary'.lock = q
                                    /\ backup'.lock = q \/ (sync'.key = "lock" /\ sync'.value = q)
    BY <1>0, <1>2, LocksKept
  <2>2. Inside(q)' => Inside(q) \/ (q = p /\ backup'.lock = p /\ (~ marker => primary.lock = p))
    BY <1>2 DEF Inside
  <2> QED
    BY <1>2, <2>1, <2>2
<1>8. Hands(k)'
  <2> SUFFICES ASSUME NEW q \in Procs
               PROVE  /\ op'[q] \in {"replicas", "seedReplicas"} => Current(k, copy'[q])
                      /\ op'[q] \in {"save", "publish"} =>
                            \/ req[q] = k /\ Grows(k) /\ copy'[q] = Placed(k)
                            \/ req[q] = k - 1 /\ copy'[q] = want
                      /\ op'[q] = "publish" => Everywhere("state", copy[q])' /\ copy'[q] = copy[q]
                      /\ via'[q] = "mirror" /\ op'[q] = "save" => primary'.state = copy'[q]
                      /\ via'[q] = "mirror" /\ op'[q] = "publish" => primary'.feed = copy'[q]
    BY <1>2, <1>3 DEF Hands, Current, Everywhere
  <2>1. CASE q # p
    <3>1. op'[q] = op[q] /\ via'[q] = via[q] /\ copy'[q] = copy[q]
      BY <1>2, <2>1
    <3>2. op[q] = "publish" => Everywhere("state", copy[q])'
      <4>1. op[q] = "publish" => op[p] # "save"
        BY <1>6, <2>1 DEF Inside
      <4> QED
        BY <1>0, <1>5, <3>1, <4>1 DEF Hands, Everywhere
    <3> QED
      BY <1>0, <3>1, <3>2 DEF Hands
  <2>2. CASE q = p
    <3>1. op'[p] \in {"replicas", "seedReplicas"} => Current(k, copy'[p])
      BY <1>0, <1>1, <1>2 DEF Stored
    <3>2. op'[p] \in {"save", "publish"} => op[p] = "save" /\ op'[p] = "publish" /\ copy'[p] = copy[p]
                                            /\ backup'.state = copy[p] /\ (~ marker => primary.state = copy[p])
      BY <1>2
    <3>3. op'[p] \in {"save", "publish"} =>
                            \/ req[p] = k /\ Grows(k) /\ copy'[p] = Placed(k)
                            \/ req[p] = k - 1 /\ copy'[p] = want
      BY <1>0, <3>2 DEF Hands
    <3>4. op'[p] = "publish" => Everywhere("state", copy[p])'
      BY <1>2, <3>2 DEF Everywhere
    <3> QED
      BY <1>2, <2>2, <3>1, <3>2, <3>3, <3>4
  <2> QED
    BY <2>1, <2>2
<1>9. Finished(k)'
  <2> SUFFICES ASSUME Finishing'
               PROVE  /\ Grows(k) /\ Everywhere("state", Placed(k))' /\ Everywhere("feed", Placed(k))'
                      /\ \A q \in Procs : op'[q] \in {"save", "publish"} => req[q] = k
                      /\ \A q \in Procs : op'[q] \in {"replicas", "seedReplicas"} => copy'[q] = Placed(k)
    BY <1>2 DEF Finished
  <2>1. CASE Finishing
    <3>1. /\ Grows(k) /\ Everywhere("state", Placed(k)) /\ Everywhere("feed", Placed(k))
          /\ \A q \in Procs : op[q] \in {"save", "publish"} => req[q] = k
          /\ \A q \in Procs : op[q] \in {"replicas", "seedReplicas"} => copy[q] = Placed(k)
      BY <1>0, <2>1 DEF Finished
    <3>2. op[p] \in {"save", "publish"} => copy[p] = Placed(k)
      BY <1>0, <1>1, <3>1 DEF Hands
    <3>3. Everywhere("state", Placed(k))' /\ Everywhere("feed", Placed(k))'
      BY <1>2, <1>5, <3>1, <3>2 DEF Everywhere
    <3>4. op'[p] \in {"replicas", "seedReplicas"} => copy'[p] = Placed(k)
      BY <1>1, <1>2, <3>1 DEF Everywhere
    <3>5. op'[p] \in {"save", "publish"} => op[p] = "save"
      BY <1>2
    <3> QED
      BY <1>2, <3>1, <3>3, <3>4, <3>5
  <2>2. CASE ~ Finishing
    <3>1. waiting = p /\ op[p] = "publish" /\ backup'.feed = copy[p] /\ (~ marker => primary.feed = copy[p])
          /\ op'[p] = "release"
      BY <1>2, <2>2 DEF Finishing
    <3>2. req[p] = k /\ Grows(k) /\ copy[p] = Placed(k)
      BY <1>0, <1>1, <3>1 DEF Requests, Hands
    <3>3. Everywhere("state", Placed(k))' /\ Everywhere("feed", Placed(k))'
      BY <1>0, <1>2, <1>5, <3>1, <3>2 DEF Hands, Everywhere
    <3>4. \A q \in Procs : op'[q] \notin {"save", "publish", "replicas", "seedReplicas"}
      BY <1>2, <1>6, <3>1 DEF Inside
    <3> QED
      BY <3>2, <3>3, <3>4
  <2> QED
    BY <2>1, <2>2
<1> QED
  BY <1>2, <1>4, <1>7, <1>8, <1>9 DEF IsNext

LEMMA NextLeaves ==
    ASSUME Base, NEW k, IsNext(k), NEW p \in Procs, NEW ok, Answer(p, ok), ~ (waiting = p /\ ok),
           UNCHANGED <<primary, marker, sync>>, away' = away \/ away' = away \ {p}, p \in away' => marker,
           backup' \in {backup, Apply(p, backup)},
           op[p] \in {"save", "publish"} => backup' = backup
    PROVE  IsNext(k)'
<1>0. InOrder(k) /\ Requests(k) /\ Routed /\ Locked /\ Stored(k) /\ Hands(k) /\ Finished(k)
  BY DEF IsNext
<1>1. backup \in Stores
  BY DEF Base, TableTypeOK
<1>2. /\ InOrder(k)' /\ Requests(k)' /\ Routed'
      /\ Placed(k)' = Placed(k) /\ (Grows(k)' <=> Grows(k)) /\ want' = want
      /\ op'[p] = "idle" /\ via'[p] = "ask" /\ waiting' \in {waiting, Nobody}
      /\ \A q \in Procs : q # p => /\ op'[q] = op[q] /\ via'[q] = via[q]
                                   /\ copy'[q] = copy[q] /\ req'[q] = req[q]
  BY AnswerKeeps
<1>3. backup'.state = backup.state /\ backup'.feed = backup.feed
  BY <1>1, ApplyLock
<1>4. Stored(k)'
  BY <1>0, <1>2, <1>3 DEF Stored, Current, Held
<1>5. Locked'
  <2> SUFFICES ASSUME NEW q \in Procs
               PROVE  /\ op'[q] = "acquire" /\ via'[q] = "mirror" => primary'.lock = q
                      /\ Inside(q)' /\ marker' => backup'.lock = q
                      /\ Inside(q)' /\ ~ marker' =>
                            /\ primary'.lock = q
                            /\ backup'.lock = q \/ (sync'.key = "lock" /\ sync'.value = q)
    BY DEF Locked
  <2>1. CASE q = p
    BY <1>2, <2>1 DEF Inside
  <2>2. CASE q # p
    <3>1. /\ op'[q] = "acquire" /\ via'[q] = "mirror" => primary'.lock = q
          /\ Inside(q) /\ marker => backup'.lock = q
          /\ Inside(q) /\ ~ marker => /\ primary'.lock = q
                                      /\ backup'.lock = q \/ (sync'.key = "lock" /\ sync'.value = q)
      BY <1>0, <1>2, <2>2, LocksKept
    <3>2. Inside(q)' <=> Inside(q)
      BY <1>2, <2>2 DEF Inside
    <3> QED
      BY <3>1, <3>2
  <2> QED
    BY <2>1, <2>2
<1>6. Hands(k)'
  <2> SUFFICES ASSUME NEW q \in Procs
               PROVE  /\ op'[q] \in {"replicas", "seedReplicas"} => Current(k, copy'[q])
                      /\ op'[q] \in {"save", "publish"} =>
                            \/ req'[q] = k /\ Grows(k) /\ copy'[q] = Placed(k)
                            \/ req'[q] = k - 1 /\ copy'[q] = want
                      /\ op'[q] = "publish" => Everywhere("state", copy[q]) /\ copy'[q] = copy[q]
                      /\ via'[q] = "mirror" /\ op'[q] = "save" => primary'.state = copy'[q]
                      /\ via'[q] = "mirror" /\ op'[q] = "publish" => primary'.feed = copy'[q]
    BY <1>2, <1>3 DEF Hands, Current, Everywhere
  <2>1. CASE q = p
    BY <1>2, <2>1
  <2>2. CASE q # p
    BY <1>0, <1>2, <2>2 DEF Hands
  <2> QED
    BY <2>1, <2>2
<1>7. Finished(k)'
  <2> SUFFICES ASSUME Finishing'
               PROVE  /\ Grows(k) /\ Everywhere("state", Placed(k)) /\ Everywhere("feed", Placed(k))
                      /\ \A q \in Procs : op'[q] \in {"save", "publish"} => req'[q] = k
                      /\ \A q \in Procs : op'[q] \in {"replicas", "seedReplicas"} => copy'[q] = Placed(k)
    BY <1>2, <1>3 DEF Finished, Everywhere
  <2>1. Finishing
    BY <1>2, TableAssumption DEF Finishing
  <2> QED
    BY <1>0, <1>2, <2>1 DEF Finished
<1> QED
  BY <1>2, <1>4, <1>5, <1>6, <1>7 DEF IsNext

LEMMA NextAccepted ==
    ASSUME Base, NEW k, IsNext(k), NEW p \in Procs, NEW ok, Answer(p, ok), waiting = p /\ ok,
           op[p] = "release", UNCHANGED <<primary, marker, sync, away>>, p \in away => marker,
           backup' \in {backup, Apply(p, backup)}
    PROVE  IsNext(k + 1)'
<1>0. InOrder(k) /\ Requests(k) /\ Routed /\ Locked /\ Stored(k) /\ Hands(k) /\ Finished(k)
  BY DEF IsNext
<1>1. /\ primary \in Stores /\ backup \in Stores /\ made \in Nat /\ k \in 1 .. made + 1
      /\ want \in DayTables /\ marker \in BOOLEAN
  BY <1>0 DEF Base, TableTypeOK, InOrder
<1>2. /\ via \in [Procs -> {"ask", "primary", "mirror", "promote", "backup"}]
      /\ op \in [Procs -> Ops] /\ copy \in [Procs -> DayTables \cup {Absent}]
      /\ req \in [Procs -> Ids \cup {0}] /\ p # Nobody
  BY TableAssumption DEF Base, TableTypeOK
<1>3. req[p] = k /\ k <= made /\ Finishing
  BY <1>0 DEF Requests, Finishing
<1>4. /\ op' = [op EXCEPT ![p] = "idle"] /\ via' = [via EXCEPT ![p] = "ask"]
      /\ copy' = [copy EXCEPT ![p] = Absent] /\ req' = [req EXCEPT ![p] = 0]
      /\ waiting' = Nobody /\ want' = Placed(k) /\ plan' = plan /\ made' = made
      /\ \E saved \in {queue.memory \ {k}, queue.file} :
            queue' = [memory |-> queue.memory \ {k}, file |-> saved]
  BY <1>3 DEF Answer, Placed
<1>5. /\ op'[p] = "idle" /\ via'[p] = "ask"
      /\ \A q \in Procs : q # p => /\ op'[q] = op[q] /\ via'[q] = via[q]
                                   /\ copy'[q] = copy[q] /\ req'[q] = req[q]
  BY <1>2, <1>4
<1>6. plan[k] \in Appointments
  BY <1>1, <1>3, PlanTyped DEF Base
<1>7. Placed(k) \in DayTables /\ ~ Newer(Placed(k), Placed(k)) /\ OrEmpty(Placed(k)) = Placed(k)
  BY <1>1, <1>6, PutTyped, NotNewerThanItself, AbsentIsNone DEF Placed, OrEmpty
<1>8. /\ Grows(k) /\ Everywhere("state", Placed(k)) /\ Everywhere("feed", Placed(k))
      /\ \A q \in Procs : op[q] \in {"save", "publish"} => req[q] = k
      /\ \A q \in Procs : op[q] \in {"replicas", "seedReplicas"} => copy[q] = Placed(k)
  BY <1>0, <1>3 DEF Finished
<1>9. backup'.state = backup.state /\ backup'.feed = backup.feed
  BY <1>1, ApplyLock
<1>10. InOrder(k + 1)'
  <2>1. queue.memory \ {k} = k + 1 .. made
    BY <1>0, <1>1, <1>3 DEF InOrder
  <2>2. queue'.memory = k + 1 .. made /\ queue'.file \in {k + 1 .. made, queue.file}
    <3>1. PICK saved \in {queue.memory \ {k}, queue.file} :
             queue' = [memory |-> queue.memory \ {k}, file |-> saved]
      BY <1>4
    <3>2. queue'.memory = queue.memory \ {k} /\ queue'.file = saved
      BY <3>1
    <3> QED
      BY <2>1, <3>1, <3>2
  <2>3. \E j \in 1 .. k + 1 : queue'.file = j .. made
    BY <1>0, <1>1, <2>2 DEF InOrder
  <2>4. k = made => Put(want', plan[made]) = want'
    BY <1>1, <1>4, <1>6, PutTwice DEF Placed
  <2> QED
    BY <1>1, <1>3, <1>4, <2>2, <2>3, <2>4 DEF InOrder
<1>11. Requests(k + 1)'
  BY <1>0, <1>1, <1>2, <1>4, <1>5, TableAssumption DEF Requests, Base, MadeOnly
<1>12. Routed'
  BY <1>0, <1>5 DEF Routed
<1>13. Locked'
  <2> SUFFICES ASSUME NEW q \in Procs
               PROVE  /\ op'[q] = "acquire" /\ via'[q] = "mirror" => primary'.lock = q
                      /\ Inside(q)' /\ marker' => backup'.lock = q
                      /\ Inside(q)' /\ ~ marker' =>
                            /\ primary'.lock = q
                            /\ backup'.lock = q \/ (sync'.key = "lock" /\ sync'.value = q)
    BY DEF Locked
  <2>1. CASE q = p
    BY <1>5, <2>1 DEF Inside
  <2>2. CASE q # p
    <3>1. /\ op'[q] = "acquire" /\ via'[q] = "mirror" => primary'.lock = q
          /\ Inside(q) /\ marker => backup'.lock = q
          /\ Inside(q) /\ ~ marker => /\ primary'.lock = q
                                      /\ backup'.lock = q \/ (sync'.key = "lock" /\ sync'.value = q)
      BY <1>0, <1>5, <2>2, LocksKept
    <3>2. Inside(q)' <=> Inside(q)
      BY <1>5, <2>2 DEF Inside
    <3> QED
      BY <3>1, <3>2
  <2> QED
    BY <2>1, <2>2
<1>14. Stored(k + 1)'
  <2>1. ASSUME NEW x \in DayTables \cup {Absent}, Held(k, x)
        PROVE  x = Absent \/ ~ Newer(x, Placed(k))
    BY <1>1, <1>7, <1>8, <2>1, NotNewerOnward DEF Held, Grows
  <2>2. \A g \in {"state", "feed"} :
            /\ primary[g] \in DayTables \cup {Absent} /\ backup[g] \in DayTables \cup {Absent}
            /\ primary'[g] = primary[g] /\ backup'[g] = backup[g]
    BY <1>1, <1>9 DEF Stores
  <2>3. \A g \in {"state", "feed"} :
            /\ marker => OrEmpty(backup[g]) = Placed(k) /\ Held(k, primary[g])
            /\ ~ marker => OrEmpty(primary[g]) = Placed(k) /\ Held(k, backup[g])
            /\ ~ marker /\ sync.key # g => OrEmpty(backup[g]) = Placed(k)
    BY <1>0, <1>7, <1>8 DEF Stored, Everywhere
  <2> QED
    BY <1>4, <2>1, <2>2, <2>3 DEF Stored, Current, Held
<1>15. Hands(k + 1)'
  <2> SUFFICES ASSUME NEW q \in Procs
               PROVE  /\ op'[q] \in {"replicas", "seedReplicas"} => OrEmpty(copy'[q]) = Placed(k)
                      /\ op'[q] \in {"save", "publish"} => req'[q] = (k + 1) - 1 /\ copy'[q] = Placed(k)
                      /\ op'[q] = "publish" => Everywhere("state", copy[q]) /\ copy'[q] = copy[q]
                      /\ via'[q] = "mirror" /\ op'[q] = "save" => primary'.state = copy'[q]
                      /\ via'[q] = "mirror" /\ op'[q] = "publish" => primary'.feed = copy'[q]
    BY <1>4, <1>9 DEF Hands, Current, Everywhere
  <2>1. CASE q = p
    BY <1>5, <2>1
  <2>2. CASE q # p
    BY <1>0, <1>1, <1>5, <1>7, <1>8, <2>2 DEF Hands
  <2> QED
    BY <2>1, <2>2
<1>16. Finished(k + 1)'
  BY <1>4, TableAssumption DEF Finished, Finishing
<1> QED
  BY <1>10, <1>11, <1>12, <1>13, <1>14, <1>15, <1>16 DEF IsNext

NextAgain == \E k \in Nat : IsNext(k)

LEMMA NextAnswer ==
    ASSUME Base, NEW k, IsNext(k), NEW p \in Procs, NEW ok, Answer(p, ok), ok => op[p] = "release",
           UNCHANGED <<primary, marker, sync, away>>, p \in away => marker,
           backup' \in {backup, Apply(p, backup)},
           op[p] \in {"save", "publish"} => backup' = backup
    PROVE  NextAgain'
<1>1. k \in Nat /\ k + 1 \in Nat
  BY DEF IsNext, InOrder, Base, TableTypeOK
<1>2. CASE waiting = p /\ ok
  <2>1. IsNext(k + 1)'
    BY <1>2, NextAccepted
  <2> QED
    BY <1>1, <2>1 DEF NextAgain
<1>3. CASE ~ (waiting = p /\ ok)
  <2>1. IsNext(k)'
    BY <1>3, NextLeaves
  <2> QED
    BY <1>1, <2>1 DEF NextAgain
<1> QED
  BY <1>2, <1>3

\* A call that has returned, at the primary and behind it or at the backup.
LEMMA NextReturns ==
    ASSUME Base, NEW k, IsNext(k), NEW p \in Procs, NEW free, op[p] \notin {"idle", "replicas", "seedReplicas"},
           Returns(p, IF marker THEN backup ELSE primary, free),
           UNCHANGED <<primary, marker, sync, away>>, p \in away => marker,
           backup' = Apply(p, backup) \/ (op[p] \in {"load", "seed"} /\ backup' = backup),
           op[p] = "acquire" /\ free => backup.lock = Nobody,
           ~ marker /\ op[p] = "acquire" => primary.lock = p,
           ~ marker /\ op[p] = "save" => primary.state = copy[p],
           ~ marker /\ op[p] = "publish" => primary.feed = copy[p]
    PROVE  NextAgain'
<1>0. backup \in Stores /\ op \in [Procs -> Ops] /\ k \in Nat /\ marker \in BOOLEAN
  BY DEF Base, TableTypeOK, IsNext, InOrder
<1>1. backup' \in {backup, Apply(p, backup)}
  OBVIOUS
<1>2. CASE op[p] = "acquire"
  <2>1. CASE free
    <3>1. Then(p, "load", Absent)
      BY <1>2, <2>1 DEF Returns
    <3>2. backup'.lock = p
      BY <1>0, <1>2, <2>1, ApplyLock
    <3>3. IsNext(k)'
      BY <1>1, <1>2, <3>1, <3>2, NextThen
    <3> QED
      BY <1>0, <3>3 DEF NextAgain
  <2>2. CASE ~ free
    <3>1. Answer(p, FALSE)
      BY <1>2, <2>2 DEF Returns
    <3> QED
      BY <1>1, <1>2, <3>1, NextAnswer
  <2> QED
    BY <2>1, <2>2
<1>3. CASE op[p] \in {"load", "seed"}
  <2> DEFINE from == IF marker THEN backup ELSE primary
  <2>1. \/ Then(p, "replicas", from.state) \/ Then(p, "seedReplicas", from.feed)
    BY <1>3 DEF Returns
  <2>2. /\ from.state = IF marker THEN backup["state"] ELSE primary["state"]
        /\ from.feed = IF marker THEN backup["feed"] ELSE primary["feed"]
    OBVIOUS
  <2> HIDE DEF from
  <2>3. PICK o \in {"replicas", "seedReplicas"}, g \in {"state", "feed"} :
             Then(p, o, IF marker THEN backup[g] ELSE primary[g])
    BY <2>1, <2>2
  <2>4. IsNext(k)'
    BY <1>1, <1>3, <2>3, NextThen
  <2> QED
    BY <1>0, <2>4 DEF NextAgain
<1>4. CASE op[p] = "save"
  <2>1. Then(p, "publish", copy[p])
    BY <1>4 DEF Returns
  <2>2. backup'.state = copy[p]
    BY <1>0, <1>4, ApplySave
  <2>3. IsNext(k)'
    BY <1>1, <1>4, <2>1, <2>2, NextThen
  <2> QED
    BY <1>0, <2>3 DEF NextAgain
<1>5. CASE op[p] = "publish"
  <2>1. Then(p, "release", Absent)
    BY <1>5 DEF Returns
  <2>2. backup'.feed = copy[p]
    BY <1>0, <1>5, ApplyPublish
  <2>3. IsNext(k)'
    BY <1>1, <1>5, <2>1, <2>2, NextThen
  <2> QED
    BY <1>0, <2>3 DEF NextAgain
<1>6. CASE op[p] \in {"busy", "release", "unwind"}
  <2>1. Answer(p, op[p] = "release")
    BY <1>6 DEF Returns
  <2> QED
    BY <1>1, <1>6, <2>1, NextAnswer
<1> QED
  BY <1>0, <1>2, <1>3, <1>4, <1>5, <1>6 DEF Ops

LEMMA NextPrimary ==
    ASSUME Base, NEW k, IsNext(k), NEW p \in Procs, Primary(p)
    PROVE  NextAgain'
<1>0. k \in Nat /\ via[p] = "primary" /\ ~ marker /\ p \notin away
      /\ op[p] \notin {"idle", "replicas", "seedReplicas"}
  BY DEF Base, TableTypeOK, IsNext, InOrder, Routed, Primary, Calls
<1>1. CASE op[p] \in {"load", "seed"}
  <2>1. primary' = primary /\ backup' = backup /\ UNCHANGED <<marker, sync, away>>
    BY <1>1 DEF Primary, Apply
  <2>2. Returns(p, primary, FALSE)
    BY <1>1 DEF Primary
  <2> QED
    BY <1>0, <1>1, <2>1, <2>2, NextReturns
<1>2. CASE op[p] \notin {"load", "seed"}
  <2>1. /\ primary' = Apply(p, primary) /\ Part(p, "mirror")
        /\ op' = IF op[p] = "acquire" /\ primary.lock # Nobody THEN [op EXCEPT ![p] = "busy"] ELSE op
        /\ UNCHANGED <<backup, marker, away, sync>>
    BY <1>2 DEF Primary
  <2>2. via' = [via EXCEPT ![p] = "mirror"] /\ UNCHANGED <<pc, want, req, copy>>
    BY <2>1 DEF Part
  <2>3. [via EXCEPT ![p] = "mirror"] # [via EXCEPT ![p] = "promote"]
    BY DEF Base, TableTypeOK
  <2>4. IsNext(k)'
    BY <1>0, <1>2, <2>1, <2>2, <2>3, NextPrimaryActs
  <2> QED
    BY <1>0, <2>4 DEF NextAgain
<1> QED
  BY <1>1, <1>2

LEMMA NextMirror ==
    ASSUME Base, NEW k, IsNext(k), NEW p \in Procs, Mirror(p), causes' = {}
    PROVE  NextAgain'
<1>0. via[p] = "mirror" /\ ~ marker /\ p \notin away /\ op[p] \notin {"idle", "replicas", "seedReplicas"}
  BY DEF IsNext, Routed, Mirror, Calls
<1>1. backup' = Apply(p, backup) /\ (op[p] = "acquire" => backup.lock = Nobody)
  BY DEF Mirror, Note, When
<1>2. Returns(p, primary, TRUE) /\ UNCHANGED <<primary, marker, away, sync>>
  BY DEF Mirror
<1>3. /\ op[p] = "acquire" => primary.lock = p
      /\ op[p] = "save" => primary.state = copy[p]
      /\ op[p] = "publish" => primary.feed = copy[p]
  BY <1>0 DEF IsNext, Locked, Hands
<1> QED
  BY <1>0, <1>1, <1>2, <1>3, NextReturns

LEMMA NextBackup ==
    ASSUME Base, NEW k, IsNext(k), NEW p \in Procs, Backup(p)
    PROVE  NextAgain'
<1>0. k \in Nat /\ via[p] = "backup" /\ marker /\ op[p] \notin {"idle", "replicas", "seedReplicas"}
      /\ UNCHANGED <<primary, marker, away, sync>>
  BY DEF IsNext, InOrder, Base, TableTypeOK, Routed, Backup, Calls
<1>1. CASE backup' = Apply(p, backup) /\ Returns(p, backup, backup.lock = Nobody)
  BY <1>0, <1>1, NextReturns
<1>2. CASE backup' \in {backup, Apply(p, backup)} /\ Throws(p)
  <2>1. CASE op[p] \in {"acquire", "busy", "release", "unwind"}
    <3>1. Answer(p, op[p] = "release")
      BY <1>2, <2>1 DEF Throws
    <3> QED
      BY <1>0, <1>2, <2>1, <3>1, NextAnswer
  <2>2. CASE op[p] \notin {"acquire", "busy", "release", "unwind"}
    <3>1. Then(p, "unwind", Absent)
      BY <1>2, <2>2 DEF Throws
    <3>2. IsNext(k)'
      BY <1>0, <1>2, <2>2, <3>1, NextThen
    <3> QED
      BY <1>0, <3>2 DEF NextAgain
  <2> QED
    BY <2>1, <2>2
<1> QED
  BY <1>1, <1>2 DEF Backup

LEMMA NextPrimaryFails ==
    ASSUME Base, NEW k, IsNext(k), NEW p \in Procs, PrimaryFails(p)
    PROVE  NextAgain'
<1>1. k \in Nat /\ via[p] = "primary" /\ op[p] \notin {"idle", "replicas", "seedReplicas"}
  BY DEF IsNext, InOrder, Base, TableTypeOK, PrimaryFails, Calls
<1>2. /\ primary' \in {primary, Apply(p, primary)} /\ away' = away \cup {p} /\ op' = op
      /\ via' = [via EXCEPT ![p] = "promote"]
      /\ UNCHANGED <<pc, want, req, copy, backup, marker, sync>>
  BY DEF PrimaryFails, Part
<1>3. [via EXCEPT ![p] = "mirror"] # [via EXCEPT ![p] = "promote"]
  BY DEF Base, TableTypeOK
<1>4. IsNext(k)'
  BY <1>1, <1>2, <1>3, NextPrimaryActs
<1> QED
  BY <1>1, <1>4 DEF NextAgain

LEMMA CurrentHeld ==
    ASSUME Base, NEW k, NEW x \in DayTables \cup {Absent}, Current(k, x)
    PROVE  Held(k, x)
<1>1. ~ Newer(want, want)
  BY NotNewerThanItself DEF Base, TableTypeOK
<1> QED
  BY <1>1 DEF Current, Held, OrEmpty

LEMMA NextPromote ==
    ASSUME Base, NEW k, IsNext(k), NEW p \in Procs, Promote(p), causes' = {}
    PROVE  NextAgain'
<1>0. InOrder(k) /\ Requests(k) /\ Routed /\ Locked /\ Stored(k) /\ Hands(k) /\ Finished(k)
  BY DEF IsNext
<1>1. /\ via[p] = "promote" /\ marker' = TRUE /\ sync.key = "none"
      /\ op[p] \notin {"idle", "replicas", "seedReplicas"}
      /\ \A q \in Procs : q # p => via[q] \notin {"primary", "mirror"}
  BY DEF Promote, Calls, Note, When
<1>2. /\ via' = [via EXCEPT ![p] = "backup"]
      /\ UNCHANGED <<pc, want, req, copy, primary, backup, away, op, sync>>
  BY DEF Promote, Part
<1>3. /\ via'[p] = "backup" /\ \A q \in Procs : q # p => via'[q] = via[q]
      /\ marker \in BOOLEAN /\ k \in Nat
  BY <1>0, <1>2 DEF Base, TableTypeOK, InOrder
<1>4. UNCHANGED <<plan, made, queue, waiting>>
  BY <1>2 DEF pc
<1>5. InOrder(k)' /\ Placed(k)' = Placed(k) /\ (Grows(k)' <=> Grows(k))
  BY <1>0, <1>2, SameNext
<1>6. Requests(k)'
  BY <1>0, <1>2, <1>4 DEF Requests
<1>7. Routed'
  BY <1>0, <1>1, <1>2, <1>3 DEF Routed
<1>8. Locked'
  BY <1>0, <1>1, <1>2, <1>3 DEF Locked, Inside
<1>9. Stored(k)'
  <2>1. \A g \in {"state", "feed"} : primary[g] \in DayTables \cup {Absent}
    BY DEF Base, TableTypeOK, Stores
  <2>2. \A g \in {"state", "feed"} : Current(k, backup[g]) /\ Held(k, primary[g])
    BY <1>0, <1>1, <1>3, <2>1, CurrentHeld DEF Stored
  <2> QED
    BY <1>1, <1>2, <1>5, <2>2 DEF Stored, Current, Held
<1>10. \A g, x : g \in {"state", "feed"} /\ Everywhere(g, x) => backup[g] = x
  BY <1>1, <1>3 DEF Everywhere
<1>11. Hands(k)'
  <2> SUFFICES ASSUME NEW q \in Procs
               PROVE  /\ op[q] \in {"replicas", "seedReplicas"} => Current(k, copy[q])
                      /\ op[q] \in {"save", "publish"} =>
                            \/ req[q] = k /\ Grows(k) /\ copy[q] = Placed(k)
                            \/ req[q] = k - 1 /\ copy[q] = want
                      /\ op[q] = "publish" => backup.state = copy[q]
                      /\ via'[q] # "mirror"
    BY <1>1, <1>2, <1>5 DEF Hands, Current, Everywhere
  <2> QED
    BY <1>0, <1>1, <1>3, <1>10 DEF Hands
<1>12. Finished(k)'
  <2> SUFFICES ASSUME Finishing
               PROVE  /\ Grows(k) /\ backup.state = Placed(k) /\ backup.feed = Placed(k)
                      /\ \A q \in Procs : op[q] \in {"save", "publish"} => req[q] = k
                      /\ \A q \in Procs : op[q] \in {"replicas", "seedReplicas"} => copy[q] = Placed(k)
    BY <1>1, <1>2, <1>4, <1>5 DEF Finished, Finishing, Everywhere
  <2> QED
    BY <1>0, <1>10 DEF Finished
<1>13. IsNext(k)'
  BY <1>5, <1>6, <1>7, <1>8, <1>9, <1>11, <1>12 DEF IsNext
<1> QED
  BY <1>3, <1>13 DEF NextAgain

\* The freshest of a current table and held ones is current.
LEMMA BetterCurrent ==
    ASSUME Base, NEW k \in Nat, k > 0, NEW t \in DayTables \cup {Absent}, NEW u \in DayTables \cup {Absent},
           Current(k, t), Held(k, u)
    PROVE  Current(k, Better(t, u)) /\ Better(t, u) \in DayTables \cup {Absent}
<1>1. want \in DayTables /\ Empty \in DayTables /\ Absent \notin DayTables /\ OrEmpty(Absent) = Empty
      /\ \A x \in DayTables : OrEmpty(x) = x
  BY AbsentIsNone DEF Base, TableTypeOK, OrEmpty
<1>2. Grows(k) => Placed(k) \in DayTables /\ ~ Newer(want, Placed(k)) /\ ~ Newer(Placed(k), Placed(k))
  <2>1. k <= made => plan[k] \in Appointments
    <3>1. made \in Nat
      BY DEF Base, TableTypeOK
    <3> QED
      BY <3>1, PlanTyped DEF Base
  <2> QED
    BY <1>1, <2>1, PutTyped, NotNewerThanItself DEF Grows, Placed
<1>3. u \in DayTables => Current(k, u) \/ (~ Newer(u, want) /\ (Grows(k) => ~ Newer(u, Placed(k))))
  <2> SUFFICES ASSUME u \in DayTables, ~ Newer(u, want), Grows(k) PROVE ~ Newer(u, Placed(k))
    BY <1>1 DEF Held, Current
  <2> QED
    BY <1>1, <1>2, NotNewerOnward
<1>4. CASE t = Absent
  <2>1. Better(t, u) = u
    BY <1>4 DEF Better
  <2>2. CASE u = Absent
    BY <1>4, <2>1, <2>2
  <2>3. CASE u \in DayTables
    <3>1. want = Empty \/ (Grows(k) /\ Placed(k) = Empty)
      BY <1>1, <1>4 DEF Current
    <3>2. Current(k, u) \/ u = Empty
      BY <1>3, <2>3, <3>1, OnlyEmpty
    <3> QED
      BY <1>1, <2>1, <2>3, <3>1, <3>2 DEF Current
  <2> QED
    BY <2>2, <2>3
<1>5. CASE t \in DayTables
  <2>1. t = want \/ (Grows(k) /\ t = Placed(k))
    BY <1>1, <1>5 DEF Current
  <2>2. u \in DayTables => Current(k, u) \/ ~ Newer(u, t)
    BY <1>3, <2>1
  <2> QED
    BY <1>1, <1>5, <2>2 DEF Better
<1> QED
  BY <1>4, <1>5

LEMMA NextAfterReplicas ==
    ASSUME Base, NEW k, IsNext(k), NEW p \in Procs, NEW o, NEW t, Then(p, o, t),
           UNCHANGED <<redis, sync, away>>, op[p] \in {"replicas", "seedReplicas"},
           o \in {"seed", "unwind"} \/ (o = "save" /\ t = Placed(k) /\ req[p] = k /\ Grows(k))
    PROVE  IsNext(k)'
<1>0. InOrder(k) /\ Requests(k) /\ Routed /\ Locked /\ Stored(k) /\ Hands(k) /\ Finished(k)
  BY DEF IsNext
<1>1. UNCHANGED <<primary, backup, marker, sync, away>>
  BY DEF redis
<1>2. p \in away => marker
  BY <1>0 DEF Routed
<1>3. /\ InOrder(k)' /\ Requests(k)' /\ Routed'
      /\ Placed(k)' = Placed(k) /\ (Grows(k)' <=> Grows(k))
      /\ op'[p] = o /\ via'[p] = "ask" /\ copy'[p] = t /\ req' = req /\ waiting' = waiting
      /\ \A q \in Procs : q # p => op'[q] = op[q] /\ via'[q] = via[q] /\ copy'[q] = copy[q]
  BY <1>1, <1>2, ThenKeeps
<1>4. want' = want
  BY DEF Then
<1>5. Locked'
  <2>1. \A q \in Procs : Inside(q)' => Inside(q)
    BY <1>3 DEF Inside
  <2>2. \A q \in Procs : op'[q] = "acquire" /\ via'[q] = "mirror" => op[q] = "acquire" /\ via[q] = "mirror"
    BY <1>3
  <2> QED
    BY <1>0, <1>1, <2>1, <2>2 DEF Locked
<1>6. Stored(k)'
  BY <1>0, <1>1, <1>3, <1>4 DEF Stored, Current, Held
<1>7. Hands(k)'
  <2> SUFFICES ASSUME NEW q \in Procs
               PROVE  /\ op'[q] \in {"replicas", "seedReplicas"} => Current(k, copy'[q])
                      /\ op'[q] \in {"save", "publish"} =>
                            \/ req[q] = k /\ Grows(k) /\ copy'[q] = Placed(k)
                            \/ req[q] = k - 1 /\ copy'[q] = want
                      /\ op'[q] = "publish" => Everywhere("state", copy[q]) /\ copy'[q] = copy[q]
                      /\ via'[q] = "mirror" /\ op'[q] = "save" => primary.state = copy'[q]
                      /\ via'[q] = "mirror" /\ op'[q] = "publish" => primary.feed = copy'[q]
    BY <1>1, <1>3, <1>4 DEF Hands, Current, Everywhere
  <2>1. CASE q = p
    BY <1>3, <2>1
  <2>2. CASE q # p
    BY <1>0, <1>3, <2>2 DEF Hands
  <2> QED
    BY <2>1, <2>2
<1>8. Finished(k)'
  <2> SUFFICES ASSUME Finishing'
               PROVE  /\ Grows(k) /\ Everywhere("state", Placed(k)) /\ Everywhere("feed", Placed(k))
                      /\ \A q \in Procs : op'[q] \in {"save", "publish"} => req[q] = k
                      /\ \A q \in Procs : op'[q] \in {"replicas", "seedReplicas"} => copy'[q] = Placed(k)
    BY <1>1, <1>3 DEF Finished, Everywhere
  <2>1. Finishing
    BY <1>3 DEF Finishing
  <2> QED
    BY <1>0, <1>3, <2>1 DEF Finished
<1> QED
  BY <1>3, <1>5, <1>6, <1>7, <1>8 DEF IsNext

LEMMA NextTakes ==
    ASSUME Base, NEW k, IsNext(k), NEW p \in Procs, op[p] \in {"replicas", "seedReplicas"},
           NEW u \in DayTables \cup {Absent}, NEW v \in DayTables \cup {Absent}, Held(k, u), Held(k, v),
           Takes(p, u, v), UNCHANGED <<redis, sync, away>>, causes' = {}
    PROVE  IsNext(k)'
<1>0. InOrder(k) /\ Requests(k) /\ Routed /\ Locked /\ Stored(k) /\ Hands(k) /\ Finished(k)
  BY DEF IsNext
<1>1. copy[p] \in DayTables \cup {Absent} /\ Current(k, copy[p]) /\ k \in Nat /\ k > 0 /\ made \in Nat
      /\ want \in DayTables
  BY <1>0 DEF Base, TableTypeOK, Hands, InOrder
<1> DEFINE t == Freshest(copy[p], u, v)
           placed == Put(OrEmpty(t), plan[req[p]])
<1>2. Current(k, t)
  <2>1. Current(k, Better(copy[p], u)) /\ Better(copy[p], u) \in DayTables \cup {Absent}
    BY <1>1, BetterCurrent
  <2> QED
    BY <1>1, <2>1, BetterCurrent DEF Freshest
<1> HIDE DEF t
<1>3. CASE Then(p, "seed", Absent)
  BY <1>3, NextAfterReplicas
<1>4. CASE /\ Then(p, "save", placed)
           /\ Note(When(Newer(OrEmpty(t), placed), "shrunk")
                   \cup When(waiting # p /\ req[p] \notin queue.memory, "late"))
  <2>1. ~ Newer(OrEmpty(t), placed) /\ (waiting = p \/ req[p] \in queue.memory)
    BY <1>4 DEF Note, When
  <2>2. req[p] = k /\ k <= made
    <3>1. CASE waiting = p
      BY <1>0, <3>1 DEF Requests
    <3>2. CASE req[p] \in queue.memory
      <4>1. req[p] \in k .. made /\ req[p] <= k
        BY <1>0, <3>2 DEF InOrder, Requests
      <4> QED
        BY <1>1, <4>1
    <3> QED
      BY <2>1, <3>1, <3>2
  <2>3. plan[k] \in Appointments
    BY <1>1, <2>2, PlanTyped DEF Base
  <2>4. OrEmpty(t) = want \/ (Grows(k) /\ OrEmpty(t) = Placed(k))
    BY <1>2 DEF Current
  <2>5. placed = Placed(k)
    BY <1>1, <2>2, <2>3, <2>4, PutTwice DEF Placed
  <2>6. Grows(k)
    BY <2>1, <2>2, <2>4, <2>5 DEF Grows
  <2> QED
    BY <1>4, <2>2, <2>5, <2>6, NextAfterReplicas
<1> QED
  BY <1>3, <1>4 DEF Takes, t

LEMMA NextReplicas ==
    ASSUME Base, NEW k, IsNext(k), NEW p \in Procs, Replicas(p), causes' = {}
    PROVE  NextAgain'
<1>0. Stored(k) /\ k \in Nat /\ marker \in BOOLEAN
  BY DEF IsNext, InOrder, Base, TableTypeOK
<1>1. op[p] \in {"replicas", "seedReplicas"} /\ UNCHANGED <<redis, sync, away>>
  BY DEF Replicas
<1>2. \A g \in {"state", "feed"} :
          /\ primary[g] \in DayTables \cup {Absent} /\ backup[g] \in DayTables \cup {Absent}
          /\ Held(k, primary[g]) /\ Held(k, backup[g])
  <2>1. \A g \in {"state", "feed"} : primary[g] \in DayTables \cup {Absent} /\ backup[g] \in DayTables \cup {Absent}
    BY DEF Base, TableTypeOK, Stores
  <2> QED
    BY <1>0, <2>1, CurrentHeld DEF Stored
<1>3. /\ Field(p, primary) \in DayTables \cup {Absent} /\ Field(p, backup) \in DayTables \cup {Absent}
      /\ Held(k, Field(p, primary)) /\ Held(k, Field(p, backup)) /\ Held(k, Absent)
  BY <1>2 DEF Field, Held
<1>4. CASE \E u, v \in {Field(p, primary), Field(p, backup), Absent} : Takes(p, u, v)
  <2>1. IsNext(k)'
    BY <1>1, <1>3, <1>4, NextTakes
  <2> QED
    BY <1>0, <2>1 DEF NextAgain
<1>5. CASE Then(p, "unwind", Absent)
  <2>1. IsNext(k)'
    BY <1>1, <1>5, NextAfterReplicas
  <2> QED
    BY <1>0, <2>1 DEF NextAgain
<1> QED
  BY <1>4, <1>5 DEF Replicas

-----------------------------------------------------------------------------
(* The other steps. *)

LEMMA NextSchedule == ASSUME Base, NEW k, IsNext(k), Schedule PROVE IsNext(k)'
<1>0. InOrder(k) /\ Requests(k) /\ Routed /\ Locked /\ Stored(k) /\ Hands(k) /\ Finished(k)
  BY DEF IsNext
<1>1. /\ waiting = Nobody /\ made' = made + 1 /\ made \in Nat /\ k \in 1 .. made + 1
      /\ queue' = [memory |-> queue.memory \cup {made + 1}, file |-> queue.memory \cup {made + 1}]
      /\ UNCHANGED <<plan, waiting, redis, proc, sync, want>>
  BY <1>0 DEF Schedule, ghosts, InOrder, Base, TableTypeOK
<1>2. UNCHANGED <<primary, backup, marker, away, req, op, via, copy>>
  BY <1>1 DEF redis, proc
<1>3. Placed(k)' = Placed(k) /\ (Grows(k) => Grows(k)')
  BY <1>1 DEF Placed, Grows
<1>4. InOrder(k)'
  <2>1. queue.memory \cup {made + 1} = k .. made + 1
    BY <1>0, <1>1 DEF InOrder
  <2>2. queue'.memory = k .. made + 1 /\ queue'.file = k .. made + 1
    BY <1>1, <2>1
  <2> QED
    BY <1>1, <2>2 DEF InOrder
<1>5. Nobody \notin Procs
  BY TableAssumption
<1>6. Requests(k)'
  BY <1>0, <1>1, <1>2, <1>5 DEF Requests
<1>7. Routed' /\ Locked'
  BY <1>0, <1>1, <1>2 DEF Routed, Locked, Inside
<1>8. Stored(k)'
  BY <1>0, <1>1, <1>2, <1>3 DEF Stored, Current, Held
<1>9. Hands(k)'
  BY <1>0, <1>1, <1>2, <1>3 DEF Hands, Current, Everywhere
<1>10. Finished(k)'
  BY <1>1, <1>5 DEF Finished, Finishing
<1> QED
  BY <1>4, <1>6, <1>7, <1>8, <1>9, <1>10 DEF IsNext

LEMMA NextSend == ASSUME Base, NEW k, IsNext(k), NEW p \in Procs, Send(p) PROVE IsNext(k)'
<1>0. InOrder(k) /\ Requests(k) /\ Routed /\ Locked /\ Stored(k) /\ Hands(k) /\ Finished(k)
  BY DEF IsNext
<1>1. /\ waiting = Nobody /\ op[p] = "idle" /\ waiting' = p /\ op' = [op EXCEPT ![p] = "acquire"]
      /\ primary' = [primary EXCEPT !.lock = IF primary.lock = p THEN Old ELSE primary.lock]
      /\ backup' = [backup EXCEPT !.lock = IF backup.lock = p THEN Old ELSE backup.lock]
      /\ sync' = IF sync.key = "lock" /\ sync.value = p THEN [sync EXCEPT !.value = Old] ELSE sync
      /\ UNCHANGED <<plan, made, queue, marker, away, via, copy, want>>
  BY DEF Send, ghosts
<1>2. /\ op \in [Procs -> Ops] /\ req \in [Procs -> Ids \cup {0}] /\ primary \in Stores
      /\ backup \in Stores /\ SyncTyped /\ made \in Nat /\ k \in 1 .. made + 1 /\ p # Nobody
  BY <1>0, TableAssumption DEF Base, TableTypeOK, InOrder
<1>3. k <= made /\ req' = [req EXCEPT ![p] = k]
  <2>1. PICK r \in queue.memory : (\A o \in queue.memory : r <= o) /\ req' = [req EXCEPT ![p] = r]
    BY DEF Send
  <2>2. r \in k .. made /\ k \in queue.memory
    BY <1>0, <1>2, <2>1 DEF InOrder
  <2>3. r = k
    BY <1>2, <2>1, <2>2
  <2> QED
    BY <2>1, <2>2, <2>3
<1>4. /\ op'[p] = "acquire" /\ req'[p] = k /\ via'[p] = "ask"
      /\ \A q \in Procs : q # p => op'[q] = op[q] /\ req'[q] = req[q]
      /\ via' = via /\ copy' = copy
  BY <1>0, <1>1, <1>2, <1>3 DEF Routed
<1>5. /\ \A g \in {"state", "feed"} : primary'[g] = primary[g] /\ backup'[g] = backup[g]
      /\ sync'.key = sync.key
      /\ primary'.lock = IF primary.lock = p THEN Old ELSE primary.lock
      /\ backup'.lock = IF backup.lock = p THEN Old ELSE backup.lock
      /\ sync.key = "lock" /\ sync.value # p => sync'.value = sync.value
  BY <1>1, <1>2 DEF Stores, SyncTyped
<1>6. Placed(k)' = Placed(k) /\ (Grows(k)' <=> Grows(k)) /\ InOrder(k)'
  BY <1>0, <1>1 DEF Placed, Grows, InOrder
<1>7. Requests(k)'
  BY <1>0, <1>1, <1>2, <1>3, <1>4 DEF Requests
<1>8. Routed'
  BY <1>0, <1>1, <1>4 DEF Routed
<1>9. Locked'
  <2> SUFFICES ASSUME NEW q \in Procs
               PROVE  /\ op'[q] = "acquire" /\ via'[q] = "mirror" => primary'.lock = q
                      /\ Inside(q)' /\ marker' => backup'.lock = q
                      /\ Inside(q)' /\ ~ marker' =>
                            /\ primary'.lock = q
                            /\ backup'.lock = q \/ (sync'.key = "lock" /\ sync'.value = q)
    BY DEF Locked
  <2>1. CASE q = p
    BY <1>4, <2>1 DEF Inside
  <2>2. CASE q # p
    <3>1. op'[q] = op[q] /\ via'[q] = via[q] /\ marker' = marker /\ (Inside(q)' <=> Inside(q))
      BY <1>1, <1>4, <2>2 DEF Inside
    <3>2. /\ primary.lock = q => primary'.lock = q
          /\ backup.lock = q => backup'.lock = q
          /\ sync.key = "lock" /\ sync.value = q => sync'.key = "lock" /\ sync'.value = q
      BY <1>5, <2>2
    <3> QED
      BY <1>0, <3>1, <3>2 DEF Locked
  <2> QED
    BY <2>1, <2>2
<1>10. Stored(k)'
  BY <1>0, <1>1, <1>5, <1>6 DEF Stored, Current, Held
<1>11. Hands(k)'
  <2> SUFFICES ASSUME NEW q \in Procs
               PROVE  /\ op'[q] \in {"replicas", "seedReplicas"} => Current(k, copy[q])
                      /\ op'[q] \in {"save", "publish"} =>
                            \/ req'[q] = k /\ Grows(k) /\ copy[q] = Placed(k)
                            \/ req'[q] = k - 1 /\ copy[q] = want
                      /\ op'[q] = "publish" => Everywhere("state", copy[q])
                      /\ via[q] = "mirror" /\ op'[q] = "save" => primary.state = copy[q]
                      /\ via[q] = "mirror" /\ op'[q] = "publish" => primary.feed = copy[q]
    BY <1>1, <1>4, <1>5, <1>6 DEF Hands, Current, Everywhere
  <2>1. CASE q = p
    BY <1>4, <2>1
  <2>2. CASE q # p
    BY <1>0, <1>4, <2>2 DEF Hands
  <2> QED
    BY <2>1, <2>2
<1>12. Finished(k)'
  BY <1>1, <1>4 DEF Finished, Finishing
<1> QED
  BY <1>6, <1>7, <1>8, <1>9, <1>10, <1>11, <1>12 DEF IsNext

LEMMA NextGivesUp == ASSUME Base, NEW k, IsNext(k), PcGivesUp PROVE IsNext(k)'
<1>0. InOrder(k) /\ Requests(k) /\ Routed /\ Locked /\ Stored(k) /\ Hands(k) /\ Finished(k)
  BY DEF IsNext
<1>1. waiting' = Nobody /\ UNCHANGED <<plan, made, queue, redis, proc, sync, want>>
  BY DEF PcGivesUp, ghosts
<1>2. UNCHANGED <<primary, backup, marker, away, req, op, via, copy>>
  BY <1>1 DEF redis, proc
<1>3. Placed(k)' = Placed(k) /\ (Grows(k)' <=> Grows(k)) /\ InOrder(k)'
  BY <1>0, <1>1 DEF Placed, Grows, InOrder
<1>4. Requests(k)' /\ Routed' /\ Locked'
  BY <1>0, <1>1, <1>2, TableAssumption DEF Requests, Routed, Locked, Inside
<1>5. Stored(k)' /\ Hands(k)'
  BY <1>0, <1>1, <1>2, <1>3 DEF Stored, Hands, Current, Held, Everywhere
<1>6. Finished(k)'
  BY <1>1, TableAssumption DEF Finished, Finishing
<1> QED
  BY <1>3, <1>4, <1>5, <1>6 DEF IsNext

\* What the state file brings back, when it is not what the PC had, is the last appointment,
\* accepted already, and nothing else.
LEMMA BroughtBack ==
    ASSUME Base, NEW k, InOrder(k), queue.file # queue.memory,
           ~ \E o \in queue.file \ queue.memory : \E r \in queue.file : o < r
    PROVE  k = made + 1 /\ made \in 1 .. made /\ queue.file = made .. made
<1>1. made \in Nat /\ k \in 1 .. made + 1 /\ queue.memory = k .. made
  BY DEF InOrder, Base, TableTypeOK
<1>2. PICK j \in 1 .. k : queue.file = j .. made
  BY DEF InOrder
<1>3. j < k
  BY <1>1, <1>2
<1>4. j \in queue.file \ queue.memory /\ made \in queue.file
  BY <1>1, <1>2, <1>3
<1>5. ~ (j < made)
  BY <1>4
<1>6. j = made /\ k = made + 1
  BY <1>1, <1>2, <1>3, <1>5
<1> QED
  BY <1>1, <1>2, <1>6

LEMMA NextRestart ==
    ASSUME Base, NEW k, IsNext(k), Restart, causes' = {}
    PROVE  NextAgain'
<1>0. InOrder(k) /\ Requests(k) /\ Routed /\ Locked /\ Stored(k) /\ Hands(k) /\ Finished(k)
  BY DEF IsNext
<1>1. /\ waiting' = Nobody /\ queue' = [queue EXCEPT !.memory = queue.file]
      /\ UNCHANGED <<plan, made, redis, proc, sync, want>>
      /\ ~ \E o \in queue.file \ queue.memory : \E r \in queue.file : o < r
  BY DEF Restart, Note, When
<1>2. UNCHANGED <<primary, backup, marker, away, req, op, via, copy>>
  BY <1>1 DEF redis, proc
<1>3. queue'.memory = queue.file /\ queue'.file = queue.file /\ made \in Nat /\ want \in DayTables
      /\ k \in Nat /\ Nobody \notin Procs
  BY <1>0, <1>1, TableAssumption DEF Base, TableTypeOK, InOrder
<1>4. Routed' /\ Locked'
  BY <1>0, <1>1, <1>2 DEF Routed, Locked, Inside
<1>5. CASE queue.file = queue.memory
  <2>1. Placed(k)' = Placed(k) /\ (Grows(k)' <=> Grows(k)) /\ InOrder(k)'
    BY <1>0, <1>1, <1>3, <1>5 DEF Placed, Grows, InOrder
  <2>2. Requests(k)'
    BY <1>0, <1>1, <1>2, <1>3 DEF Requests
  <2>3. Stored(k)' /\ Hands(k)'
    BY <1>0, <1>1, <1>2, <2>1 DEF Stored, Hands, Current, Held, Everywhere
  <2>4. Finished(k)'
    BY <1>1, <1>3 DEF Finished, Finishing
  <2>5. IsNext(k)'
    BY <1>4, <2>1, <2>2, <2>3, <2>4 DEF IsNext
  <2> QED
    BY <1>3, <2>5 DEF NextAgain
<1>6. CASE queue.file # queue.memory
  <2>1. k = made + 1 /\ made \in 1 .. made /\ queue.file = made .. made
    BY <1>0, <1>1, <1>6, BroughtBack
  <2>2. Placed(k - 1) = want /\ ~ Grows(k) /\ Grows(k - 1) /\ k - 1 = made /\ k - 1 \in Nat
    <3>1. k - 1 = made /\ made > 0
      BY <1>3, <2>1
    <3>2. Placed(k - 1) = want
      BY <1>0, <2>1, <3>1 DEF InOrder, Placed
    <3> QED
      BY <1>3, <2>1, <3>1, <3>2, NotNewerThanItself DEF Grows
  <2>3. Placed(k - 1)' = want /\ Grows(k - 1)' /\ made' = made /\ want' = want
    BY <1>1, <2>2 DEF Placed, Grows
  <2>4. InOrder(k - 1)'
    <3>1. queue'.memory = k - 1 .. made /\ queue'.file = k - 1 .. made
      BY <1>3, <2>1, <2>2
    <3>2. k - 1 \in 1 .. made /\ k - 1 # made + 1
      BY <2>1, <2>2
    <3>3. \E j \in 1 .. (k - 1) : queue'.file = j .. made
      <4>1. k - 1 \in 1 .. (k - 1)
        BY <1>3, <3>2
      <4> QED
        BY <3>1, <4>1
    <3>4. k - 1 \in 1 .. (made + 1)
      BY <1>3, <3>2
    <3> QED
      BY <1>1, <3>1, <3>2, <3>3, <3>4 DEF InOrder
  <2>5. \A q \in Procs : op[q] # "idle" => req[q] \in 1 .. made
    BY DEF Base, MadeOnly
  <2>6. Requests(k - 1)'
    BY <1>1, <1>2, <1>3, <2>2, <2>5 DEF Requests
  <2>7. Stored(k - 1)'
    BY <1>0, <1>1, <1>2, <2>2, <2>3 DEF Stored, Current, Held
  <2>8. Hands(k - 1)'
    <3> SUFFICES ASSUME NEW q \in Procs
                 PROVE  /\ op[q] \in {"replicas", "seedReplicas"} => OrEmpty(copy[q]) = want
                        /\ op[q] \in {"save", "publish"} => req[q] = k - 1 /\ copy[q] = want
                        /\ op[q] = "publish" => Everywhere("state", copy[q])
                        /\ via[q] = "mirror" /\ op[q] = "save" => primary.state = copy[q]
                        /\ via[q] = "mirror" /\ op[q] = "publish" => primary.feed = copy[q]
      BY <1>1, <1>2, <2>3 DEF Hands, Current, Everywhere
    <3>1. op[q] \in {"save", "publish"} => req[q] = k - 1 /\ copy[q] = want
      BY <1>0, <2>2 DEF Hands
    <3> QED
      BY <1>0, <2>2, <3>1 DEF Hands, Current
  <2>9. Finished(k - 1)'
    BY <1>1, <1>3 DEF Finished, Finishing
  <2>10. IsNext(k - 1)'
    BY <1>4, <2>4, <2>6, <2>7, <2>8, <2>9 DEF IsNext
  <2> QED
    BY <2>2, <2>10 DEF NextAgain
<1> QED
  BY <1>5, <1>6

LEMMA NextStop ==
    ASSUME Base, NEW k, IsNext(k), NEW p \in Procs, StopProcess(p)
    PROVE  IsNext(k)'
<1>1. Answer(p, FALSE) /\ away' = away \ {p} /\ UNCHANGED <<redis, sync>>
  BY DEF StopProcess
<1>2. UNCHANGED <<primary, backup, marker>>
  BY <1>1 DEF redis
<1> QED
  BY <1>1, <1>2, NextLeaves

LEMMA NextCooldownEnds ==
    ASSUME Base, NEW k, IsNext(k), NEW p \in Procs, CooldownEnds(p)
    PROVE  IsNext(k)'
<1>0. InOrder(k) /\ Requests(k) /\ Routed /\ Locked /\ Stored(k) /\ Hands(k) /\ Finished(k)
  BY DEF IsNext
<1>1. away' \subseteq away /\ UNCHANGED <<plan, made, queue, waiting, primary, backup, marker,
                                           req, op, via, copy, sync, want>>
  BY DEF CooldownEnds, pc, redis, ghosts
<1>2. Placed(k)' = Placed(k) /\ (Grows(k)' <=> Grows(k)) /\ InOrder(k)'
  BY <1>0, <1>1 DEF Placed, Grows, InOrder
<1>3. Requests(k)' /\ Routed' /\ Locked'
  BY <1>0, <1>1 DEF Requests, Routed, Locked, Inside
<1>4. Stored(k)' /\ Hands(k)' /\ Finished(k)'
  BY <1>0, <1>1, <1>2 DEF Stored, Hands, Finished, Finishing, Current, Held, Everywhere
<1> QED
  BY <1>2, <1>3, <1>4 DEF IsNext

LEMMA NextLeftLockExpires ==
    ASSUME Base, NEW k, IsNext(k), NEW t \in Procs \cup {Old}, LeftLockExpires(t)
    PROVE  IsNext(k)'
<1>0. InOrder(k) /\ Requests(k) /\ Routed /\ Locked /\ Stored(k) /\ Hands(k) /\ Finished(k)
  BY DEF IsNext
<1>1. /\ t \in Procs => op[t] = "idle"
      /\ primary' = [primary EXCEPT !.lock = IF primary.lock = t THEN Nobody ELSE primary.lock]
      /\ backup' = [backup EXCEPT !.lock = IF backup.lock = t THEN Nobody ELSE backup.lock]
      /\ UNCHANGED <<plan, made, queue, waiting, marker, away, req, op, via, copy, sync, want>>
  BY DEF LeftLockExpires, Expired, pc, proc
<1>2. /\ \A g \in {"state", "feed"} : primary'[g] = primary[g] /\ backup'[g] = backup[g]
      /\ \A q \in Procs : op[q] # "idle" /\ primary.lock = q => primary'.lock = q
      /\ \A q \in Procs : op[q] # "idle" /\ backup.lock = q => backup'.lock = q
  BY <1>1 DEF Base, TableTypeOK, Stores
<1>3. Placed(k)' = Placed(k) /\ (Grows(k)' <=> Grows(k)) /\ InOrder(k)'
  BY <1>0, <1>1 DEF Placed, Grows, InOrder
<1>4. Requests(k)' /\ Routed'
  BY <1>0, <1>1 DEF Requests, Routed
<1>5. Locked'
  BY <1>0, <1>1, <1>2 DEF Locked, Inside
<1>6. Stored(k)'
  BY <1>0, <1>1, <1>2, <1>3 DEF Stored, Current, Held
<1>7. Hands(k)'
  BY <1>0, <1>1, <1>2, <1>3 DEF Hands, Current, Everywhere
<1>8. Finished(k)'
  BY <1>0, <1>1, <1>2, <1>3 DEF Finished, Finishing, Everywhere
<1> QED
  BY <1>3, <1>4, <1>5, <1>6, <1>7, <1>8 DEF IsNext

LEMMA NextSync ==
    ASSUME Base, NEW k, IsNext(k), causes' = {},
           SyncStart \/ SyncWrite \/ SyncFails \/ (\E g \in Keys : SyncTake(g))
    PROVE  IsNext(k)'
<1>0. InOrder(k) /\ Requests(k) /\ Routed /\ Locked /\ Stored(k) /\ Hands(k) /\ Finished(k)
  BY DEF IsNext
<1>1. UNCHANGED <<plan, made, queue, waiting, primary, marker, away, req, op, via, copy, want>>
  BY DEF SyncStart, SyncWrite, SyncFails, SyncTake, pc, redis, proc, ghosts
<1>2. SyncTyped /\ primary \in Stores /\ backup \in Stores /\ Keys = {"lock", "state", "feed"}
      /\ marker \in BOOLEAN
  BY DEF Base, TableTypeOK, Keys
<1>3. Placed(k)' = Placed(k) /\ (Grows(k)' <=> Grows(k)) /\ InOrder(k)'
  BY <1>0, <1>1 DEF Placed, Grows, InOrder
<1>4. Requests(k)' /\ Routed'
  BY <1>0, <1>1 DEF Requests, Routed
<1> DEFINE Copied(g) ==
               /\ marker => backup'[g] = backup[g]
               /\ ~ marker => \/ backup'[g] = backup[g] /\ (sync.key = g => sync'.key = g)
                              \/ sync'.key = g /\ backup'[g] = Absent
                              \/ backup'[g] = primary[g]
\* What a step of the copying run may do to the tables and to the lock of the backup.
<1>5. /\ Copied("state") /\ Copied("feed")
      /\ marker => backup'.lock = backup.lock
      /\ \A q \in Procs :
            primary.lock = q /\ ~ marker /\ (backup.lock = q \/ (sync.key = "lock" /\ sync.value = q))
               => backup'.lock = q \/ (sync'.key = "lock" /\ sync'.value = q)
  <2>1. CASE SyncStart
    <3>1. sync.key = "none" /\ backup' = backup
      BY <2>1 DEF SyncStart, NoSync, redis
    <3> QED
      BY <3>1
  <2>2. CASE SyncFails
    <3>1. sync.key = "none" /\ backup' = backup
      BY <1>2, <2>2 DEF SyncFails, Note, When, redis
    <3> QED
      BY <3>1
  <2>3. CASE SyncWrite
    <3>1. /\ sync.key \in Keys /\ sync'.key = "none" /\ ~ marker /\ primary[sync.key] = sync.value
          /\ backup' = [backup EXCEPT ![sync.key] = sync.value]
      BY <1>2, <2>3 DEF SyncWrite, Note, When, SyncTyped
    <3>2. \A g \in Keys : backup'[g] = IF g = sync.key THEN primary[g] ELSE backup[g]
      BY <1>2, <3>1 DEF Stores
    <3> QED
      BY <1>2, <3>1, <3>2
  <2>4. ASSUME NEW g \in Keys, SyncTake(g)
        PROVE  /\ Copied("state") /\ Copied("feed")
               /\ marker => backup'.lock = backup.lock
               /\ \A q \in Procs :
                     primary.lock = q /\ ~ marker /\ (backup.lock = q \/ (sync.key = "lock" /\ sync.value = q))
                        => backup'.lock = q \/ (sync'.key = "lock" /\ sync'.value = q)
    <3>1. sync.key = "none"
      BY <2>4 DEF SyncTake
    <3>2. CASE backup' = backup
      BY <3>1, <3>2
    <3>3. CASE /\ sync' = [left |-> sync.left \ {g}, key |-> g, value |-> primary[g]] /\ ~ marker
               /\ backup' = [backup EXCEPT ![g] = IF g = "lock" THEN Nobody ELSE Absent]
      <4>1. /\ sync'.key = g /\ sync'.value = primary[g]
            /\ \A h \in Keys : h # g => backup'[h] = backup[h]
            /\ g # "lock" => backup'[g] = Absent
        BY <1>2, <3>3 DEF Stores
      <4> QED
        BY <1>2, <3>1, <3>3, <4>1
    <3> QED
      BY <2>4, <3>2, <3>3 DEF SyncTake, Note, When
  <2> QED
    BY <2>1, <2>2, <2>3, <2>4
<1>6. Locked'
  BY <1>0, <1>1, <1>5 DEF Locked, Inside
<1>7. \A g \in {"state", "feed"} : Copied(g)
  BY <1>5
<1>8. Stored(k)'
  <2>1. \A g \in {"state", "feed"} : primary[g] \in DayTables \cup {Absent}
    BY <1>2 DEF Stores
  <2>2. \A g \in {"state", "feed"} :
            /\ marker => Current(k, backup'[g]) /\ Held(k, primary[g])
            /\ ~ marker => Current(k, primary[g]) /\ Held(k, backup'[g])
            /\ ~ marker /\ sync'.key # g => Current(k, backup'[g])
    <3> SUFFICES ASSUME NEW g \in {"state", "feed"}
                 PROVE  /\ marker => Current(k, backup'[g]) /\ Held(k, primary[g])
                        /\ ~ marker => Current(k, primary[g]) /\ Held(k, backup'[g])
                        /\ ~ marker /\ sync'.key # g => Current(k, backup'[g])
      OBVIOUS
    <3>1. /\ marker => Current(k, backup[g]) /\ Held(k, primary[g])
          /\ ~ marker => Current(k, primary[g]) /\ Held(k, backup[g])
          /\ ~ marker /\ sync.key # g => Current(k, backup[g])
      BY <1>0 DEF Stored
    <3>2. Copied(g) /\ Held(k, Absent) /\ (~ marker => Held(k, primary[g]))
      BY <1>7, <2>1, <3>1, CurrentHeld DEF Held
    <3> QED
      BY <3>1, <3>2
  <2> QED
    BY <1>1, <1>3, <2>2 DEF Stored, Current, Held
<1>9. \A g, x : g \in {"state", "feed"} /\ Everywhere(g, x)
          => IF marker THEN backup'[g] = x ELSE primary[g] = x /\ (sync'.key # g => backup'[g] = x)
  BY <1>2, <1>7 DEF Everywhere
<1>10. Hands(k)'
  <2> SUFFICES ASSUME NEW q \in Procs
               PROVE  /\ op[q] \in {"replicas", "seedReplicas"} => Current(k, copy[q])
                      /\ op[q] \in {"save", "publish"} =>
                            \/ req[q] = k /\ Grows(k) /\ copy[q] = Placed(k)
                            \/ req[q] = k - 1 /\ copy[q] = want
                      /\ op[q] = "publish" => Everywhere("state", copy[q])
                      /\ via[q] = "mirror" /\ op[q] = "save" => primary.state = copy[q]
                      /\ via[q] = "mirror" /\ op[q] = "publish" => primary.feed = copy[q]
    BY <1>1, <1>3, <1>9 DEF Hands, Current, Everywhere
  <2> QED
    BY <1>0 DEF Hands
<1>11. Finished(k)'
  <2> SUFFICES ASSUME Finishing
               PROVE  /\ Grows(k) /\ Everywhere("state", Placed(k)) /\ Everywhere("feed", Placed(k))
                      /\ \A q \in Procs : op[q] \in {"save", "publish"} => req[q] = k
                      /\ \A q \in Procs : op[q] \in {"replicas", "seedReplicas"} => copy[q] = Placed(k)
    BY <1>1, <1>3, <1>9 DEF Finished, Finishing, Everywhere
  <2> QED
    BY <1>0 DEF Finished
<1> QED
  BY <1>3, <1>4, <1>6, <1>8, <1>10, <1>11 DEF IsNext

-----------------------------------------------------------------------------
(* The invariant. *)

LEMMA FirstIsNext == TableInit => IsNext(1)
<1> SUFFICES ASSUME TableInit PROVE IsNext(1)
  OBVIOUS
<1>1. made = 0 /\ queue.memory = {} /\ queue.file = {} /\ waiting = Nobody /\ Nobody \notin Procs
  BY TableAssumption DEF TableInit
<1>2. 1 .. 0 = {}
  OBVIOUS
<1>3. InOrder(1)
  BY <1>1, <1>2 DEF InOrder
<1>4. /\ \A p \in Procs : op[p] = "idle" /\ via[p] = "ask" /\ p \notin away
      /\ OrEmpty(Absent) = want /\ ~ marker
      /\ \A g \in {"state", "feed"} : primary[g] = Absent /\ backup[g] = Absent
  BY DEF TableInit, OrEmpty
<1>5. Requests(1) /\ Routed /\ Locked /\ Finished(1)
  BY <1>1, <1>4 DEF Requests, Routed, Locked, Finished, Finishing, Inside
<1>6. Stored(1) /\ Hands(1)
  BY <1>4 DEF Stored, Hands, Current, Held
<1> QED
  BY <1>3, <1>5, <1>6 DEF IsNext

\* No step takes a cause back.
LEMMA CausesStay == Base /\ [TableNext]_tableVars => causes \subseteq causes'
<1> SUFFICES ASSUME Base, [TableNext]_tableVars PROVE causes \subseteq causes'
  OBVIOUS
<1>1. ASSUME NEW p \in Procs, Replicas(p) PROVE causes \subseteq causes'
  <2>1. \A u, v : Takes(p, u, v) => causes \subseteq causes'
    BY DEF Takes, Note
  <2> QED
    BY <1>1, <2>1 DEF Replicas
<1>2. ASSUME NEW p \in Procs, Step(p) PROVE causes \subseteq causes'
  BY <1>1, <1>2 DEF Step, Ask, Primary, PrimaryFails, Mirror, Promote, Backup, Note
<1>3. CASE (\E p \in Procs : Send(p) \/ StopProcess(p) \/ CooldownEnds(p) \/ HeldLockExpires(p))
           \/ (\E t \in Procs \cup {Old} : LeftLockExpires(t))
  BY <1>3 DEF Send, StopProcess, CooldownEnds, HeldLockExpires, LeftLockExpires, ghosts, Note
<1>4. CASE Schedule \/ (\E r \in Ids : Withdraw(r)) \/ PcGivesUp \/ Restart
  BY <1>4 DEF Schedule, Withdraw, PcGivesUp, Restart, ghosts, Note
<1>5. CASE SyncStart \/ SyncWrite \/ SyncFails \/ (\E g \in Keys : SyncTake(g))
  BY <1>5 DEF SyncStart, SyncWrite, SyncFails, SyncTake, ghosts, Note
<1>6. CASE UNCHANGED tableVars
  BY <1>6 DEF tableVars, ghosts
<1> QED
  BY <1>2, <1>3, <1>4, <1>5, <1>6 DEF TableNext

LEMMA NextStep ==
    ASSUME Base, NextAgain, [TableNext]_tableVars, causes' = {}
    PROVE  NextAgain'
<1>1. PICK k \in Nat : IsNext(k)
  BY DEF NextAgain
<1>2. IsNext(k)' => NextAgain'
  BY DEF NextAgain
<1>3. ASSUME NEW p \in Procs, Step(p) PROVE NextAgain'
  <2>1. Ask(p) => NextAgain'
    BY <1>1, <1>2, NextAsk
  <2>2. Primary(p) \/ PrimaryFails(p) => NextAgain'
    BY <1>1, NextPrimary, NextPrimaryFails
  <2>3. Mirror(p) \/ Promote(p) \/ Backup(p) \/ Replicas(p) => NextAgain'
    BY <1>1, NextMirror, NextPromote, NextBackup, NextReplicas
  <2> QED
    BY <1>3, <2>1, <2>2, <2>3 DEF Step
<1>4. ASSUME NEW p \in Procs, Send(p) \/ StopProcess(p) \/ CooldownEnds(p) PROVE NextAgain'
  BY <1>1, <1>2, <1>4, NextSend, NextStop, NextCooldownEnds
<1>5. ASSUME NEW p \in Procs, HeldLockExpires(p) PROVE FALSE
  BY <1>5 DEF HeldLockExpires, Note
<1>6. ASSUME NEW r \in Ids, Withdraw(r) PROVE FALSE
  BY <1>6 DEF Withdraw, Note
<1>7. Schedule \/ PcGivesUp => NextAgain'
  BY <1>1, <1>2, NextSchedule, NextGivesUp
<1>8. Restart => NextAgain'
  BY <1>1, NextRestart
<1>9. ASSUME NEW t \in Procs \cup {Old}, LeftLockExpires(t) PROVE NextAgain'
  BY <1>1, <1>2, <1>9, NextLeftLockExpires
<1>10. SyncStart \/ SyncWrite \/ SyncFails \/ (\E g \in Keys : SyncTake(g)) => NextAgain'
  BY <1>1, <1>2, NextSync
<1>11. CASE UNCHANGED tableVars
  <2>1. UNCHANGED <<plan, made, queue, waiting, primary, backup, marker, away, req, op, via, copy, sync, want>>
    BY <1>11 DEF tableVars, pc, redis, proc, ghosts
  <2>2. Placed(k)' = Placed(k) /\ (Grows(k)' <=> Grows(k)) /\ (InOrder(k) => InOrder(k)')
    BY <2>1 DEF Placed, Grows, InOrder
  <2>3. (Requests(k) => Requests(k)') /\ (Routed => Routed') /\ (Locked => Locked')
    BY <2>1 DEF Requests, Routed, Locked, Inside
  <2>4. (Stored(k) => Stored(k)') /\ (Hands(k) => Hands(k)') /\ (Finished(k) => Finished(k)')
    BY <2>1, <2>2 DEF Stored, Hands, Finished, Finishing, Current, Held, Everywhere
  <2> QED
    BY <1>1, <1>2, <2>2, <2>3, <2>4 DEF IsNext
<1> QED
  BY <1>3, <1>4, <1>5, <1>6, <1>7, <1>8, <1>9, <1>10, <1>11 DEF TableNext

LEMMA AtRestCurrent ==
    ASSUME Base, NextAgain, AtRest
    PROVE  Reader("state") = want /\ Reader("feed") = want
<1>1. PICK k \in Nat : IsNext(k)
  BY DEF NextAgain
<1>2. made \in Nat /\ k \in 1 .. made + 1 /\ k .. made = {} /\ sync.key = "none" /\ marker \in BOOLEAN
  <2>1. made \in Nat /\ marker \in BOOLEAN
    BY DEF Base, TableTypeOK
  <2>2. sync.key = "none"
    BY DEF AtRest, NoSync
  <2>3. k \in 1 .. made + 1 /\ queue.memory = k .. made
    BY <1>1 DEF IsNext, InOrder
  <2>4. queue.memory = {}
    BY DEF AtRest
  <2> QED
    BY <2>1, <2>2, <2>3, <2>4
<1>3. k > made /\ k > 0
  BY <1>2
<1>4. \A x : Current(k, x) => OrEmpty(x) = want
  BY <1>2, <1>3 DEF Current, Grows
<1>5. ASSUME NEW g \in {"state", "feed"} PROVE Reader(g) = want
  <2> DEFINE first == IF marker THEN backup[g] ELSE primary[g]
  <2>1. primary[g] \in DayTables \cup {Absent} /\ backup[g] \in DayTables \cup {Absent}
    BY DEF Base, TableTypeOK, Stores
  <2>2. /\ marker => Current(k, backup[g]) /\ Held(k, primary[g])
        /\ ~ marker => Current(k, primary[g]) /\ Held(k, backup[g])
    BY <1>1 DEF IsNext, Stored
  <2>3. Held(k, primary[g]) /\ Held(k, backup[g])
    BY <1>2, <2>1, <2>2, CurrentHeld
  <2>4. Current(k, first) /\ first \in DayTables \cup {Absent}
    BY <1>2, <2>1, <2>2
  <2> HIDE DEF first
  <2>5. Current(k, Better(first, primary[g])) /\ Better(first, primary[g]) \in DayTables \cup {Absent}
    BY <1>3, <2>1, <2>3, <2>4, BetterCurrent
  <2>6. Current(k, Freshest(first, primary[g], backup[g]))
    BY <1>3, <2>1, <2>3, <2>5, BetterCurrent DEF Freshest
  <2> QED
    BY <1>4, <2>6 DEF Reader, first
<1> QED
  BY <1>5

TableInvariant == Base /\ (causes = {} => NextAgain)

THEOREM TableInvariance == TableSpec => []TableInvariant
<1>1. TableInit => TableInvariant
  BY BaseInit, FirstIsNext DEF TableInvariant, NextAgain
<1>2. TableInvariant /\ [TableNext]_tableVars => TableInvariant'
  <2> SUFFICES ASSUME TableInvariant, [TableNext]_tableVars PROVE TableInvariant'
    OBVIOUS
  <2>1. Base /\ Base' /\ causes \subseteq causes'
    BY BaseStep, CausesStay DEF TableInvariant
  <2>2. causes' = {} => NextAgain'
    BY <2>1, NextStep DEF TableInvariant
  <2> QED
    BY <2>1, <2>2 DEF TableInvariant
<1> QED
  BY <1>1, <1>2, PTL DEF TableSpec

\* At rest, and without any of the causes, a reader sees what the accepted appointments
\* make of the table: h1-cloud-store.ts and callRedis lose nothing that was accepted and
\* bring nothing back.
THEOREM LossHasACauseHolds == TableSpec => []LossHasACause
<1>1. TableInvariant => LossHasACause
  BY AtRestCurrent DEF TableInvariant, LossHasACause
<1> QED
  BY <1>1, TableInvariance, PTL
=============================================================================

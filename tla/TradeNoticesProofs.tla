------------------------- MODULE TradeNoticesProofs -------------------------
(***************************************************************************)
(* Proofs about TradeNotices, for any number of events and intents, any    *)
(* caps and any number of faults; and about EntryNetting, whose half       *)
(* reversals are among the events, for any charts, tasks, books and        *)
(* settings of the EA.                                                     *)
(***************************************************************************)
EXTENDS MCTradeNotices, SequenceTheorems, NaturalsInduction, WellFoundedInduction,
        TLAPS

\* What a saved or remembered state has to be for the flush.
Good(s) == Distinct(s.pending) /\ In(s.pending) \cap In(s.delivered) = {}

-----------------------------------------------------------------------------
(* Sequences as queues *)

LEMMA InQueue == ASSUME NEW S, NEW s \in Seq(S) PROVE In(s) \subseteq S
  BY ElementOfSeq DEF In

LEMMA InAppend ==
    ASSUME NEW S, NEW s \in Seq(S), NEW x \in S
    PROVE  In(Append(s, x)) = In(s) \cup {x}
<1>1. /\ Append(s, x) \in Seq(S) /\ Len(Append(s, x)) = Len(s) + 1 /\ Len(s) \in Nat
      /\ \A i \in 1 .. Len(s) : Append(s, x)[i] = s[i]
      /\ Append(s, x)[Len(s) + 1] = x
  BY AppendProperties, LenProperties
<1> QED
  BY <1>1 DEF In

LEMMA DistinctAppend ==
    ASSUME NEW S, NEW s \in Seq(S), NEW x \in S, Distinct(s), x \notin In(s)
    PROVE  Distinct(Append(s, x))
<1>1. /\ Len(Append(s, x)) = Len(s) + 1 /\ Len(s) \in Nat
      /\ \A i \in 1 .. Len(s) : Append(s, x)[i] = s[i]
      /\ Append(s, x)[Len(s) + 1] = x
  BY AppendProperties, LenProperties
<1> QED
  BY <1>1 DEF Distinct, In

LEMMA Shifting ==
    ASSUME NEW S, NEW s \in Seq(S), s # <<>>
    PROVE  /\ Head(s) \in S /\ Tail(s) \in Seq(S)
           /\ In(s) = In(Tail(s)) \cup {Head(s)}
           /\ Distinct(s) => Distinct(Tail(s)) /\ Head(s) \notin In(Tail(s))
<1>1. /\ Head(s) \in S /\ Tail(s) \in Seq(S) /\ Head(s) = s[1]
      /\ Len(s) \in Nat /\ Len(s) # 0 /\ Len(Tail(s)) = Len(s) - 1
      /\ \A i \in 1 .. Len(Tail(s)) : Tail(s)[i] = s[i + 1]
  BY HeadTailProperties, LenProperties, EmptySeq
<1>2. ASSUME NEW i \in 1 .. Len(s), i # 1 PROVE i - 1 \in 1 .. Len(Tail(s)) /\ Tail(s)[i - 1] = s[i]
  <2>1. i - 1 \in 1 .. Len(Tail(s))
    BY <1>1, <1>2
  <2>2. Tail(s)[i - 1] = s[(i - 1) + 1] /\ (i - 1) + 1 = i
    BY <1>1, <2>1
  <2> QED
    BY <2>1, <2>2
<1>3. In(s) = In(Tail(s)) \cup {Head(s)}
  <2>1. In(s) \subseteq In(Tail(s)) \cup {Head(s)}
    BY <1>1, <1>2 DEF In
  <2>2. In(Tail(s)) \cup {Head(s)} \subseteq In(s)
    BY <1>1 DEF In
  <2> QED
    BY <2>1, <2>2
<1>4. ASSUME Distinct(s) PROVE Distinct(Tail(s)) /\ Head(s) \notin In(Tail(s))
  BY <1>1, <1>4 DEF Distinct, In
<1> QED
  BY <1>1, <1>3, <1>4

LEMMA Cutting ==
    ASSUME NEW S, NEW s \in Seq(S), NEW n \in Nat \ {0}
    PROVE  /\ Newest(s, n) \in Seq(S) /\ In(Newest(s, n)) \subseteq In(s)
           /\ Distinct(s) => Distinct(Newest(s, n))
<1> DEFINE m == Len(s) - n + 1
<1>0. Len(s) \in Nat
  BY LenProperties
<1>1. CASE Len(s) <= n
  BY <1>1 DEF Newest
<1>2. CASE ~(Len(s) <= n)
  <2>1. m \in 1 .. Len(s) /\ Newest(s, n) = SubSeq(s, m, Len(s))
    BY <1>0, <1>2 DEF Newest
  <2>2. \A i \in m .. Len(s) : s[i] \in S
    BY <1>0, <2>1, ElementOfSeq
  <2>3. /\ SubSeq(s, m, Len(s)) \in Seq(S) /\ Len(SubSeq(s, m, Len(s))) = n
        /\ \A i \in 1 .. n : SubSeq(s, m, Len(s))[i] = s[m + i - 1]
    BY <1>0, <2>1, <2>2, SubSeqProperties
  <2>4. \A i \in 1 .. n : m + i - 1 \in 1 .. Len(s)
    BY <1>0, <2>1
  <2> HIDE DEF m
  <2>5. In(SubSeq(s, m, Len(s))) \subseteq In(s)
    BY <2>3, <2>4 DEF In
  <2>6. ASSUME Distinct(s), NEW i \in 1 .. n, NEW j \in 1 .. n, s[m + i - 1] = s[m + j - 1]
        PROVE  i = j
    <3>1. m + i - 1 = m + j - 1
      BY <2>4, <2>6 DEF Distinct
    <3>2. m \in Int
      BY <2>1
    <3> QED
      BY <3>1, <3>2
  <2>7. Distinct(s) => Distinct(SubSeq(s, m, Len(s)))
    <3> DEFINE t == SubSeq(s, m, Len(s))
    <3>1. Len(t) = n /\ \A i \in 1 .. n : t[i] = s[m + i - 1]
      BY <2>3
    <3> HIDE DEF t
    <3>2. Distinct(s) => Distinct(t)
      BY <2>6, <3>1 DEF Distinct
    <3> QED
      BY <3>2 DEF t
  <2> QED
    BY <2>1, <2>3, <2>5, <2>7
<1> QED
  BY <1>1, <1>2

-----------------------------------------------------------------------------
(* The state file *)

LEMMA Parts ==
    ASSUME NEW s \in States
    PROVE  /\ s.pending \in Seq(Ids) /\ s.delivered \in Seq(Ids) /\ s.final \subseteq Intents
           /\ In(s.pending) \subseteq Ids /\ In(s.delivered) \subseteq Ids
  BY InQueue DEF States

LEMMA TrimmedFacts ==
    ASSUME NEW s \in States
    PROVE  /\ Trimmed(s) \in States /\ Trimmed(s).final = s.final
           /\ In(Trimmed(s).pending) \subseteq In(s.pending)
           /\ In(Trimmed(s).delivered) \subseteq In(s.delivered)
           /\ Good(s) => Good(Trimmed(s))
<1> DEFINE p == Newest(s.pending, PendingCap)
           d == Newest(s.delivered, DeliveredCap)
<1>1. /\ p \in Seq(Ids) /\ In(p) \subseteq In(s.pending) /\ (Distinct(s.pending) => Distinct(p))
      /\ d \in Seq(Ids) /\ In(d) \subseteq In(s.delivered)
  BY Parts, Cutting, NoticeAssumption
<1>2. Trimmed(s) = [s EXCEPT !.pending = p, !.delivered = d]
  BY DEF Trimmed
<1> HIDE DEF p, d
<1>3. /\ Trimmed(s) \in States /\ Trimmed(s).final = s.final
      /\ Trimmed(s).pending = p /\ Trimmed(s).delivered = d
  BY <1>1, <1>2 DEF States
<1> QED
  BY <1>1, <1>3 DEF Good

LEMMA QueuedFacts ==
    ASSUME NEW s \in States, NEW n \in Ids
    PROVE  /\ Queued(s, n) \in States /\ Queued(s, n).final = s.final
           /\ Queued(s, n).delivered = s.delivered
           /\ In(s.pending) \subseteq In(Queued(s, n).pending)
           /\ Known(Queued(s, n)) = Known(s) \cup {n}
           /\ Good(s) => Good(Queued(s, n))
<1>1. CASE n \in Known(s)
  BY <1>1 DEF Queued, Known
<1>2. CASE n \notin Known(s)
  <2> DEFINE p == Append(s.pending, n)
  <2>1. p \in Seq(Ids) /\ In(p) = In(s.pending) \cup {n}
    BY Parts, InAppend, AppendProperties
  <2>2. Distinct(s.pending) => Distinct(p)
    BY <1>2, Parts, DistinctAppend DEF Known
  <2>3. Queued(s, n) = [s EXCEPT !.pending = p]
    BY <1>2 DEF Queued
  <2> HIDE DEF p
  <2>4. /\ Queued(s, n) \in States /\ Queued(s, n).final = s.final
        /\ Queued(s, n).delivered = s.delivered /\ Queued(s, n).pending = p
    BY <2>1, <2>3 DEF States
  <2> QED
    BY <1>2, <2>1, <2>2, <2>4 DEF Known, Good
<1> QED
  BY <1>1, <1>2

\* An intent that becomes final changes neither list.
LEMMA FinalFacts ==
    ASSUME NEW s \in States, NEW n \in Intents
    PROVE  LET t == [s EXCEPT !.final = @ \cup {n}]
           IN  /\ t \in States /\ t.pending = s.pending /\ t.delivered = s.delivered
               /\ t.final = s.final \cup {n}
  BY DEF States

LEMMA DeliveredFacts ==
    ASSUME NEW s \in States, s.pending # <<>>, Good(s)
    PROVE  LET h == Head(s.pending)
               t == Delivered(s)
           IN  /\ h \in Ids /\ h \in In(s.pending) /\ h \notin In(s.delivered)
               /\ t \in States /\ t.final = s.final /\ Good(t)
               /\ In(t.delivered) = In(s.delivered) \cup {h}
               /\ In(t.pending) = In(s.pending) \ {h}
               /\ Known(t) = Known(s)
<1> DEFINE h == Head(s.pending)
           p == Tail(s.pending)
           d == Append(s.delivered, h)
<1>1. /\ h \in Ids /\ p \in Seq(Ids) /\ In(s.pending) = In(p) \cup {h}
      /\ Distinct(p) /\ h \notin In(p)
  BY Parts, Shifting DEF Good
<1>2. d \in Seq(Ids) /\ In(d) = In(s.delivered) \cup {h}
  BY <1>1, Parts, InAppend, AppendProperties
<1>3. Delivered(s) = [s EXCEPT !.delivered = d, !.pending = p]
  BY DEF Delivered
<1> HIDE DEF h, p, d
<1>4. /\ Delivered(s) \in States /\ Delivered(s).final = s.final
      /\ Delivered(s).pending = p /\ Delivered(s).delivered = d
  BY <1>1, <1>2, <1>3 DEF States
<1>5. h \notin In(s.delivered)
  BY <1>1 DEF Good
<1> QED
  BY <1>1, <1>2, <1>4, <1>5 DEF Good, Known, h
-----------------------------------------------------------------------------
(* The invariant *)

\* Every save of a queue that is ahead of memory keeps the invariant's parts that
\* speak of the two states, whether it succeeds or fails.
LEMMA Saving ==
    ASSUME IInv, NEW s \in States, Good(s), s.delivered = mem.delivered,
           In(mem.pending) \subseteq In(s.pending), s.final \subseteq Known(s) \cup evicted,
           NEW next \in {"idle", "unlink", "flush"}, SaveThen(s, next),
           UNCHANGED <<file, emitted, told>>
    PROVE  /\ mem' \in States /\ disk' \in States /\ evicted' \subseteq Ids
           /\ evicted \subseteq evicted' /\ faults' \in faults .. MaxFaults
           /\ pc' \in {"idle", next}
           /\ pc' # "idle" => Known(s) \subseteq Known(disk') \cup evicted'
           /\ QueueIsFresh' /\ NothingIsLost' /\ EachExcused'
           /\ Known(disk') \subseteq Known(mem') \cup evicted'
           /\ In(disk'.delivered) \subseteq In(mem'.delivered) \cup evicted'
           /\ \A u \in {mem', disk'} : u.final \subseteq Known(u) \cup evicted'
           /\ Known(disk) \subseteq Known(disk') \cup evicted'
<1> DEFINE t == Trimmed(s)
<1>1. /\ t \in States /\ t.final = s.final /\ Good(t)
      /\ In(t.pending) \subseteq In(s.pending) /\ In(t.delivered) \subseteq In(s.delivered)
  BY TrimmedFacts
<1>2. /\ mem' = t
      /\ evicted' = evicted \cup (In(s.pending) \ In(t.pending)) \cup (In(s.delivered) \ In(t.delivered))
  BY DEF SaveThen, SaveState, SaveFails
<1>3. \/ disk' = t /\ faults' = faults /\ pc' = next
      \/ disk' = disk /\ faults' = faults + 1 /\ faults < MaxFaults /\ pc' = "idle"
  BY DEF SaveThen, SaveState, SaveFails
<1> HIDE DEF t
<1>4. mem \in States /\ disk \in States /\ evicted \subseteq Ids /\ faults \in 0 .. MaxFaults
      /\ MaxFaults \in Nat /\ told \in [Ids -> 0 .. MaxFaults + 2] /\ emitted \subseteq Deals
  BY NoticeAssumption DEF IInv, TypeOK
<1>5. /\ mem' \in States /\ disk' \in States /\ evicted' \subseteq Ids
      /\ evicted \subseteq evicted' /\ faults' \in faults .. MaxFaults /\ pc' \in {"idle", next}
  <2>1. In(s.pending) \subseteq Ids /\ In(s.delivered) \subseteq Ids
    BY Parts
  <2>2. mem' \in States /\ disk' \in States /\ evicted' \subseteq Ids /\ evicted \subseteq evicted'
    BY <1>1, <1>2, <1>3, <1>4, <2>1
  <2>3. faults' \in faults .. MaxFaults
    BY <1>3, <1>4
  <2> QED
    BY <1>3, <2>2, <2>3
<1>6. /\ Known(s) \subseteq Known(t) \cup evicted' /\ In(s.pending) \subseteq In(t.pending) \cup evicted'
      /\ In(s.delivered) \subseteq In(t.delivered) \cup evicted'
  BY <1>2 DEF Known
<1>7. Known(disk) \subseteq Known(mem) \cup evicted /\ Known(mem) \subseteq Known(s)
      /\ In(disk.delivered) \subseteq In(mem.delivered) \cup evicted
  BY DEF IInv, Ahead, Known
<1>8. /\ Known(disk) \subseteq Known(t) \cup evicted' /\ In(disk.delivered) \subseteq In(t.delivered) \cup evicted'
  BY <1>5, <1>6, <1>7
<1>9. QueueIsFresh'
  <2>1. \A n \in In(t.delivered) : told'[n] > 0
    BY <1>1 DEF IInv, QueueIsFresh
  <2>2. Good(t) /\ Good(disk) /\ \A n \in In(disk.delivered) : told'[n] > 0
    BY <1>1 DEF IInv, QueueIsFresh, Good
  <2>3. \A u \in {mem', disk'} : Good(u) /\ \A n \in In(u.delivered) : told'[n] > 0
    BY <1>2, <1>3, <2>1, <2>2
  <2> QED
    BY <2>3 DEF QueueIsFresh, Good
<1>10. NothingIsLost'
  <2> SUFFICES ASSUME NEW n \in (emitted \cup disk'.final) \ evicted', told[n] = 0
               PROVE  n \in file \cup In(disk'.pending)
    BY DEF NothingIsLost
  <2>1. n \notin evicted
    BY <1>5
  <2>2. CASE disk' = disk
    BY <2>1, <2>2 DEF IInv, NothingIsLost
  <2>3. CASE disk' = t
    <3>1. ASSUME n \in Known(s) PROVE n \in In(t.pending)
      <4>1. n \notin In(s.delivered)
        <5>1. \A x \in In(mem.delivered) : told[x] > 0
          BY DEF IInv, QueueIsFresh
        <5>2. n \in In(mem.delivered) => told[n] > 0
          BY <5>1
        <5>3. ~(told[n] > 0)
          OBVIOUS
        <5> QED
          BY <5>2, <5>3
      <4> QED
        BY <1>6, <3>1, <4>1 DEF Known
    <3>2. CASE n \in emitted
      <4>1. n \in file \cup In(disk.pending)
        BY <2>1, <3>2 DEF IInv, NothingIsLost
      <4>2. n \in file \/ n \in Known(s)
        BY <1>7, <2>1, <4>1 DEF Known
      <4> QED
        BY <2>3, <3>1, <4>2
    <3>3. CASE n \in disk'.final
      <4>1. n \in s.final
        BY <1>1, <2>3, <3>3
      <4> QED
        BY <2>1, <2>3, <3>1, <4>1
    <3> QED
      BY <3>2, <3>3
  <2> QED
    BY <1>3, <2>2, <2>3
<1>11. EachExcused'
  <2> SUFFICES ASSUME NEW n \in Ids \ evicted'
               PROVE  told[n] <= faults' + (IF n \in In(mem'.delivered) THEN 1 ELSE 0)
    BY DEF EachExcused
  <2>1. n \in In(mem.delivered) => n \in In(mem'.delivered)
    BY <1>2, <1>6
  <2>2. told[n] <= faults + (IF n \in In(mem.delivered) THEN 1 ELSE 0)
    BY <1>5 DEF IInv, EachExcused
  <2>3. told[n] \in Nat /\ faults \in Nat /\ faults' \in Nat /\ faults <= faults'
    BY <1>4, <1>5
  <2> QED
    BY <2>1, <2>2, <2>3
<1>12. \A u \in {mem', disk'} : u.final \subseteq Known(u) \cup evicted'
  <2>1. t.final \subseteq Known(t) \cup evicted'
    BY <1>1, <1>5, <1>6
  <2>2. disk.final \subseteq Known(disk) \cup evicted'
    BY <1>5 DEF IInv, Ahead
  <2> QED
    BY <1>2, <1>3, <2>1, <2>2
<1>13. pc' # "idle" => Known(s) \subseteq Known(disk') \cup evicted'
  BY <1>3, <1>6
<1>14. Known(disk) \subseteq Known(disk') \cup evicted'
  BY <1>3, <1>8
<1>15. /\ Known(disk') \subseteq Known(mem') \cup evicted'
       /\ In(disk'.delivered) \subseteq In(mem'.delivered) \cup evicted'
  BY <1>2, <1>3, <1>8
<1> QED
  BY <1>5, <1>9, <1>10, <1>11, <1>12, <1>13, <1>14, <1>15

\* What memory holds may always be saved.
LEMMA Remembered ==
    ASSUME IInv
    PROVE  /\ mem \in States /\ Good(mem) /\ mem.final \subseteq Known(mem) \cup evicted
           /\ \A n \in Ids : /\ Queued(mem, n) \in States /\ Good(Queued(mem, n))
                             /\ Queued(mem, n).delivered = mem.delivered
                             /\ In(mem.pending) \subseteq In(Queued(mem, n).pending)
                             /\ n \in Known(Queued(mem, n))
                             /\ Queued(mem, n).final \subseteq Known(Queued(mem, n)) \cup evicted
<1>1. mem \in States /\ Good(mem) /\ mem.final \subseteq Known(mem) \cup evicted
  BY DEF IInv, TypeOK, QueueIsFresh, Good, Ahead
<1> QED
  BY <1>1, QueuedFacts

\* The invariant over a step that leaves the two states alone and shows nothing.
LEMMA Elsewhere ==
    ASSUME IInv, UNCHANGED <<mem, disk, told, evicted>>,
           file' \subseteq Events, names' \subseteq Events, cur' \subseteq cur,
           emitted' \subseteq Deals, fresh' \in BOOLEAN,
           pc' \in {"idle", "collect", "unlink", "flush", "save"}, pc' = "unlink" \/ cur' = {},
           faults' \in faults .. MaxFaults,
           \A n \in emitted' : n \in emitted \/ n \in file',
           \A n \in file : n \in file' \/ told[n] > 0 \/ n \in Known(disk) \cup evicted
    PROVE  IInv'
<1>1. TypeOK'
  BY DEF IInv, TypeOK
<1>2. QueueIsFresh'
  BY DEF IInv, QueueIsFresh
<1>3. Ahead'
  BY DEF IInv, Ahead
<1>4. EachExcused'
  <2>1. faults \in Nat /\ faults' \in Nat /\ faults <= faults' /\ told \in [Ids -> Nat]
    BY NoticeAssumption DEF IInv, TypeOK
  <2> SUFFICES ASSUME NEW n \in Ids \ evicted
               PROVE  told[n] <= faults' + (IF n \in In(mem.delivered) THEN 1 ELSE 0)
    BY DEF EachExcused
  <2>2. told[n] <= faults + (IF n \in In(mem.delivered) THEN 1 ELSE 0)
    BY DEF IInv, EachExcused
  <2> QED
    BY <2>1, <2>2
<1>5. NothingIsLost'
  <2> SUFFICES ASSUME NEW n \in (emitted' \cup disk.final) \ evicted, told[n] = 0
               PROVE  n \in file' \cup In(disk.pending)
    BY DEF NothingIsLost
  <2>1. ~(told[n] > 0)
    OBVIOUS
  <2>2. n \notin In(disk.delivered)
    <3>1. \A x \in In(disk.delivered) : told[x] > 0
      BY DEF IInv, QueueIsFresh
    <3> QED
      BY <2>1, <3>1
  <2>3. n \in file \cup In(disk.pending) \/ n \in file'
    BY DEF IInv, NothingIsLost
  <2> QED
    BY <2>1, <2>2, <2>3 DEF Known
<1> QED
  BY <1>1, <1>2, <1>3, <1>4, <1>5 DEF IInv

\* One case per action.
LEMMA Step == IInv /\ [Next]_vars => IInv'
<1> SUFFICES ASSUME IInv, [Next]_vars PROVE IInv'
  OBVIOUS
<1>0. /\ mem \in States /\ disk \in States /\ told \in [Ids -> 0 .. MaxFaults + 2]
      /\ faults \in 0 .. MaxFaults /\ MaxFaults \in Nat /\ file \subseteq Events
      /\ names \subseteq Events /\ cur \subseteq Events /\ emitted \subseteq Deals
      /\ evicted \subseteq Ids /\ fresh \in BOOLEAN
      /\ pc \in {"idle", "collect", "unlink", "flush", "save"}
      /\ (pc = "unlink" \/ cur = {}) /\ faults \in faults .. MaxFaults
  BY NoticeAssumption DEF IInv, TypeOK, Ahead
<1>1. ASSUME NEW n \in Events, Emit(n) PROVE IInv'
  <2>1. file' \subseteq Events /\ emitted' \subseteq Deals
    BY <1>0, <1>1 DEF Emit
  <2> QED
    BY <1>0, <1>1, <2>1, Elsewhere DEF Emit
<1>2. CASE HeartbeatStale
  <2>1. faults' \in faults .. MaxFaults
    BY <1>0, <1>2 DEF HeartbeatStale
  <2>2. fresh' \in BOOLEAN
    BY <1>2 DEF HeartbeatStale
  <2> QED
    BY <1>0, <1>2, <2>1, <2>2, Elsewhere DEF HeartbeatStale
<1>3. CASE HeartbeatFresh
  BY <1>0, <1>3, Elsewhere DEF HeartbeatFresh
<1>4. ASSUME NEW n \in Intents, ReportIntent(n) PROVE IInv'
  <2> DEFINE f == [mem EXCEPT !.final = @ \cup {n}]
             q == Queued(f, n)
  <2>1. n \in Ids /\ f \in States /\ f.pending = mem.pending /\ f.delivered = mem.delivered
        /\ f.final = mem.final \cup {n}
    BY <1>0, FinalFacts DEF Ids
  <2>2. /\ q \in States /\ q.final = f.final /\ q.delivered = f.delivered
        /\ In(f.pending) \subseteq In(q.pending) /\ Known(q) = Known(f) \cup {n}
        /\ (Good(f) => Good(q))
    <3> HIDE DEF f
    <3> QED
      BY <2>1, QueuedFacts
  <2>3. Good(f) /\ Known(f) = Known(mem)
    BY <2>1, Remembered DEF Good, Known
  <2>4. SaveThen(q, "idle") /\ UNCHANGED <<file, fresh, names, cur, emitted, told>> /\ pc = "idle"
    BY <1>4 DEF ReportIntent
  <2> HIDE DEF f, q
  <2>5. Good(q) /\ In(mem.pending) \subseteq In(q.pending) /\ q.delivered = mem.delivered
        /\ q.final \subseteq Known(q) \cup evicted
    BY <2>1, <2>2, <2>3, Remembered
  <2>6. /\ mem' \in States /\ disk' \in States /\ evicted' \subseteq Ids
        /\ faults' \in faults .. MaxFaults /\ pc' \in {"idle"}
        /\ QueueIsFresh' /\ NothingIsLost' /\ EachExcused'
        /\ Known(disk') \subseteq Known(mem') \cup evicted'
        /\ In(disk'.delivered) \subseteq In(mem'.delivered) \cup evicted'
        /\ \A u \in {mem', disk'} : u.final \subseteq Known(u) \cup evicted'
    BY <2>2, <2>4, <2>5, Saving
  <2>7. faults' \in 0 .. MaxFaults /\ cur = {}
    BY <1>0, <2>4, <2>6
  <2>8. TypeOK' /\ Ahead'
    BY <1>0, <2>4, <2>6, <2>7 DEF TypeOK, Ahead
  <2> QED
    BY <2>6, <2>8 DEF IInv
<1>5. CASE StartPass
  BY <1>0, <1>5, Elsewhere DEF StartPass
<1>6. ASSUME NEW n \in Events, CollectDelivered(n) PROVE IInv'
  <2>1. told[n] > 0
    <3>1. \A x \in In(mem.delivered) : told[x] > 0
      BY DEF IInv, QueueIsFresh
    <3> QED
      BY <1>6, <3>1 DEF CollectDelivered
  <2>2. file' \subseteq Events /\ names' \subseteq Events
        /\ \A x \in file : x \in file' \/ told[x] > 0
    BY <1>0, <1>6, <2>1 DEF CollectDelivered
  <2> QED
    BY <1>0, <1>6, <2>2, Elsewhere DEF CollectDelivered
<1>7. ASSUME NEW n \in Events, CollectLater(n) PROVE IInv'
  <2>1. names' \subseteq Events
    BY <1>0, <1>7 DEF CollectLater
  <2> QED
    BY <1>0, <1>7, <2>1, Elsewhere DEF CollectLater
<1>8. ASSUME NEW n \in Events, CollectEvent(n) PROVE IInv'
  <2> DEFINE q == Queued(mem, n)
  <2>1. n \in Ids /\ SaveThen(q, "unlink") /\ UNCHANGED <<file, fresh, emitted, told>>
        /\ names' = (IF pc' = "idle" THEN {} ELSE names \ {n})
        /\ cur' = (IF pc' = "idle" THEN {} ELSE {n})
    BY <1>8 DEF CollectEvent, Ids
  <2>2. /\ q \in States /\ Good(q) /\ q.delivered = mem.delivered
        /\ In(mem.pending) \subseteq In(q.pending) /\ n \in Known(q)
        /\ q.final \subseteq Known(q) \cup evicted
    BY <2>1, Remembered
  <2> HIDE DEF q
  <2>3. /\ mem' \in States /\ disk' \in States /\ evicted' \subseteq Ids
        /\ faults' \in faults .. MaxFaults /\ pc' \in {"idle", "unlink"}
        /\ QueueIsFresh' /\ NothingIsLost' /\ EachExcused'
        /\ Known(disk') \subseteq Known(mem') \cup evicted'
        /\ In(disk'.delivered) \subseteq In(mem'.delivered) \cup evicted'
        /\ \A u \in {mem', disk'} : u.final \subseteq Known(u) \cup evicted'
        /\ (pc' # "idle" => Known(q) \subseteq Known(disk') \cup evicted')
    BY <2>1, <2>2, Saving
  <2>4. faults' \in 0 .. MaxFaults /\ names' \subseteq Events /\ cur' \subseteq Events
    BY <1>0, <2>1, <2>3
  <2>5. cur' \subseteq Known(disk') \cup evicted' /\ (pc' = "unlink" \/ cur' = {})
    BY <2>1, <2>2, <2>3
  <2>6. TypeOK' /\ Ahead'
    BY <1>0, <2>1, <2>3, <2>4, <2>5 DEF TypeOK, Ahead
  <2> QED
    BY <2>3, <2>6 DEF IInv
<1>9. CASE Unlink
  <2>1. cur \subseteq Known(disk) \cup evicted
    BY DEF IInv, Ahead
  <2>2. file' \subseteq Events /\ \A n \in file : n \in file' \/ n \in Known(disk) \cup evicted
    BY <1>0, <1>9, <2>1 DEF Unlink
  <2>3. \A n \in emitted : n \in emitted
    OBVIOUS
  <2> QED
    BY <1>0, <1>9, <2>2, <2>3, Elsewhere DEF Unlink
<1>10. CASE EndCollect
  BY <1>0, <1>10, Elsewhere DEF EndCollect
<1>11. CASE EndFlush
  BY <1>0, <1>11, Elsewhere DEF EndFlush
<1>12. CASE Send
  <2> DEFINE h == Head(mem.pending)
  <2>1. /\ mem.pending # <<>> /\ mem' = Delivered(mem) /\ told' = Shown(h) /\ pc = "flush" /\ pc' = "save"
        /\ UNCHANGED <<file, fresh, disk, names, cur, emitted, evicted, faults>>
    BY <1>12 DEF Send
  <2>2. /\ h \in Ids /\ h \in In(mem.pending) /\ h \notin In(mem.delivered)
        /\ mem' \in States /\ mem'.final = mem.final /\ Good(mem')
        /\ In(mem'.delivered) = In(mem.delivered) \cup {h} /\ Known(mem') = Known(mem)
    BY <2>1, DeliveredFacts, Remembered
  <2> HIDE DEF h
  <2>3. /\ told' \in [Ids -> 0 .. MaxFaults + 2] /\ told'[h] > 0 /\ told'[h] <= told[h] + 1
        /\ \A x \in Ids : x # h => told'[x] = told[x]
    BY <1>0, <2>1, <2>2 DEF Shown
  <2>4. TypeOK'
    BY <1>0, <2>1, <2>2, <2>3 DEF TypeOK
  <2>5. QueueIsFresh'
    <3>1. /\ \A x \in In(mem.delivered) \cup In(disk.delivered) : told[x] > 0 /\ x \in Ids
          /\ Good(disk)
      BY <1>0, Parts DEF IInv, QueueIsFresh, Good
    <3>2. \A x \in In(mem.delivered) \cup In(disk.delivered) \cup {h} : told'[x] > 0
      BY <2>3, <3>1
    <3> QED
      BY <2>1, <2>2, <3>1, <3>2 DEF QueueIsFresh, Good
  <2>6. NothingIsLost'
    <3> SUFFICES ASSUME NEW n \in (emitted \cup disk.final) \ evicted, told'[n] = 0
                 PROVE  n \in file \cup In(disk.pending)
      BY <2>1 DEF NothingIsLost
    <3>1. n \in Ids
      BY <1>0 DEF States, Ids, Events
    <3>2. n # h
      BY <2>3
    <3> QED
      BY <2>3, <3>1, <3>2 DEF IInv, NothingIsLost
  <2>7. Ahead'
    BY <1>0, <2>1, <2>2 DEF IInv, Ahead
  <2>8. EachExcused'
    <3> SUFFICES ASSUME NEW n \in Ids \ evicted
                 PROVE  told'[n] <= faults + (IF n \in In(mem'.delivered) THEN 1 ELSE 0)
      BY <2>1 DEF EachExcused
    <3>1. told[n] <= faults + (IF n \in In(mem.delivered) THEN 1 ELSE 0)
      BY DEF IInv, EachExcused
    <3>2. told[n] \in Nat /\ told[h] \in Nat /\ told'[n] \in Nat /\ faults \in Nat
      BY <1>0, <2>2, <2>3
    <3>3. CASE n = h
      BY <2>2, <2>3, <3>1, <3>2, <3>3
    <3>4. CASE n # h
      BY <2>2, <2>3, <3>1, <3>4
    <3> QED
      BY <3>3, <3>4
  <2> QED
    BY <2>4, <2>5, <2>6, <2>7, <2>8 DEF IInv
<1>13. CASE SaveSent
  <2>1. SaveThen(mem, "flush") /\ UNCHANGED <<file, fresh, names, cur, emitted, told>> /\ pc = "save"
    BY <1>13 DEF SaveSent
  <2>2. /\ mem' \in States /\ disk' \in States /\ evicted' \subseteq Ids
        /\ faults' \in faults .. MaxFaults /\ pc' \in {"idle", "flush"}
        /\ QueueIsFresh' /\ NothingIsLost' /\ EachExcused'
        /\ Known(disk') \subseteq Known(mem') \cup evicted'
        /\ In(disk'.delivered) \subseteq In(mem'.delivered) \cup evicted'
        /\ \A u \in {mem', disk'} : u.final \subseteq Known(u) \cup evicted'
    BY <2>1, Remembered, Saving
  <2>3. faults' \in 0 .. MaxFaults /\ cur = {}
    BY <1>0, <2>1, <2>2
  <2>4. TypeOK' /\ Ahead'
    BY <1>0, <2>1, <2>2, <2>3 DEF TypeOK, Ahead
  <2> QED
    BY <2>2, <2>4 DEF IInv
<1>14. CASE SendFails
  <2> DEFINE h == Head(mem.pending)
  <2>1. /\ mem.pending # <<>> /\ told' \in {told, Shown(h)} /\ pc = "flush" /\ pc' = "idle"
        /\ faults < MaxFaults /\ faults' = faults + 1
        /\ UNCHANGED <<file, fresh, mem, disk, names, cur, emitted, evicted>>
    BY <1>14 DEF SendFails
  <2>2. h \in Ids
    BY <2>1, DeliveredFacts, Remembered
  <2> HIDE DEF h
  <2>3. /\ told' \in [Ids -> 0 .. MaxFaults + 2]
        /\ \A x \in Ids : told'[x] >= told[x] /\ told'[x] <= told[x] + 1
    BY <1>0, <2>1, <2>2 DEF Shown
  <2>4. \A x \in Ids : told[x] \in Nat /\ told'[x] \in Nat
    BY <1>0, <2>3
  <2>5. TypeOK'
    <3>1. faults' \in 0 .. MaxFaults
      BY <1>0, <2>1
    <3> QED
      BY <1>0, <2>1, <2>3, <3>1 DEF TypeOK
  <2>6. QueueIsFresh'
    <3>1. \A x \in In(mem.delivered) \cup In(disk.delivered) : told[x] > 0 /\ x \in Ids
      BY <1>0, Parts DEF IInv, QueueIsFresh
    <3>2. \A x \in In(mem.delivered) \cup In(disk.delivered) : told'[x] > 0
      BY <2>3, <2>4, <3>1
    <3> QED
      BY <2>1, <3>2 DEF IInv, QueueIsFresh
  <2>7. NothingIsLost'
    <3> SUFFICES ASSUME NEW n \in (emitted \cup disk.final) \ evicted, told'[n] = 0
                 PROVE  n \in file \cup In(disk.pending)
      BY <2>1 DEF NothingIsLost
    <3>1. n \in Ids
      BY <1>0 DEF States, Ids, Events
    <3>2. told[n] = 0
      BY <2>3, <2>4, <3>1
    <3> QED
      BY <3>2 DEF IInv, NothingIsLost
  <2>8. Ahead'
    BY <1>0, <2>1 DEF IInv, Ahead
  <2>9. EachExcused'
    <3> SUFFICES ASSUME NEW n \in Ids \ evicted
                 PROVE  told'[n] <= faults + 1 + (IF n \in In(mem.delivered) THEN 1 ELSE 0)
      BY <2>1 DEF EachExcused
    <3>1. told[n] <= faults + (IF n \in In(mem.delivered) THEN 1 ELSE 0)
      BY DEF IInv, EachExcused
    <3> QED
      BY <1>0, <2>3, <2>4, <3>1
  <2> QED
    BY <2>5, <2>6, <2>7, <2>8, <2>9 DEF IInv
<1>15. CASE Restart
  <2>1. /\ faults < MaxFaults /\ faults' = faults + 1 /\ mem' = disk /\ pc' = "idle"
        /\ names' = {} /\ cur' = {} /\ UNCHANGED <<file, fresh, disk, emitted, told, evicted>>
    BY <1>15 DEF Restart
  <2>2. TypeOK'
    <3>1. faults' \in 0 .. MaxFaults
      BY <1>0, <2>1
    <3> QED
      BY <1>0, <2>1, <3>1 DEF TypeOK
  <2>3. QueueIsFresh' /\ NothingIsLost' /\ Ahead'
    BY <2>1 DEF IInv, QueueIsFresh, NothingIsLost, Ahead
  <2>4. EachExcused'
    <3> SUFFICES ASSUME NEW n \in Ids \ evicted
                 PROVE  told[n] <= faults + 1 + (IF n \in In(mem'.delivered) THEN 1 ELSE 0)
      BY <2>1 DEF EachExcused
    <3>1. told[n] <= faults + (IF n \in In(mem.delivered) THEN 1 ELSE 0)
      BY DEF IInv, EachExcused
    <3>2. told[n] \in Nat /\ faults \in Nat
      BY <1>0
    <3> QED
      BY <3>1, <3>2
  <2> QED
    BY <2>2, <2>3, <2>4 DEF IInv
<1>16. CASE UNCHANGED vars
  BY <1>16 DEF vars, IInv, TypeOK, QueueIsFresh, NothingIsLost, Ahead, EachExcused
<1> QED
  BY <1>1, <1>2, <1>3, <1>4, <1>5, <1>6, <1>7, <1>8, <1>9, <1>10, <1>11, <1>12, <1>13,
     <1>14, <1>15, <1>16 DEF Next, Controller, Collect

LEMMA Start == Init => IInv
<1> SUFFICES ASSUME Init PROVE IInv
  OBVIOUS
<1>1. mem \in States /\ disk = mem /\ mem.pending = <<>> /\ mem.delivered = <<>> /\ mem.final = {}
  BY EmptySeq DEF Init, States
<1>2. In(mem.pending) = {} /\ In(mem.delivered) = {} /\ Distinct(mem.pending)
  BY <1>1 DEF In, Distinct
<1>3. TypeOK
  BY <1>1, NoticeAssumption DEF Init, TypeOK
<1>4. QueueIsFresh /\ NothingIsLost /\ Ahead
  BY <1>1, <1>2 DEF Init, QueueIsFresh, NothingIsLost, Ahead, Known
<1>5. EachExcused
  BY <1>2 DEF Init, EachExcused
<1> QED
  BY <1>3, <1>4, <1>5 DEF IInv

-----------------------------------------------------------------------------
\* The invariant of the controller's outbox holds in every reachable state.
THEOREM Invariance == Spec => []IInv
  BY Start, Step, PTL DEF Spec

\* Every variable keeps its type (the state file, the queue, the directory).
THEOREM TypeCorrect == Spec => []TypeOK
<1>1. IInv => TypeOK
  BY DEF IInv
<1> QED
  BY <1>1, Invariance, PTL

\* A trade event or an intent's outcome is never lost between file, queue and
\* message (collectEaTradeEvents, flushTradeNotifications), but by a full queue.
THEOREM NothingIsLostHolds == Spec => []NothingIsLost
<1>1. IInv => NothingIsLost
  BY DEF IInv
<1> QED
  BY <1>1, Invariance, PTL

\* The queue holds each id once and none that is delivered: the branch of
\* flushTradeNotifications for a delivered head is dead.
THEOREM QueueIsFreshHolds == Spec => []QueueIsFresh
<1>1. IInv => QueueIsFresh
  BY DEF IInv
<1> QED
  BY <1>1, Invariance, PTL

\* A notice is shown again only behind a fault of its own.
THEOREM RepeatHasACauseHolds == Spec => []RepeatHasACause
<1>1. IInv => RepeatHasACause
  <2> SUFFICES ASSUME IInv, NEW n \in Ids \ evicted PROVE told[n] <= 1 + faults
    BY DEF RepeatHasACause
  <2>1. told[n] <= faults + (IF n \in In(mem.delivered) THEN 1 ELSE 0)
    BY DEF IInv, EachExcused
  <2>2. told[n] \in Nat /\ faults \in Nat
    BY NoticeAssumption DEF IInv, TypeOK
  <2> QED
    BY <2>1, <2>2
<1> QED
  BY <1>1, Invariance, PTL

\* What is saved as delivered is never shown again, unless the cap pushed it out.
THEOREM DeliveredStaysQuietHolds == Spec => DeliveredStaysQuiet
<1> DEFINE A == \A n \in In(disk.delivered) : n \in evicted \/ told'[n] = told[n]
<1>1. IInv /\ [Next]_vars => [A]_vars
  <2> SUFFICES ASSUME IInv, Next, NEW n \in In(disk.delivered), n \notin evicted
               PROVE  told'[n] = told[n]
    OBVIOUS
  <2>1. n \in In(mem.delivered) /\ n \in Ids
    BY Parts DEF IInv, Ahead, TypeOK
  <2>2. ASSUME mem.pending # <<>>
        PROVE  Head(mem.pending) # n /\ Shown(Head(mem.pending))[n] = told[n]
    <3>1. Head(mem.pending) # n
      BY <2>1, <2>2, DeliveredFacts, Remembered
    <3> QED
      BY <2>1, <3>1 DEF Shown, IInv, TypeOK
  <2>3. CASE Send
    BY <2>2, <2>3 DEF Send
  <2>4. CASE SendFails
    BY <2>2, <2>4 DEF SendFails
  <2>5. CASE ~Send /\ ~SendFails
    BY <2>5 DEF Next, Controller, Collect, StartPass, CollectDelivered, CollectLater,
       CollectEvent, Unlink, EndCollect, EndFlush, SaveSent, ReportIntent, Emit,
       HeartbeatStale, HeartbeatFresh, Restart
  <2> QED
    BY <2>3, <2>4, <2>5
<1> QED
  BY <1>1, Invariance, PTL DEF Spec, DeliveredStaysQuiet

-----------------------------------------------------------------------------
(* The half reversals that are told: EntryNetting, whose EA reports what    *)
(* the controller's flush above then shows.  Charts, tasks, books and       *)
(* settings are any; the invariant follows what a task has touched from the *)
(* broker's answer to the task's result.                                    *)

ENShape ==
    /\ job \in [Charts -> Tasks \cup {EN!NoTask}] /\ at \in [Charts -> EN!Stages]
    /\ deed \in [Charts -> Nat] /\ DOMAIN req = Charts
    /\ result \in [Tasks -> EN!Results]

\* A chart in a task, and the request it waits for.
ENBusy ==
    \A c \in Charts :
        /\ at[c] = "idle" <=> job[c] = EN!NoTask
        /\ at[c] = "idle" => req[c] = EN!NoReq
        /\ req[c] = EN!NoReq \/ req[c].kind \in {"close", "remove", "roll", "entry"}
        /\ at[c] \in {"idle", "roll", "tick"} => deed[c] = 0
        /\ req[c].kind = "roll" => at[c] = "roll"
        /\ at[c] = "roll" => req[c] = EN!NoReq \/ req[c].kind = "roll"
        /\ at[c] = "tick" => req[c] = EN!NoReq
        /\ at[c] = "closing" => TaskOf[job[c]].kind = "close"

\* A task is in one chart, and has no result yet.
ENAlone ==
    \A c \in Charts : job[c] # EN!NoTask =>
        /\ result[job[c]] = "none"
        /\ \A d \in Charts : job[d] = job[c] => d = c

\* The task closed or removed something, or the broker may yet do so.
Touched(t) == t \in acted \/ \E r \in resting : r.task = t /\ r.req.kind = "close"

\* What a task has touched is counted while it runs, and told when it has ended.
ENCounted ==
    /\ \A r \in resting : r.req.kind \in {"close", "entry"}
    /\ \A c \in Charts :
          job[c] # EN!NoTask /\ TaskOf[job[c]].kind # "close" /\ Touched(job[c]) => deed[c] > 0
    /\ \A t \in Tasks :
          TaskOf[t].kind # "close" /\ Touched(t) /\ (\A c \in Charts : job[c] # t) =>
              /\ result[t] # "none"
              /\ result[t] = "prepared" \/ t \in opened \cup reported \cup unsure

ENSound == ENShape /\ ENBusy /\ ENAlone /\ ENCounted

LEMMA ENInit == EN!Init => ENSound
<1>1. EN!NoReq.kind = "none"
  BY DEF EN!NoReq
<1> QED BY <1>1 DEF EN!Init, ENSound, ENShape, ENBusy, ENAlone, ENCounted, Touched,
   EN!Stages, EN!Results

LEMMA ENStep == EN!NettingConstants /\ ENSound /\ [EN!Next]_EN!vars => ENSound'
<1> SUFFICES ASSUME EN!NettingConstants, ENSound, [EN!Next]_EN!vars PROVE ENSound'
  OBVIOUS
<1>a. /\ EN!NoTask \notin Tasks /\ \A t \in Tasks : TaskOf[t].kind \in EN!Kinds
      /\ ENShape /\ ENBusy /\ ENAlone /\ ENCounted
  BY DEF EN!NettingConstants, ENSound
<1>b. EN!NoReq.kind = "none"
  BY DEF EN!NoReq
<1> USE <1>a, <1>b DEF EN!Stages, EN!Results, EN!vars, EN!broker, EN!charts, EN!ghosts, EN!Fault
<1>1. ASSUME NEW c \in Charts, NEW t \in Tasks, EN!Take(c, t) PROVE ENSound'
  <2>1. ENShape'
    BY <1>1 DEF EN!Take, EN!Kinds, ENShape, ENBusy
  <2>2. ENBusy'
    BY <1>1 DEF EN!Take, EN!Kinds, ENShape, ENBusy
  <2>3. ENAlone'
    BY <1>1 DEF EN!Take, EN!Kinds, ENShape, ENBusy, ENAlone
  <2>4. ENCounted'
    BY <1>1 DEF EN!Take, EN!Kinds, ENShape, ENBusy, ENAlone, ENCounted, Touched
  <2> QED BY <2>1, <2>2, <2>3, <2>4 DEF ENSound
<1>2. ASSUME NEW c \in Charts, NEW t \in Tasks, EN!Unready(c, t) PROVE ENSound'
  <2>1. ENShape'
    BY <1>2 DEF EN!Unready, ENShape, ENBusy
  <2>2. ENBusy'
    BY <1>2 DEF EN!Unready, ENShape, ENBusy
  <2>3. ENAlone'
    BY <1>2 DEF EN!Unready, ENShape, ENBusy, ENAlone
  <2>4. ENCounted'
    BY <1>2 DEF EN!Unready, ENShape, ENBusy, ENAlone, ENCounted, Touched
  <2> QED BY <2>1, <2>2, <2>3, <2>4 DEF ENSound
<1>3. ASSUME NEW c \in Charts, EN!Roll(c) PROVE ENSound'
  <2>1. ENShape'
    BY <1>3 DEF EN!Roll, EN!Runs, EN!TurnsTo, EN!Sends, EN!Ends, EN!Asked, ENShape, ENBusy
  <2>2. ENBusy'
    BY <1>3 DEF EN!Roll, EN!Runs, EN!TurnsTo, EN!Sends, EN!Ends, EN!Asked, ENShape, ENBusy
  <2>3. ENAlone'
    BY <1>3 DEF EN!Roll, EN!Runs, EN!TurnsTo, EN!Sends, EN!Ends, EN!Asked, ENShape, ENBusy,
       ENAlone
  <2>4. ENCounted'
    BY <1>3 DEF EN!Roll, EN!Runs, EN!TurnsTo, EN!Sends, EN!Ends, EN!Asked, ENShape, ENBusy,
       ENAlone, ENCounted, Touched
  <2> QED BY <2>1, <2>2, <2>3, <2>4 DEF ENSound
<1>4. ASSUME NEW c \in Charts, EN!Preflight(c) PROVE ENSound'
  <2>1. ENShape'
    BY <1>4 DEF EN!Preflight, EN!Runs, EN!TurnsTo, EN!Ends, EN!Asked, EN!NoTick, ENShape,
       ENBusy
  <2>2. ENBusy'
    BY <1>4 DEF EN!Preflight, EN!Runs, EN!TurnsTo, EN!Ends, EN!Asked, EN!NoTick, ENShape,
       ENBusy
  <2>3. ENAlone'
    BY <1>4 DEF EN!Preflight, EN!Runs, EN!TurnsTo, EN!Ends, EN!Asked, EN!NoTick, ENShape,
       ENBusy, ENAlone
  <2>4. ENCounted'
    BY <1>4 DEF EN!Preflight, EN!Runs, EN!TurnsTo, EN!Ends, EN!Asked, EN!NoTick, ENShape,
       ENBusy, ENAlone, ENCounted, Touched
  <2> QED BY <2>1, <2>2, <2>3, <2>4 DEF ENSound
<1>5. ASSUME NEW c \in Charts, EN!Net(c) PROVE ENSound'
  <2>1. ENShape'
    BY <1>5 DEF EN!Net, EN!Runs, EN!TurnsTo, EN!Sends, EN!Asked, ENShape, ENBusy
  <2>2. ENBusy'
    BY <1>5 DEF EN!Net, EN!Runs, EN!TurnsTo, EN!Sends, EN!Asked, ENShape, ENBusy
  <2>3. ENAlone'
    BY <1>5 DEF EN!Net, EN!Runs, EN!TurnsTo, EN!Sends, EN!Asked, ENShape, ENBusy, ENAlone
  <2>4. ENCounted'
    BY <1>5 DEF EN!Net, EN!Runs, EN!TurnsTo, EN!Sends, EN!Asked, ENShape, ENBusy, ENAlone,
       ENCounted, Touched
  <2> QED BY <2>1, <2>2, <2>3, <2>4 DEF ENSound
<1>6. ASSUME NEW c \in Charts, EN!NetOrders(c) PROVE ENSound'
  <2>1. ENShape'
    BY <1>6 DEF EN!NetOrders, EN!Runs, EN!TurnsTo, EN!Sends, EN!Asked, ENShape, ENBusy
  <2>2. ENBusy'
    BY <1>6 DEF EN!NetOrders, EN!Runs, EN!TurnsTo, EN!Sends, EN!Asked, ENShape, ENBusy
  <2>3. ENAlone'
    BY <1>6 DEF EN!NetOrders, EN!Runs, EN!TurnsTo, EN!Sends, EN!Asked, ENShape, ENBusy,
       ENAlone
  <2>4. ENCounted'
    BY <1>6 DEF EN!NetOrders, EN!Runs, EN!TurnsTo, EN!Sends, EN!Asked, ENShape, ENBusy,
       ENAlone, ENCounted, Touched
  <2> QED BY <2>1, <2>2, <2>3, <2>4 DEF ENSound
<1>7. ASSUME NEW c \in Charts, EN!Wait(c) PROVE ENSound'
  <2>1. ENShape'
    BY <1>7 DEF EN!Wait, EN!Runs, EN!Fails, EN!Asked, EN!AfterSettling, EN!Ends, EN!TurnsTo,
       ENShape, ENBusy
  <2>2. ENBusy'
    BY <1>7 DEF EN!Wait, EN!Runs, EN!Fails, EN!Asked, EN!AfterSettling, EN!Ends, EN!TurnsTo,
       ENShape, ENBusy
  <2>3. ENAlone'
    BY <1>7 DEF EN!Wait, EN!Runs, EN!Fails, EN!Asked, EN!AfterSettling, EN!Ends, EN!TurnsTo,
       ENShape, ENBusy, ENAlone
  <2>4. ENCounted'
    BY <1>7 DEF EN!Wait, EN!Runs, EN!Fails, EN!Asked, EN!AfterSettling, EN!Ends, EN!TurnsTo,
       ENShape, ENBusy, ENAlone, ENCounted, Touched
  <2> QED BY <2>1, <2>2, <2>3, <2>4 DEF ENSound
<1>8. ASSUME NEW c \in Charts, EN!Price(c) PROVE ENSound'
  <2>1. ENShape'
    BY <1>8 DEF EN!Price, EN!Runs, EN!Sends, EN!Ends, EN!Fails, EN!Asked, EN!NoTick,
       ENShape, ENBusy
  <2>2. ENBusy'
    BY <1>8 DEF EN!Price, EN!Runs, EN!Sends, EN!Ends, EN!Fails, EN!Asked, EN!NoTick,
       ENShape, ENBusy
  <2>3. ENAlone'
    BY <1>8 DEF EN!Price, EN!Runs, EN!Sends, EN!Ends, EN!Fails, EN!Asked, EN!NoTick,
       ENShape, ENBusy, ENAlone
  <2>4. ENCounted'
    BY <1>8 DEF EN!Price, EN!Runs, EN!Sends, EN!Ends, EN!Fails, EN!Asked, EN!NoTick,
       ENShape, ENBusy, ENAlone, ENCounted, Touched
  <2> QED BY <2>1, <2>2, <2>3, <2>4 DEF ENSound
<1>9. ASSUME NEW c \in Charts, EN!Close(c) PROVE ENSound'
  <2>1. ENShape'
    BY <1>9 DEF EN!Close, EN!Runs, EN!Sends, EN!Ends, EN!Asked, ENShape, ENBusy
  <2>2. ENBusy'
    BY <1>9 DEF EN!Close, EN!Runs, EN!Sends, EN!Ends, EN!Asked, ENShape, ENBusy
  <2>3. ENAlone'
    BY <1>9 DEF EN!Close, EN!Runs, EN!Sends, EN!Ends, EN!Asked, ENShape, ENBusy, ENAlone
  <2>4. ENCounted'
    BY <1>9 DEF EN!Close, EN!Runs, EN!Sends, EN!Ends, EN!Asked, ENShape, ENBusy, ENAlone,
       ENCounted, Touched
  <2> QED BY <2>1, <2>2, <2>3, <2>4 DEF ENSound
<1>10. ASSUME NEW c \in Charts, EN!Done(c) PROVE ENSound'
  <2>0. /\ acted' = IF req[c].kind \in {"close", "remove"} THEN acted \cup {job[c]} ELSE acted
        /\ opened' = IF req[c].kind = "entry" THEN opened \cup {job[c]} ELSE opened
    <3>1. req[c].kind \in {"close", "remove", "roll", "entry"} /\ EN!Executes(job[c], req[c], FALSE)
      BY <1>10 DEF EN!Done, ENBusy, ENCounted
    <3> QED BY <3>1 DEF EN!Executes
  <2>1. ENShape'
    BY <1>10, <2>0 DEF EN!Done, EN!Confirmed, EN!Ends, EN!IsEntry, EN!Asked, EN!Kinds,
       ENShape, ENBusy
  <2>2. ENBusy'
    BY <1>10, <2>0 DEF EN!Done, EN!Confirmed, EN!Ends, EN!IsEntry, EN!Asked, EN!Kinds,
       ENShape, ENBusy
  <2>3. ENAlone'
    BY <1>10, <2>0 DEF EN!Done, EN!Confirmed, EN!Ends, EN!IsEntry, EN!Asked, EN!Kinds,
       ENShape, ENBusy, ENAlone
  <2>4. ENCounted'
    BY <1>10, <2>0 DEF EN!Done, EN!Confirmed, EN!Ends, EN!IsEntry, EN!Asked, EN!Kinds,
       ENShape, ENBusy, ENAlone, ENCounted, Touched
  <2> QED BY <2>1, <2>2, <2>3, <2>4 DEF ENSound
<1>11. ASSUME NEW c \in Charts, EN!DoneInPart(c) PROVE ENSound'
  <2>0. /\ acted' = IF req[c].kind \in {"close", "remove"} THEN acted \cup {job[c]} ELSE acted
        /\ opened' = IF req[c].kind = "entry" THEN opened \cup {job[c]} ELSE opened
    <3>1. req[c].kind \in {"close", "remove", "roll", "entry"} /\ EN!Executes(job[c], req[c], TRUE)
      BY <1>11 DEF EN!DoneInPart, ENBusy, ENCounted
    <3> QED BY <3>1 DEF EN!Executes
  <2>1. ENShape'
    BY <1>11, <2>0 DEF EN!DoneInPart, EN!Confirmed, EN!Ends, EN!IsEntry, EN!Asked, EN!Kinds,
       ENShape, ENBusy
  <2>2. ENBusy'
    BY <1>11, <2>0 DEF EN!DoneInPart, EN!Confirmed, EN!Ends, EN!IsEntry, EN!Asked, EN!Kinds,
       ENShape, ENBusy
  <2>3. ENAlone'
    BY <1>11, <2>0 DEF EN!DoneInPart, EN!Confirmed, EN!Ends, EN!IsEntry, EN!Asked, EN!Kinds,
       ENShape, ENBusy, ENAlone
  <2>4. ENCounted'
    BY <1>11, <2>0 DEF EN!DoneInPart, EN!Confirmed, EN!Ends, EN!IsEntry, EN!Asked, EN!Kinds,
       ENShape, ENBusy, ENAlone, ENCounted, Touched
  <2> QED BY <2>1, <2>2, <2>3, <2>4 DEF ENSound
<1>12. ASSUME NEW c \in Charts, EN!Placed(c) PROVE ENSound'
  <2>1. ENShape'
    BY <1>12 DEF EN!Placed, EN!Confirmed, EN!Ends, EN!IsEntry, EN!Asked, EN!Kinds, ENShape,
       ENBusy
  <2>2. ENBusy'
    BY <1>12 DEF EN!Placed, EN!Confirmed, EN!Ends, EN!IsEntry, EN!Asked, EN!Kinds, ENShape,
       ENBusy
  <2>3. ENAlone'
    BY <1>12 DEF EN!Placed, EN!Confirmed, EN!Ends, EN!IsEntry, EN!Asked, EN!Kinds, ENShape,
       ENBusy, ENAlone
  <2>4. ENCounted'
    BY <1>12 DEF EN!Placed, EN!Confirmed, EN!Ends, EN!IsEntry, EN!Asked, EN!Kinds, ENShape,
       ENBusy, ENAlone, ENCounted, Touched
  <2> QED BY <2>1, <2>2, <2>3, <2>4 DEF ENSound
<1>13. ASSUME NEW c \in Charts, EN!Refused(c) PROVE ENSound'
  <2>1. ENShape'
    BY <1>13 DEF EN!Refused, EN!Denied, EN!Fails, EN!IsEntry, EN!Ends, EN!Asked, EN!Kinds,
       ENShape, ENBusy
  <2>2. ENBusy'
    BY <1>13 DEF EN!Refused, EN!Denied, EN!Fails, EN!IsEntry, EN!Ends, EN!Asked, EN!Kinds,
       ENShape, ENBusy
  <2>3. ENAlone'
    BY <1>13 DEF EN!Refused, EN!Denied, EN!Fails, EN!IsEntry, EN!Ends, EN!Asked, EN!Kinds,
       ENShape, ENBusy, ENAlone
  <2>4. ENCounted'
    BY <1>13 DEF EN!Refused, EN!Denied, EN!Fails, EN!IsEntry, EN!Ends, EN!Asked, EN!Kinds,
       ENShape, ENBusy, ENAlone, ENCounted, Touched
  <2> QED BY <2>1, <2>2, <2>3, <2>4 DEF ENSound
<1>14. ASSUME NEW c \in Charts, EN!Lost(c) PROVE ENSound'
  <2>0. /\ acted' = IF req[c].kind \in {"close", "remove"} THEN acted \cup {job[c]} ELSE acted
        /\ opened' = IF req[c].kind = "entry" THEN opened \cup {job[c]} ELSE opened
    <3>1. req[c].kind \in {"close", "remove", "roll", "entry"} /\ EN!Executes(job[c], req[c], FALSE)
      BY <1>14 DEF EN!Lost, ENBusy, ENCounted
    <3> QED BY <3>1 DEF EN!Executes
  <2>1. ENShape'
    BY <1>14, <2>0 DEF EN!Lost, EN!Denied, EN!Fails, EN!IsEntry, EN!Ends, EN!Asked,
       EN!Kinds, ENShape, ENBusy
  <2>2. ENBusy'
    BY <1>14, <2>0 DEF EN!Lost, EN!Denied, EN!Fails, EN!IsEntry, EN!Ends, EN!Asked,
       EN!Kinds, ENShape, ENBusy
  <2>3. ENAlone'
    BY <1>14, <2>0 DEF EN!Lost, EN!Denied, EN!Fails, EN!IsEntry, EN!Ends, EN!Asked,
       EN!Kinds, ENShape, ENBusy, ENAlone
  <2>4. ENCounted'
    BY <1>14, <2>0 DEF EN!Lost, EN!Denied, EN!Fails, EN!IsEntry, EN!Ends, EN!Asked,
       EN!Kinds, ENShape, ENBusy, ENAlone, ENCounted, Touched
  <2> QED BY <2>1, <2>2, <2>3, <2>4 DEF ENSound
<1>15. ASSUME NEW r \in resting, EN!Fill(r) PROVE ENSound'
  <2>0. /\ acted' = IF r.req.kind \in {"close", "remove"} THEN acted \cup {r.task} ELSE acted
        /\ opened' = IF r.req.kind = "entry" THEN opened \cup {r.task} ELSE opened
    <3>1. r.req.kind \in {"close", "remove", "roll", "entry"} /\ EN!Executes(r.task, r.req, FALSE)
      BY <1>15 DEF EN!Fill, ENBusy, ENCounted
    <3> QED BY <3>1 DEF EN!Executes
  <2>1. ENShape'
    BY <1>15, <2>0 DEF EN!Fill, ENShape, ENBusy
  <2>2. ENBusy'
    BY <1>15, <2>0 DEF EN!Fill, ENShape, ENBusy
  <2>3. ENAlone'
    BY <1>15, <2>0 DEF EN!Fill, ENShape, ENBusy, ENAlone
  <2>4. ENCounted'
    BY <1>15, <2>0 DEF EN!Fill, ENShape, ENBusy, ENAlone, ENCounted, Touched
  <2> QED BY <2>1, <2>2, <2>3, <2>4 DEF ENSound
<1>16. ASSUME NEW r \in resting, EN!Drop(r) PROVE ENSound'
  <2>1. ENShape'
    BY <1>16 DEF EN!Drop, ENShape, ENBusy
  <2>2. ENBusy'
    BY <1>16 DEF EN!Drop, ENShape, ENBusy
  <2>3. ENAlone'
    BY <1>16 DEF EN!Drop, ENShape, ENBusy, ENAlone
  <2>4. ENCounted'
    BY <1>16 DEF EN!Drop, ENShape, ENBusy, ENAlone, ENCounted, Touched
  <2> QED BY <2>1, <2>2, <2>3, <2>4 DEF ENSound
<1>17. ASSUME NEW t \in DOMAIN pos, EN!Lists(t) PROVE ENSound'
  <2>1. ENShape'
    BY <1>17 DEF EN!Lists, ENShape, ENBusy
  <2>2. ENBusy'
    BY <1>17 DEF EN!Lists, ENShape, ENBusy
  <2>3. ENAlone'
    BY <1>17 DEF EN!Lists, ENShape, ENBusy, ENAlone
  <2>4. ENCounted'
    BY <1>17 DEF EN!Lists, ENShape, ENBusy, ENAlone, ENCounted, Touched
  <2> QED BY <2>1, <2>2, <2>3, <2>4 DEF ENSound
<1>18. ASSUME NEW t \in DOMAIN pos, EN!Stopped(t) PROVE ENSound'
  <2>1. ENShape'
    BY <1>18 DEF EN!Stopped, ENShape, ENBusy
  <2>2. ENBusy'
    BY <1>18 DEF EN!Stopped, ENShape, ENBusy
  <2>3. ENAlone'
    BY <1>18 DEF EN!Stopped, ENShape, ENBusy, ENAlone
  <2>4. ENCounted'
    BY <1>18 DEF EN!Stopped, ENShape, ENBusy, ENAlone, ENCounted, Touched
  <2> QED BY <2>1, <2>2, <2>3, <2>4 DEF ENSound
<1>19. ASSUME NEW buy, NEW lots, NEW rest, EN!Arrives(buy, lots, rest) PROVE ENSound'
  <2>1. ENShape'
    BY <1>19 DEF EN!Arrives, ENShape, ENBusy
  <2>2. ENBusy'
    BY <1>19 DEF EN!Arrives, ENShape, ENBusy
  <2>3. ENAlone'
    BY <1>19 DEF EN!Arrives, ENShape, ENBusy, ENAlone
  <2>4. ENCounted'
    BY <1>19 DEF EN!Arrives, ENShape, ENBusy, ENAlone, ENCounted, Touched
  <2> QED BY <2>1, <2>2, <2>3, <2>4 DEF ENSound
<1>20. CASE UNCHANGED EN!vars
  <2>1. ENShape'
    BY <1>20 DEF ENShape, ENBusy
  <2>2. ENBusy'
    BY <1>20 DEF ENShape, ENBusy
  <2>3. ENAlone'
    BY <1>20 DEF ENShape, ENBusy, ENAlone
  <2>4. ENCounted'
    BY <1>20 DEF ENShape, ENBusy, ENAlone, ENCounted, Touched
  <2> QED BY <2>1, <2>2, <2>3, <2>4 DEF ENSound
<1> QED
  BY <1>1, <1>2, <1>3, <1>4, <1>5, <1>6, <1>7, <1>8, <1>9, <1>10, <1>11, <1>12, <1>13,
     <1>14, <1>15, <1>16, <1>17, <1>18, <1>19, <1>20 DEF EN!Next, EN!Chart, EN!Answer,
     EN!Market

\* Half of a reversal is told, whatever the broker answers, loses or fills late.
THEOREM HalfReversalIsToldHolds == EN!Spec => []HalfReversalIsTold
<1>1. ENSound => HalfReversalIsTold
  BY NettingIsRight DEF HalfReversalIsTold, EN!NettingConstants, ENSound, ENAlone, ENBusy,
     ENShape, ENCounted, Touched, EN!HalfReversalIsTold
<1>2. ENSound /\ [EN!Next]_EN!vars => ENSound'
  BY ENStep, NettingIsRight
<1> QED
  BY <1>1, <1>2, ENInit, PTL DEF EN!Spec

-----------------------------------------------------------------------------
(* Sums over the tickets: induction over the numbers, from the order on     *)
(* them being well founded.                                                 *)

\* What some number has, a least one has.
LEMMA LeastNatural ==
    ASSUME NEW T, T \subseteq Nat, T # {}
    PROVE  \E n \in T : \A m \in T : n <= m
<1> DEFINE R == OpToRel(<, Nat)
<1>1. IsWellFoundedOn(R, Nat)
  BY NatLessThanWellFounded
<1>2. \E x \in T : \A y \in T : ~ (<<y, x>> \in R)
  <2> HIDE DEF R
  <2> QED BY <1>1, WFMin
<1>3. \A x, y \in Nat : <<x, y>> \in R <=> x < y
  BY DEF OpToRel
<1> HIDE DEF R
<1>4. PICK n \in T : \A m \in T : ~ (<<m, n>> \in R)
  BY <1>2
<1>5. ASSUME NEW m \in T PROVE n <= m
  <2>1. m \in Nat /\ n \in Nat
    OBVIOUS
  <2>2. <<m, n>> \notin R
    BY <1>4
  <2>3. ~ (m < n)
    BY <2>1, <2>2, <1>3
  <2> QED BY <2>1, <2>3
<1> QED BY <1>4, <1>5

\* A set that has 0 and, with a number, the next one has them all.
LEMMA AllNaturals ==
    ASSUME NEW S, 0 \in S, \A n \in Nat : n \in S => n + 1 \in S
    PROVE  Nat \subseteq S
<1> SUFFICES ASSUME Nat \ S # {} PROVE FALSE
  OBVIOUS
<1>1. PICK n \in Nat \ S : \A m \in Nat \ S : n <= m
  BY LeastNatural
<1>2. n # 0 /\ n - 1 \in Nat
  OBVIOUS
<1>3. n - 1 \in S
  BY <1>1, <1>2
<1>4. (n - 1) + 1 = n
  OBVIOUS
<1> QED BY <1>2, <1>3, <1>4, <1>1

Part(book, S, n) == IF n \in S THEN book[n].lots ELSE 0

\* The sum is what its equation says.
LEMMA LotsEquation ==
    ASSUME MaxTicket \in Nat, NEW book, NEW S, \A n \in S : book[n].lots \in Nat
    PROVE  \E sum \in [0..MaxTicket -> Nat] :
             /\ EN!LotsIn(book, S) = sum[MaxTicket]
             /\ sum[0] = 0
             /\ \A n \in 1..MaxTicket : sum[n] = sum[n - 1] + Part(book, S, n)
<1> DEFINE Eq(f, n) == /\ f[0] = 0
                       /\ \A k \in 1..n : f[k] = f[k - 1] + Part(book, S, k)
           Good2 == {n \in Nat : \E f \in [0..n -> Nat] : Eq(f, n)}
<1>0. \A k \in Nat : Part(book, S, k) \in Nat
  BY DEF Part
<1>1. 0 \in Good2
  <2>1. [k \in 0..0 |-> 0] \in [0..0 -> Nat] /\ Eq([k \in 0..0 |-> 0], 0)
    OBVIOUS
  <2> QED BY <2>1
<1>2. ASSUME NEW n \in Nat, n \in Good2 PROVE n + 1 \in Good2
  <2>1. PICK f \in [0..n -> Nat] : Eq(f, n)
    BY <1>2
  <2> DEFINE g == [k \in 0..(n + 1) |-> IF k = n + 1 THEN f[n] + Part(book, S, n + 1) ELSE f[k]]
  <2>2. g \in [0..(n + 1) -> Nat]
    <3>1. ASSUME NEW k \in 0..(n + 1)
          PROVE  (IF k = n + 1 THEN f[n] + Part(book, S, n + 1) ELSE f[k]) \in Nat
      <4>1. n \in 0..n /\ n + 1 \in Nat
        OBVIOUS
      <4>2. Part(book, S, n + 1) \in Nat
        BY <1>0, <4>1
      <4>3. k # n + 1 => k \in 0..n
        OBVIOUS
      <4> HIDE DEF Eq
      <4> QED BY <4>1, <4>2, <4>3
    <3> HIDE DEF Eq
    <3> QED BY <3>1
  <2>3. g[0] = 0
    BY <2>1
  <2>4. ASSUME NEW k \in 1..(n + 1) PROVE g[k] = g[k - 1] + Part(book, S, k)
    <3>1. CASE k = n + 1
      <4>1. n \in 0..(n + 1) /\ n # n + 1 /\ n + 1 \in 0..(n + 1) /\ k - 1 = n
        BY <3>1
      <4> QED BY <3>1, <4>1
    <3>2. CASE k # n + 1
      <4>1. k \in 1..n /\ k \in 0..(n + 1) /\ k - 1 \in 0..(n + 1) /\ k - 1 # n + 1
        BY <3>2
      <4>2. g[k] = f[k] /\ g[k - 1] = f[k - 1]
        BY <3>2, <4>1
      <4> QED BY <2>1, <4>1, <4>2
    <3> QED BY <3>1, <3>2
  <2>5. Eq(g, n + 1)
    BY <2>3, <2>4
  <2>6. n + 1 \in Nat
    OBVIOUS
  <2> HIDE DEF g, Eq
  <2> QED BY <2>2, <2>5, <2>6
<1>3. PICK f \in [0..MaxTicket -> Nat] : Eq(f, MaxTicket)
  <2> HIDE DEF Good2
  <2>1. MaxTicket \in Good2
    BY <1>1, <1>2, AllNaturals
  <2> QED BY <2>1 DEF Good2
<1> DEFINE Rec(f1) == [n \in 0..MaxTicket |->
                       IF n = 0 THEN 0 ELSE f1[n - 1] + IF n \in S THEN book[n].lots ELSE 0]
           sum == CHOOSE f1 : f1 = Rec(f1)
<1>4. f = Rec(f)
  BY <1>3 DEF Part
<1>5. sum = Rec(sum)
  <2> HIDE DEF Rec
  <2> QED BY <1>4
<1>6. EN!LotsIn(book, S) = sum[MaxTicket]
  BY DEF EN!LotsIn
<1>7. sum[0] = 0 /\ \A n \in 1..MaxTicket : sum[n] = sum[n - 1] + Part(book, S, n)
  <2> HIDE DEF sum
  <2> QED BY <1>5 DEF Part
<1>8. sum \in [0..MaxTicket -> Nat]
  <2> HIDE DEF sum
  <2> DEFINE N == {n \in Nat : n <= MaxTicket => sum[n] \in Nat}
  <2>1. 0 \in N
    BY <1>7
  <2>2. ASSUME NEW n \in Nat, n \in N PROVE n + 1 \in N
    <3>1. CASE n + 1 <= MaxTicket
      <4>1. n + 1 \in 1..MaxTicket /\ (n + 1) - 1 = n /\ n <= MaxTicket
        BY <3>1
      <4>2. sum[n + 1] = sum[n] + Part(book, S, n + 1)
        BY <4>1, <1>7
      <4>5. n + 1 \in Nat
        OBVIOUS
      <4>6. Part(book, S, n + 1) \in Nat
        BY <4>5, <1>0
      <4>7. sum[n] \in Nat
        BY <4>1, <2>2
      <4>3. sum[n] \in Nat /\ Part(book, S, n + 1) \in Nat
        BY <4>6, <4>7
      <4>4. sum[n + 1] \in Nat
        BY <4>2, <4>3
      <4> HIDE DEF sum
      <4> QED BY <4>4
    <3> QED BY <3>1
  <2>3. Nat \subseteq N
    <3> HIDE DEF N
    <3> QED BY <2>1, <2>2, AllNaturals
  <2>4. \A n \in 0..MaxTicket : sum[n] \in Nat
    BY <2>3
  <2> QED BY <1>5, <2>4
<1> HIDE DEF sum
<1> QED BY <1>6, <1>7, <1>8

\* A sum of fewer and smaller parts is not greater.
LEMMA LotsLess ==
    ASSUME MaxTicket \in Nat, NEW book, NEW S, \A n \in S : book[n].lots \in Nat,
           NEW less, NEW T, \A n \in T : n \in S /\ less[n].lots \in Nat /\ less[n].lots <= book[n].lots
    PROVE  /\ EN!LotsIn(book, S) \in Nat /\ EN!LotsIn(less, T) \in Nat
           /\ EN!LotsIn(less, T) <= EN!LotsIn(book, S)
<1>1. PICK f \in [0..MaxTicket -> Nat] :
             /\ EN!LotsIn(book, S) = f[MaxTicket] /\ f[0] = 0
             /\ \A n \in 1..MaxTicket : f[n] = f[n - 1] + Part(book, S, n)
  BY LotsEquation
<1>2. PICK g \in [0..MaxTicket -> Nat] :
             /\ EN!LotsIn(less, T) = g[MaxTicket] /\ g[0] = 0
             /\ \A n \in 1..MaxTicket : g[n] = g[n - 1] + Part(less, T, n)
  BY LotsEquation
<1>3. \A n \in Nat : /\ Part(less, T, n) \in Nat /\ Part(book, S, n) \in Nat
                     /\ Part(less, T, n) <= Part(book, S, n)
  BY DEF Part
<1> DEFINE N == {n \in Nat : n <= MaxTicket => g[n] <= f[n]}
<1>4. 0 \in N
  BY <1>1, <1>2
<1>5. ASSUME NEW n \in Nat, n \in N PROVE n + 1 \in N
  <2>1. CASE n + 1 <= MaxTicket
    <3>1. n + 1 \in 1..MaxTicket /\ (n + 1) - 1 = n /\ n \in 0..MaxTicket
      BY <2>1
    <3>2. f[n + 1] = f[n] + Part(book, S, n + 1) /\ g[n + 1] = g[n] + Part(less, T, n + 1)
      BY <3>1, <1>1, <1>2
    <3>3. f[n] \in Nat /\ g[n] \in Nat /\ g[n] <= f[n]
      BY <3>1, <1>5
    <3> QED BY SMTT(60), <3>2, <3>3, <1>3
  <2> QED BY <2>1
<1>6. MaxTicket \in N
  <2> HIDE DEF N
  <2> QED BY <1>4, <1>5, AllNaturals
<1> QED BY <1>1, <1>2, <1>6

-----------------------------------------------------------------------------
(* The entry that stands alone: what the book shows the wait, less what goes *)
(* and nothing of what comes, is what the entry finds.                       *)

\* The larger of two numbers, and the smaller.
LEMMA OfTwo ==
    ASSUME NEW a \in Nat, NEW b \in Nat
    PROVE  EN!Max({a, b}) \in Nat /\ EN!Min({a, b}) \in Nat
<1>1. \E x \in {a, b} : \A y \in {a, b} : x >= y
  OBVIOUS
<1>2. \E x \in {a, b} : \A y \in {a, b} : x <= y
  OBVIOUS
<1> QED BY <1>1, <1>2 DEF EN!Max, EN!Min

LEMMA VolumeIsNumber ==
    ASSUME EN!NettingConstants, NEW half \in Nat PROVE EN!Volume(half) \in Nat
<1>1. (half + 1) \div 2 \in Nat /\ MinVol \in Nat /\ MaxVol \in Nat
  BY DEF EN!NettingConstants
<1> QED BY <1>1, OfTwo DEF EN!Volume

\* Some number of tickets is the highest.
LEMMA HighestTicket ==
    ASSUME MaxTicket \in Nat, NEW T, T \subseteq 1..MaxTicket
    PROVE  /\ EN!Max(T \cup {0}) \in 0..MaxTicket
           /\ \A n \in T : n <= EN!Max(T \cup {0})
<1> DEFINE Down == {m \in 0..MaxTicket : MaxTicket - m \in T \cup {0}}
<1>1. Down \subseteq Nat /\ MaxTicket \in Down
  OBVIOUS
<1>2. PICK m \in Down : \A k \in Down : m <= k
  BY <1>1, LeastNatural
<1>3. \A n \in T \cup {0} : n \in 0..MaxTicket /\ MaxTicket - n \in Down
  <2> TAKE n \in T \cup {0}
  <2>1. n \in 0..MaxTicket
    OBVIOUS
  <2>2. MaxTicket - n \in 0..MaxTicket /\ MaxTicket - (MaxTicket - n) = n
    BY <2>1
  <2> QED BY <2>1, <2>2
<1>4. MaxTicket - m \in T \cup {0} /\ \A n \in T \cup {0} : MaxTicket - m >= n
  BY <1>2, <1>3
<1>5. EN!Max(T \cup {0}) \in T \cup {0} /\ \A n \in T \cup {0} : EN!Max(T \cup {0}) >= n
  BY <1>4 DEF EN!Max
<1>6. \A n \in T \cup {0} : n \in 0..MaxTicket
  OBVIOUS
<1> HIDE DEF Down
<1> QED BY <1>5, <1>6

\* A book with less on it: fewer tickets, none larger, none turned or reopened.
Within(less, book) ==
    /\ DOMAIN less \subseteq DOMAIN book /\ less \in [DOMAIN less -> EN!Position]
    /\ \A n \in DOMAIN less : /\ less[n].buy = book[n].buy /\ less[n].lots <= book[n].lots
                              /\ less[n].open => book[n].open

LEMMA BookShrinks ==
    ASSUME NEW book, book \in [DOMAIN book -> EN!Position], NEW n \in DOMAIN book
    PROVE  /\ Within(EN!Kept([book EXCEPT ![n].open = FALSE]), book)
           /\ Within(EN!Kept([book EXCEPT ![n].listed = book[n].open]), book)
           /\ book[n].lots > 1 => Within([book EXCEPT ![n].lots = @ - 1], book)
<1>1. ASSUME NEW less \in [DOMAIN book -> EN!Position], Within(less, book)
      PROVE  Within(EN!Kept(less), book)
  <2>1. /\ DOMAIN EN!Kept(less) \subseteq DOMAIN less
        /\ \A m \in DOMAIN EN!Kept(less) : EN!Kept(less)[m] = less[m]
        /\ EN!Kept(less) = [m \in DOMAIN EN!Kept(less) |-> EN!Kept(less)[m]]
    BY DEF EN!Kept
  <2> QED BY <1>1, <2>1 DEF Within
<1>2. [book EXCEPT ![n].open = FALSE] \in [DOMAIN book -> EN!Position]
  BY DEF EN!Position
<1>3. [book EXCEPT ![n].listed = book[n].open] \in [DOMAIN book -> EN!Position]
  BY DEF EN!Position
<1>4. ASSUME book[n].lots > 1 PROVE [book EXCEPT ![n].lots = @ - 1] \in [DOMAIN book -> EN!Position]
  BY <1>4 DEF EN!Position
<1>5. Within([book EXCEPT ![n].open = FALSE], book)
  BY <1>2 DEF Within, EN!Position
<1>6. Within([book EXCEPT ![n].listed = book[n].open], book)
  BY <1>3 DEF Within, EN!Position
<1>7. book[n].lots > 1 => Within([book EXCEPT ![n].lots = @ - 1], book)
  BY <1>4 DEF Within, EN!Position
<1> QED BY <1>1, <1>2, <1>3, <1>5, <1>6, <1>7

Standing(book) == {n \in DOMAIN book : book[n].open}

ESBook ==
    /\ inp \in Inputs /\ last \in 0..MaxTicket
    /\ DOMAIN pos \subseteq 1..last /\ pos \in [DOMAIN pos -> EN!Position]
    /\ orders \subseteq [buy : BOOLEAN, lots : Nat]

\* An entry on its way asks for what its task asks; one the broker has put aside
\* is of a task that has ended.
ESAsked ==
    /\ \A c \in Charts : req[c].kind = "entry" =>
          /\ at[c] = "price" /\ TaskOf[job[c]].kind = "entry"
          /\ req[c].lots = EN!Volume(TaskOf[job[c]].half)
          /\ req[c].buy \in BOOLEAN
    /\ \A r \in resting : r.req.kind = "entry" =>
          /\ r.task \in Tasks /\ result[r.task] # "none"
          /\ r.req.lots \in Nat /\ r.req.buy \in BOOLEAN

\* What a task past its checks may meet, unless something came after them.
Clear(t) ==
    /\ \A n \in Standing(pos) : pos[n].buy = TaskOf[t].buy /\ ~inp.skip
    /\ ~EN!TooMuch(EN!LotsIn(pos, Standing(pos)), EN!Volume(TaskOf[t].half))

ESClear == \A c \in Charts : at[c] = "price" /\ job[c] \notin late => Clear(job[c])

ESSound == ESBook /\ ESAsked /\ ESClear

LEMMA ESInit == EN!NettingConstants /\ EN!Init => ESSound
<1> SUFFICES ASSUME EN!NettingConstants, EN!Init PROVE ESSound
  OBVIOUS
<1>1. PICK b \in Books :
          /\ pos = [t \in DOMAIN b |-> [buy |-> b[t].buy, lots |-> b[t].lots,
                                        open |-> TRUE, listed |-> TRUE]]
          /\ last = EN!Max(DOMAIN b \cup {0})
  BY DEF EN!Init
<1>2. MaxTicket \in Nat /\ DOMAIN b \subseteq 1..MaxTicket /\ b \in [DOMAIN b -> [buy : BOOLEAN, lots : Nat \ {0}]]
  BY DEF EN!NettingConstants
<1>3. last \in 0..MaxTicket /\ \A n \in DOMAIN b : n <= last
  BY <1>1, <1>2, HighestTicket
<1>4. DOMAIN pos = DOMAIN b /\ pos \in [DOMAIN pos -> EN!Position]
  BY <1>1, <1>2 DEF EN!Position
<1>5. DOMAIN pos \subseteq 1..last
  BY <1>2, <1>3, <1>4
<1>6. inp \in Inputs /\ orders \subseteq [buy : BOOLEAN, lots : Nat]
  BY DEF EN!Init, EN!NettingConstants
<1>7. EN!NoReq.kind = "none"
  BY DEF EN!NoReq
<1>8. ESBook
  BY <1>3, <1>4, <1>5, <1>6 DEF ESBook
<1>9. ESAsked /\ ESClear
  BY <1>7 DEF EN!Init, ESAsked, ESClear
<1> QED BY <1>8, <1>9 DEF ESSound

LEMMA ESStep == EN!NettingConstants /\ ENSound /\ ESSound /\ [EN!Next]_EN!vars => ESSound'
<1> SUFFICES ASSUME EN!NettingConstants, ENSound, ESSound, [EN!Next]_EN!vars PROVE ESSound'
  OBVIOUS
<1>a. /\ EN!NoTask \notin Tasks /\ MaxTicket \in Nat /\ EN!NoReq.kind = "none"
      /\ \A t \in Tasks : TaskOf[t].half \in Nat /\ TaskOf[t].buy \in BOOLEAN /\ TaskOf[t].kind \in EN!Kinds
      /\ \A i \in Inputs : i.cap \in Nat
      /\ \A n \in Nat : EN!Volume(n) \in Nat
  BY VolumeIsNumber DEF EN!NettingConstants, EN!NoReq
<1>b. ENShape /\ ENBusy /\ ENAlone /\ ENCounted /\ ESBook /\ ESAsked /\ ESClear
  BY DEF ENSound, ESSound
<1> DEFINE Onward == \A d \in Charts : at'[d] = "price" => at[d] = "price" /\ job'[d] = job[d]
           Same   == pos' = pos /\ last' = last
           Less   == Within(pos', pos) /\ last' = last
           More(buy, lots, by) == EN!Opens(buy, lots) /\ buy \in BOOLEAN /\ lots \in Nat
                                  /\ late' = late \cup (EN!Comers \ by)
                                  /\ \A d \in Charts : at'[d] = "price" => job[d] \notin by
           Keeps  == inp' = inp /\ orders' \subseteq orders
<1>c. ASSUME Less PROVE DOMAIN pos' \subseteq 1..last' /\ pos' \in [DOMAIN pos' -> EN!Position]
  BY <1>b, <1>c DEF ESBook, Within
<1>d. ASSUME NEW buy, NEW lots, NEW by, More(buy, lots, by)
      PROVE  /\ DOMAIN pos' \subseteq 1..last' /\ last' \in 0..MaxTicket
             /\ pos' \in [DOMAIN pos' -> EN!Position]
  <2>1. /\ last' = last + 1 /\ last < MaxTicket /\ last \in 0..MaxTicket
        /\ pos' = [t \in DOMAIN pos \cup {last + 1} |->
                     IF t \in DOMAIN pos THEN pos[t]
                     ELSE [buy |-> buy, lots |-> lots, open |-> TRUE, listed |-> FALSE]]
    BY <1>b, <1>d DEF ESBook, EN!Opens
  <2>2. DOMAIN pos' = DOMAIN pos \cup {last + 1} /\ DOMAIN pos \subseteq 1..last
    BY <1>b, <2>1 DEF ESBook
  <2>3. DOMAIN pos' \subseteq 1..last' /\ last' \in 0..MaxTicket
    <3>1. last + 1 \in 1..(last + 1) /\ 1..last \subseteq 1..(last + 1) /\ last + 1 \in 0..MaxTicket
      BY <1>a, <2>1
    <3> QED BY <2>1, <2>2, <3>1
  <2>4. [buy |-> buy, lots |-> lots, open |-> TRUE, listed |-> FALSE] \in EN!Position
    BY <1>d DEF EN!Position
  <2>5. \A t \in DOMAIN pos : pos[t] \in EN!Position
    BY <1>b DEF ESBook
  <2>6. pos' \in [DOMAIN pos' -> EN!Position]
    BY <2>1, <2>2, <2>4, <2>5
  <2> QED BY <2>3, <2>6
<1>e. ASSUME Keeps, Same \/ Less \/ \E buy, lots, by : More(buy, lots, by) PROVE ESBook'
  <2>1. inp' \in Inputs /\ orders' \subseteq [buy : BOOLEAN, lots : Nat]
    BY <1>b, <1>e DEF ESBook
  <2>2. CASE Same
    BY <1>b, <2>1, <2>2 DEF ESBook
  <2>3. CASE Less
    BY <1>b, <1>c, <2>1, <2>3 DEF ESBook
  <2>4. ASSUME NEW buy, NEW lots, NEW by, More(buy, lots, by) PROVE ESBook'
    <3> HIDE DEF More
    <3> QED BY <1>d, <2>1, <2>4 DEF ESBook
  <2> QED BY <1>e, <2>2, <2>3, <2>4
<1>f. ASSUME Less, NEW t \in Tasks, inp' = inp, Clear(t) PROVE Clear(t)'
  <2>1. /\ \A n \in Standing(pos) : pos[n].lots \in Nat
        /\ \A n \in Standing(pos') : /\ n \in Standing(pos) /\ pos'[n].lots \in Nat
                                     /\ pos'[n].lots <= pos[n].lots /\ pos'[n].buy = pos[n].buy
    BY <1>b, <1>f DEF ESBook, Within, Standing, EN!Position
  <2>2. /\ EN!LotsIn(pos, Standing(pos)) \in Nat /\ EN!LotsIn(pos', Standing(pos')) \in Nat
        /\ EN!LotsIn(pos', Standing(pos')) <= EN!LotsIn(pos, Standing(pos))
    BY <1>a, <2>1, LotsLess
  <2>3. inp.cap \in Nat /\ EN!Volume(TaskOf[t].half) \in Nat
    BY <1>a, <1>b DEF ESBook
  <2>4. ~EN!TooMuch(EN!LotsIn(pos, Standing(pos)), EN!Volume(TaskOf[t].half))
    BY <1>f DEF Clear
  <2>5. ~EN!TooMuch(EN!LotsIn(pos, Standing(pos)), EN!Volume(TaskOf[t].half))'
    BY <1>f, <2>2, <2>3, <2>4 DEF EN!TooMuch
  <2>6. \A n \in Standing(pos') : pos'[n].buy = TaskOf[t].buy /\ ~inp'.skip
    BY <1>f, <2>1 DEF Clear
  <2> QED BY <2>5, <2>6 DEF Clear
<1>g. ASSUME Keeps, Onward, late \subseteq late', Same \/ Less \/ \E buy, lots, by : More(buy, lots, by)
      PROVE  ESClear'
  <2> SUFFICES ASSUME NEW d \in Charts, (at[d] = "price")', (job[d] \notin late)' PROVE Clear(job[d])'
    BY DEF ESClear
  <2>1. at[d] = "price" /\ job'[d] = job[d] /\ job[d] \notin late /\ job[d] \in Tasks
    BY <1>b, <1>g DEF ENBusy, ENShape
  <2>2. Clear(job[d])
    BY <1>b, <2>1 DEF ESClear
  <2>3. CASE Same
    BY <1>g, <2>1, <2>2, <2>3 DEF Clear, EN!TooMuch
  <2>4. CASE Less
    BY <1>f, <1>g, <2>1, <2>2, <2>4
  <2>5. ASSUME NEW buy, NEW lots, NEW by, More(buy, lots, by) PROVE FALSE
    BY <2>1, <2>5 DEF EN!Comers
  <2> QED BY <1>g, <2>3, <2>4, <2>5
\* A request is executed, by a task that is past its entry if it is one.
<1>h. ASSUME NEW by, NEW r, NEW less \in BOOLEAN, EN!Executes(by, r, less), inp' = inp,
             r.kind \in {"close", "remove", "roll", "entry"},
             r.kind = "entry" => /\ r.buy \in BOOLEAN /\ r.lots \in Nat
                                 /\ \A d \in Charts : at'[d] = "price" => job[d] # by
      PROVE  Keeps /\ late \subseteq late' /\ (Same \/ Less \/ \E buy, lots, w : More(buy, lots, w))
  <2>1. CASE r.kind = "close"
    <3>1. r.ticket \in DOMAIN pos /\ UNCHANGED <<last, orders, late>>
      BY <1>h, <2>1 DEF EN!Executes
    <3>2. /\ Within(EN!Without(r.ticket), pos)
          /\ pos[r.ticket].lots > 1 => Within([pos EXCEPT ![r.ticket].lots = @ - 1], pos)
      BY <1>b, <3>1, BookShrinks DEF ESBook, EN!Without
    <3>3. Less
      BY <1>h, <2>1, <3>1, <3>2 DEF EN!Executes
    <3> QED BY <1>h, <3>1, <3>3
  <2>2. CASE r.kind \in {"remove", "roll"}
    BY <1>h, <2>2 DEF EN!Executes
  <2>3. CASE r.kind = "entry"
    <3> DEFINE lots == IF less THEN r.lots - 1 ELSE r.lots
    <3>1. lots \in Nat /\ EN!Opens(r.buy, lots) /\ late' = late \cup (EN!Comers \ {by}) /\ orders' = orders
      BY <1>h, <2>3 DEF EN!Executes
    <3> HIDE DEF lots
    <3>2. More(r.buy, lots, {by})
      BY <1>h, <2>3, <3>1
    <3> QED BY <1>h, <3>1, <3>2
  <2> QED BY <1>h, <2>1, <2>2, <2>3
<1> USE DEF EN!vars, EN!broker, EN!charts, EN!ghosts, EN!Fault, EN!NoTick
<1> HIDE DEF Less, More
<1>1. ASSUME NEW c \in Charts, NEW t \in Tasks, EN!Take(c, t) PROVE ESSound'
  <2>1. Keeps /\ Onward /\ late' = late /\ Same
    BY <1>1, <1>a, <1>b DEF EN!Take, EN!Kinds, ENShape, ENBusy
  <2>2. ESAsked'
    BY <1>1, <1>a, <1>b DEF EN!Take, EN!Kinds, ENShape, ENBusy, ESAsked
  <2> QED BY <1>e, <1>g, <2>1, <2>2 DEF ESSound
<1>2. ASSUME NEW c \in Charts, NEW t \in Tasks, EN!Unready(c, t) PROVE ESSound'
  <2>1. Keeps /\ Onward /\ late' = late /\ Same
    BY <1>2, <1>a, <1>b DEF EN!Unready, ENShape, ENBusy
  <2>2. ESAsked'
    BY <1>2, <1>a, <1>b DEF EN!Unready, ENShape, ENBusy, ESAsked
  <2> QED BY <1>e, <1>g, <2>1, <2>2 DEF ESSound
<1>3. ASSUME NEW c \in Charts, EN!Roll(c) PROVE ESSound'
  <2>1. Keeps /\ Onward /\ late' = late /\ Same
    BY <1>3, <1>a, <1>b DEF EN!Roll, EN!Runs, EN!TurnsTo, EN!Sends, EN!Ends, ENShape, ENBusy
  <2>2. ESAsked'
    BY <1>3, <1>a, <1>b DEF EN!Roll, EN!Runs, EN!TurnsTo, EN!Sends, EN!Ends, ENShape, ENBusy,
       ESAsked
  <2> QED BY <1>e, <1>g, <2>1, <2>2 DEF ESSound
<1>4. ASSUME NEW c \in Charts, EN!Preflight(c) PROVE ESSound'
  <2>1. Keeps /\ Onward /\ late' = late /\ Same
    BY <1>4, <1>a, <1>b DEF EN!Preflight, EN!Runs, EN!TurnsTo, EN!Ends, ENShape, ENBusy
  <2>2. ESAsked'
    BY <1>4, <1>a, <1>b DEF EN!Preflight, EN!Runs, EN!TurnsTo, EN!Ends, ENShape, ENBusy,
       ESAsked
  <2> QED BY <1>e, <1>g, <2>1, <2>2 DEF ESSound
<1>5. ASSUME NEW c \in Charts, EN!Net(c) PROVE ESSound'
  <2>1. Keeps /\ Onward /\ late' = late /\ Same
    BY <1>5, <1>a, <1>b DEF EN!Net, EN!Runs, EN!TurnsTo, EN!Sends, ENShape, ENBusy
  <2>2. ESAsked'
    BY <1>5, <1>a, <1>b DEF EN!Net, EN!Runs, EN!TurnsTo, EN!Sends, ENShape, ENBusy, ESAsked
  <2> QED BY <1>e, <1>g, <2>1, <2>2 DEF ESSound
<1>6. ASSUME NEW c \in Charts, EN!NetOrders(c) PROVE ESSound'
  <2>1. Keeps /\ Onward /\ late' = late /\ Same
    BY <1>6, <1>a, <1>b DEF EN!NetOrders, EN!Runs, EN!TurnsTo, EN!Sends, ENShape, ENBusy
  <2>2. ESAsked'
    BY <1>6, <1>a, <1>b DEF EN!NetOrders, EN!Runs, EN!TurnsTo, EN!Sends, ENShape, ENBusy,
       ESAsked
  <2> QED BY <1>e, <1>g, <2>1, <2>2 DEF ESSound
<1>7. ASSUME NEW c \in Charts, EN!Wait(c) PROVE ESSound'
  <2> DEFINE buy == EN!Asked(c).buy
  <2>1. Keeps /\ Same /\ late \subseteq late'
    BY <1>7 DEF EN!Wait
  <2>2. ESAsked'
    BY <1>7, <1>a, <1>b DEF EN!Wait, EN!Runs, EN!AfterSettling, EN!TurnsTo, EN!Fails, EN!Ends,
       ENShape, ENBusy, ESAsked
  <2>3. CASE at'[c] = "price"
    <3>1. /\ ~(inp.skip /\ EN!Side(buy) # {}) /\ EN!Side(~buy) = {}
          /\ ~EN!TooMuch(EN!LotsOf(EN!Listed), EN!Volume(EN!Asked(c).half))
          /\ EN!TurnsTo(c, "price", {})
      BY <1>7, <2>3, <1>b DEF EN!Wait, EN!AfterSettling, EN!TurnsTo, EN!Fails, EN!Ends,
         ENShape
    <3>2. /\ \A d \in Charts \ {c} : at'[d] = at[d] /\ job'[d] = job[d]
          /\ job' = job /\ job[c] \in Tasks
      BY <1>7, <3>1, <1>b DEF EN!Wait, EN!Runs, EN!TurnsTo, ENShape, ENBusy
    <3>3. ASSUME job[c] \notin late' PROVE Clear(job[c])
      <4>1. EN!Listed = DOMAIN pos
        BY <1>7, <3>3 DEF EN!Wait
      <4>2. \A n \in Standing(pos) : n \in EN!Listed /\ pos[n].buy \in BOOLEAN
        BY <1>b, <4>1 DEF ESBook, Standing, EN!Position
      <4>3. \A n \in Standing(pos) : pos[n].buy = buy /\ ~inp.skip
        <5>1. buy \in BOOLEAN
          BY <1>a, <3>2 DEF EN!Asked
        <5>2. \A n \in EN!Listed : pos[n].buy # (~buy) /\ (pos[n].buy = buy => ~inp.skip)
          BY <3>1 DEF EN!Side
        <5> HIDE DEF buy
        <5> QED BY <4>2, <5>1, <5>2
      <4>4. /\ \A n \in EN!Listed : pos[n].lots \in Nat
            /\ \A n \in Standing(pos) : n \in EN!Listed /\ pos[n].lots \in Nat /\ pos[n].lots <= pos[n].lots
        BY <1>b, <4>1 DEF ESBook, Standing, EN!Position
      <4>5. /\ EN!LotsIn(pos, EN!Listed) \in Nat /\ EN!LotsIn(pos, Standing(pos)) \in Nat
            /\ EN!LotsIn(pos, Standing(pos)) <= EN!LotsIn(pos, EN!Listed)
        BY <1>a, <4>4, LotsLess
      <4>6. inp.cap \in Nat /\ EN!Volume(TaskOf[job[c]].half) \in Nat
        BY <1>a, <1>b, <3>2 DEF ESBook
      <4>7. ~EN!TooMuch(EN!LotsIn(pos, Standing(pos)), EN!Volume(TaskOf[job[c]].half))
        BY <3>1, <4>5, <4>6 DEF EN!TooMuch, EN!LotsOf, EN!Asked
      <4> QED BY <4>3, <4>7 DEF Clear, EN!Asked
    <3>4. ASSUME NEW d \in Charts, (at[d] = "price")', (job[d] \notin late)' PROVE Clear(job[d])
      BY <1>b, <2>1, <3>2, <3>3, <3>4 DEF ESClear
    <3>5. \A t : Clear(t) => Clear(t)'
      BY <2>1 DEF Clear, EN!TooMuch
    <3>6. ESClear'
      BY <3>2, <3>4, <3>5 DEF ESClear
    <3> QED BY <1>e, <2>1, <2>2, <3>6 DEF ESSound
  <2>4. CASE at'[c] # "price"
    <3>1. Onward
      BY <1>7, <2>4, <1>b DEF EN!Wait, EN!AfterSettling, EN!TurnsTo, EN!Fails, EN!Ends,
         ENShape
    <3> QED BY <1>e, <1>g, <2>1, <2>2, <3>1 DEF ESSound
  <2> QED BY <2>3, <2>4
<1>8. ASSUME NEW c \in Charts, EN!Price(c) PROVE ESSound'
  <2>1. Keeps /\ Onward /\ late' = late /\ Same
    BY <1>8, <1>a, <1>b DEF EN!Price, EN!Runs, EN!Sends, EN!Asked, EN!Fails, EN!Ends,
       ENShape, ENBusy
  <2>2. ESAsked'
    BY <1>8, <1>a, <1>b DEF EN!Price, EN!Runs, EN!Sends, EN!Asked, EN!Fails, EN!Ends,
       ENShape, ENBusy, ESAsked
  <2> QED BY <1>e, <1>g, <2>1, <2>2 DEF ESSound
<1>9. ASSUME NEW c \in Charts, EN!Close(c) PROVE ESSound'
  <2>1. Keeps /\ Onward /\ late' = late /\ Same
    BY <1>9, <1>a, <1>b DEF EN!Close, EN!Runs, EN!Sends, EN!Ends, ENShape, ENBusy
  <2>2. ESAsked'
    BY <1>9, <1>a, <1>b DEF EN!Close, EN!Runs, EN!Sends, EN!Ends, ENShape, ENBusy, ESAsked
  <2> QED BY <1>e, <1>g, <2>1, <2>2 DEF ESSound
<1>10. ASSUME NEW c \in Charts, EN!Done(c) PROVE ESSound'
  <2>1. /\ EN!Executes(job[c], req[c], FALSE) /\ inp' = inp /\ resting' = resting
        /\ req[c].kind \in {"close", "remove", "roll", "entry"}
    BY <1>10, <1>b DEF EN!Done, ENBusy
  <2>2. /\ \A d \in Charts \ {c} : at'[d] = at[d] /\ job'[d] = job[d] /\ req'[d] = req[d]
        /\ req'[c] = EN!NoReq
        /\ \/ at'[c] = at[c] /\ job'[c] = job[c] /\ req[c].kind # "entry" /\ result' = result
           \/ at'[c] = "idle" /\ \E how : how # "none" /\ result' = [result EXCEPT ![job[c]] = how]
    <3>1. EN!Confirmed(c) /\ (req[c].kind = "entry" => at[c] = "price") /\ at[c] # "idle"
      BY <1>10, <1>a, <1>b, <2>1 DEF EN!Done, ESAsked, ENBusy
    <3>2. /\ \A d \in Charts \ {c} : at'[d] = at[d] /\ job'[d] = job[d] /\ req'[d] = req[d]
          /\ req'[c] = EN!NoReq
      BY <3>1, <1>b DEF EN!Confirmed, EN!Ends, ENShape
    <3>3. \/ at'[c] = at[c] /\ job'[c] = job[c] /\ req[c].kind # "entry" /\ result' = result
          \/ at'[c] = "idle" /\ \E how : how # "none" /\ result' = [result EXCEPT ![job[c]] = how]
      BY <3>1, <1>a, <1>b DEF EN!Confirmed, EN!Ends, ENShape, ENBusy
    <3> QED BY <3>2, <3>3
  <2>3. Onward
    BY <2>2
  <2>4. req[c].kind = "entry" => /\ req[c].buy \in BOOLEAN /\ req[c].lots \in Nat
                                 /\ \A d \in Charts : at'[d] = "price" => job[d] # job[c]
    BY <1>a, <1>b, <2>2 DEF ESAsked, ENAlone, ENShape, ENBusy
  <2>5. Keeps /\ late \subseteq late' /\ (Same \/ Less \/ \E buy, lots, w : More(buy, lots, w))
    BY <1>h, <2>1, <2>4
  <2>6. ESAsked'
    BY <1>a, <1>b, <2>1, <2>2 DEF ESAsked, ENShape
  <2> QED BY <1>e, <1>g, <2>3, <2>5, <2>6 DEF ESSound
<1>11. ASSUME NEW c \in Charts, EN!DoneInPart(c) PROVE ESSound'
  <2>1. /\ EN!Executes(job[c], req[c], TRUE) /\ inp' = inp /\ resting' = resting
        /\ req[c].kind \in {"close", "remove", "roll", "entry"}
    BY <1>11, <1>b DEF EN!DoneInPart, ENBusy
  <2>2. /\ \A d \in Charts \ {c} : at'[d] = at[d] /\ job'[d] = job[d] /\ req'[d] = req[d]
        /\ req'[c] = EN!NoReq
        /\ \/ at'[c] = at[c] /\ job'[c] = job[c] /\ req[c].kind # "entry" /\ result' = result
           \/ at'[c] = "idle" /\ \E how : how # "none" /\ result' = [result EXCEPT ![job[c]] = how]
    <3>1. EN!Confirmed(c) /\ (req[c].kind = "entry" => at[c] = "price") /\ at[c] # "idle"
      BY <1>11, <1>a, <1>b, <2>1 DEF EN!DoneInPart, ESAsked, ENBusy
    <3>2. /\ \A d \in Charts \ {c} : at'[d] = at[d] /\ job'[d] = job[d] /\ req'[d] = req[d]
          /\ req'[c] = EN!NoReq
      BY <3>1, <1>b DEF EN!Confirmed, EN!Ends, ENShape
    <3>3. \/ at'[c] = at[c] /\ job'[c] = job[c] /\ req[c].kind # "entry" /\ result' = result
          \/ at'[c] = "idle" /\ \E how : how # "none" /\ result' = [result EXCEPT ![job[c]] = how]
      BY <3>1, <1>a, <1>b DEF EN!Confirmed, EN!Ends, ENShape, ENBusy
    <3> QED BY <3>2, <3>3
  <2>3. Onward
    BY <2>2
  <2>4. req[c].kind = "entry" => /\ req[c].buy \in BOOLEAN /\ req[c].lots \in Nat
                                 /\ \A d \in Charts : at'[d] = "price" => job[d] # job[c]
    BY <1>a, <1>b, <2>2 DEF ESAsked, ENAlone, ENShape, ENBusy
  <2>5. Keeps /\ late \subseteq late' /\ (Same \/ Less \/ \E buy, lots, w : More(buy, lots, w))
    BY <1>h, <2>1, <2>4
  <2>6. ESAsked'
    BY <1>a, <1>b, <2>1, <2>2 DEF ESAsked, ENShape
  <2> QED BY <1>e, <1>g, <2>3, <2>5, <2>6 DEF ESSound
<1>12. ASSUME NEW c \in Charts, EN!Placed(c) PROVE ESSound'
  <2>1. Keeps /\ Onward /\ late' = late /\ Same
    BY <1>12, <1>b DEF EN!Placed, EN!Confirmed, EN!Ends, ENShape
  <2>2. req[c].kind = "entry" => /\ req[c].buy \in BOOLEAN /\ req[c].lots \in Nat /\ job[c] \in Tasks
                                 /\ result'[job[c]] # "none"
    BY <1>12, <1>a, <1>b DEF EN!Placed, EN!Confirmed, EN!Ends, ESAsked, ENShape, ENBusy
  <2>3. /\ \A d \in Charts \ {c} : at'[d] = at[d] /\ job'[d] = job[d] /\ req'[d] = req[d]
        /\ req'[c] = EN!NoReq
        /\ \A t \in Tasks : result[t] # "none" => result'[t] # "none"
    BY <1>12, <1>b DEF EN!Placed, EN!Confirmed, EN!Ends, ENShape
  <2>4. \A r \in resting' : r \in resting \/ (r.task = job[c] /\ r.req = req[c])
    <3>1. resting' = resting \cup {[task |-> job[c], req |-> req[c]]}
      BY <1>12 DEF EN!Placed
    <3> QED BY <3>1
  <2>5. ESAsked'
    BY <1>a, <1>b, <2>2, <2>3, <2>4 DEF ESAsked
  <2> QED BY <1>e, <1>g, <2>1, <2>5 DEF ESSound
<1>13. ASSUME NEW c \in Charts, EN!Refused(c) PROVE ESSound'
  <2>1. Keeps /\ Onward /\ late' = late /\ Same
    BY <1>13, <1>a, <1>b DEF EN!Refused, EN!Denied, EN!Fails, EN!Ends, ENShape, ENBusy
  <2>2. ESAsked'
    BY <1>13, <1>a, <1>b DEF EN!Refused, EN!Denied, EN!Fails, EN!Ends, ENShape, ENBusy,
       ESAsked
  <2> QED BY <1>e, <1>g, <2>1, <2>2 DEF ESSound
<1>14. ASSUME NEW c \in Charts, EN!Lost(c) PROVE ESSound'
  <2>1. /\ EN!Executes(job[c], req[c], FALSE) /\ inp' = inp /\ resting' = resting
        /\ req[c].kind \in {"close", "remove", "roll", "entry"}
    BY <1>14, <1>b DEF EN!Lost, ENBusy
  <2>2. /\ \A d \in Charts \ {c} : at'[d] = at[d] /\ job'[d] = job[d] /\ req'[d] = req[d]
        /\ req'[c] = EN!NoReq
        /\ \/ at'[c] = at[c] /\ job'[c] = job[c] /\ req[c].kind # "entry" /\ result' = result
           \/ at'[c] = "idle" /\ \E how : how # "none" /\ result' = [result EXCEPT ![job[c]] = how]
    <3>1. EN!Denied(c) /\ (req[c].kind = "entry" => at[c] = "price") /\ at[c] # "idle"
      BY <1>14, <1>a, <1>b, <2>1 DEF EN!Lost, ESAsked, ENBusy
    <3>2. /\ \A d \in Charts \ {c} : at'[d] = at[d] /\ job'[d] = job[d] /\ req'[d] = req[d]
          /\ req'[c] = EN!NoReq
      BY <3>1, <1>b DEF EN!Denied, EN!Fails, EN!Ends, ENShape
    <3>3. \/ at'[c] = at[c] /\ job'[c] = job[c] /\ req[c].kind # "entry" /\ result' = result
          \/ at'[c] = "idle" /\ \E how : how # "none" /\ result' = [result EXCEPT ![job[c]] = how]
      <4>1. CASE EN!IsEntry(c)
        BY <3>1, <1>b, <4>1 DEF EN!Denied, EN!Fails, EN!Ends, ENShape
      <4>2. CASE ~EN!IsEntry(c)
        <5>1. req[c].kind # "entry"
          BY <1>b, <4>2 DEF EN!IsEntry, EN!Asked, ESAsked
        <5> QED BY <3>1, <4>2, <5>1 DEF EN!Denied
      <4> QED BY <4>1, <4>2
    <3> QED BY <3>2, <3>3
  <2>3. Onward
    BY <2>2
  <2>4. req[c].kind = "entry" => /\ req[c].buy \in BOOLEAN /\ req[c].lots \in Nat
                                 /\ \A d \in Charts : at'[d] = "price" => job[d] # job[c]
    BY <1>a, <1>b, <2>2 DEF ESAsked, ENAlone, ENShape, ENBusy
  <2>5. Keeps /\ late \subseteq late' /\ (Same \/ Less \/ \E buy, lots, w : More(buy, lots, w))
    BY <1>h, <2>1, <2>4
  <2>6. ESAsked'
    BY <1>a, <1>b, <2>1, <2>2 DEF ESAsked, ENShape
  <2> QED BY <1>e, <1>g, <2>3, <2>5, <2>6 DEF ESSound
<1>15. ASSUME NEW r \in resting, EN!Fill(r) PROVE ESSound'
  <2>1. EN!Executes(r.task, r.req, FALSE) /\ Onward /\ UNCHANGED <<inp, at, job, req, result>>
    BY <1>15 DEF EN!Fill
  <2>2. r.req.kind \in {"close", "entry"}
    BY <1>15, <1>b DEF ENCounted
  <2>3. r.req.kind = "entry" => /\ r.req.buy \in BOOLEAN /\ r.req.lots \in Nat
                                /\ \A d \in Charts : at'[d] = "price" => job[d] # r.task
    BY <1>15, <1>a, <1>b, <2>1 DEF ESAsked, ENAlone, ENBusy
  <2>4. Keeps /\ late \subseteq late' /\ (Same \/ Less \/ \E buy, lots, w : More(buy, lots, w))
    BY <1>h, <2>1, <2>2, <2>3
  <2>5. ESAsked'
    BY <1>15, <1>b, <2>1 DEF EN!Fill, ESAsked
  <2> QED BY <1>e, <1>g, <2>1, <2>4, <2>5 DEF ESSound
<1>16. ASSUME NEW r \in resting, EN!Drop(r) PROVE ESSound'
  <2>1. Keeps /\ Onward /\ late' = late /\ Same
    BY <1>16, <1>a, <1>b DEF EN!Drop, ENShape, ENBusy
  <2>2. ESAsked'
    BY <1>16, <1>a, <1>b DEF EN!Drop, ENShape, ENBusy, ESAsked
  <2> QED BY <1>e, <1>g, <2>1, <2>2 DEF ESSound
<1>17. ASSUME NEW t \in DOMAIN pos, EN!Lists(t) PROVE ESSound'
  <2>1. Keeps /\ Onward /\ late' = late /\ ESAsked'
    BY <1>17, <1>b DEF EN!Lists, ESAsked
  <2>2. Less
    BY <1>17, <1>b, BookShrinks DEF EN!Lists, Less, ESBook
  <2> QED BY <1>e, <1>g, <2>1, <2>2 DEF ESSound
<1>18. ASSUME NEW t \in DOMAIN pos, EN!Stopped(t) PROVE ESSound'
  <2>1. Keeps /\ Onward /\ late' = late /\ ESAsked'
    BY <1>18, <1>b DEF EN!Stopped, ESAsked
  <2>2. Less
    BY <1>18, <1>b, BookShrinks DEF EN!Stopped, EN!Without, Less, ESBook
  <2> QED BY <1>e, <1>g, <2>1, <2>2 DEF ESSound
<1>19. ASSUME NEW buy \in BOOLEAN, NEW lots \in Nat, NEW rest \in SUBSET orders, EN!Arrives(buy, lots, rest) PROVE ESSound'
  <2>1. Keeps /\ Onward /\ late \subseteq late' /\ ESAsked'
    BY <1>19, <1>b DEF EN!Arrives, ESAsked
  <2>2. More(buy, lots, {})
    BY <1>19 DEF EN!Arrives, More
  <2> QED BY <1>e, <1>g, <2>1, <2>2 DEF ESSound
<1>20. CASE UNCHANGED EN!vars
  <2>1. Keeps /\ Onward /\ late' = late /\ Same /\ ESAsked'
    BY <1>20, <1>b DEF ESAsked
  <2> QED BY <1>e, <1>g, <2>1 DEF ESSound
<1>21. ASSUME EN!Market PROVE ESSound'
  <2>1. \A o \in orders : o.buy \in BOOLEAN /\ o.lots \in Nat /\ orders \ {o} \in SUBSET orders
    BY <1>b DEF ESBook
  <2>2. MinVol \in Nat /\ orders \in SUBSET orders
    BY DEF EN!NettingConstants
  <2> QED BY <1>21, <2>1, <2>2, <1>15, <1>16, <1>17, <1>18, <1>19 DEF EN!Market
<1> QED
  BY <1>1, <1>2, <1>3, <1>4, <1>5, <1>6, <1>7, <1>8, <1>9, <1>10, <1>11, <1>12, <1>13,
     <1>14, <1>20, <1>21 DEF EN!Next, EN!Chart, EN!Answer

\* An entry meets neither the other side nor, if so set, its own, and stays within the
\* cap, whatever was closed in part, missed or dropped on the way to it.
THEOREM EntryStandsAloneHolds == EN!Spec => EntryStandsAlone
<1> USE NettingIsRight
<1> DEFINE Inv == ENSound /\ ESSound
           Alone == \A t \in opened' \ opened :
                      (resting' = resting /\ t \notin late) =>
                          LET there == {p \in DOMAIN pos : pos[p].open} IN
                          /\ \A p \in there : pos[p].buy = TaskOf[t].buy /\ ~inp.skip
                          /\ ~EN!TooMuch(EN!LotsOf(there), pos'[last'].lots)
<1>1. EN!Init => Inv
  BY ENInit, ESInit
<1>2. Inv /\ [EN!Next]_EN!vars => Inv'
  BY ENStep, ESStep
<1>3. Inv /\ Inv' /\ [EN!Next]_EN!vars => [Alone]_EN!vars
  <2> SUFFICES ASSUME Inv, [EN!Next]_EN!vars, NEW t \in opened' \ opened, resting' = resting, t \notin late
               PROVE  /\ \A p \in Standing(pos) : pos[p].buy = TaskOf[t].buy /\ ~inp.skip
                      /\ ~EN!TooMuch(EN!LotsIn(pos, Standing(pos)), pos'[last'].lots)
    BY DEF Standing, EN!LotsOf
  <2>1. PICK c \in Charts, less \in BOOLEAN :
           t = job[c] /\ req[c].kind = "entry" /\ EN!Executes(job[c], req[c], less)
    <3>1. EN!Next
      BY DEF EN!vars, EN!ghosts
    <3>2. ASSUME NEW by, NEW r, NEW less \in BOOLEAN, EN!Executes(by, r, less),
                 r.kind \in {"close", "remove", "roll", "entry"}
          PROVE  t = by /\ r.kind = "entry"
      BY <3>2 DEF EN!Executes
    <3>3. ASSUME NEW c \in Charts, EN!Chart(c) PROVE FALSE
      BY <3>3 DEF EN!Chart, EN!Take, EN!Unready, EN!Roll, EN!Preflight, EN!Net,
         EN!NetOrders, EN!Wait, EN!Price,
                  EN!Close, EN!ghosts
    <3>4. ASSUME EN!Market PROVE FALSE
      <4>1. \A r \in resting : ~EN!Fill(r)
        BY DEF EN!Fill
      <4> QED BY <3>4, <4>1 DEF EN!Market, EN!Drop, EN!Lists, EN!Stopped, EN!Arrives,
         EN!ghosts
    <3>5. PICK c \in Charts : EN!Answer(c)
      BY <3>1, <3>3, <3>4 DEF EN!Next
    <3>6. EN!Done(c) \/ EN!DoneInPart(c) \/ EN!Lost(c)
      BY <3>5 DEF EN!Answer, EN!Placed, EN!Refused, EN!ghosts
    <3>7. EN!Executes(job[c], req[c], FALSE) \/ EN!Executes(job[c], req[c], TRUE)
      BY <3>6 DEF EN!Done, EN!DoneInPart, EN!Lost
    <3>8. req[c].kind \in {"close", "remove", "roll", "entry"}
      BY <3>6 DEF EN!Done, EN!DoneInPart, EN!Lost, ENSound, ENBusy
    <3> QED BY <3>2, <3>7, <3>8
  <2>2. /\ req[c].lots = EN!Volume(TaskOf[t].half) /\ req[c].lots \in Nat /\ Clear(t)
    <3>1. at[c] = "price" /\ job[c] \in Tasks /\ TaskOf[job[c]].half \in Nat
      BY <2>1 DEF ENSound, ENShape, ENBusy, ESSound, ESAsked, EN!NettingConstants
    <3> QED BY <2>1, <3>1, VolumeIsNumber DEF ESSound, ESAsked, ESClear
  <2>3. pos'[last'].lots \in Nat /\ pos'[last'].lots <= req[c].lots
    <3>1. EN!Opens(req[c].buy, IF less THEN req[c].lots - 1 ELSE req[c].lots) /\ (less => req[c].lots > 1)
      BY <2>1 DEF EN!Executes
    <3>2. last' = last + 1 /\ last + 1 \notin DOMAIN pos
      BY <3>1 DEF EN!Opens, ESSound, ESBook
    <3>3. pos'[last'].lots = IF less THEN req[c].lots - 1 ELSE req[c].lots
      BY <3>1, <3>2 DEF EN!Opens
    <3> QED BY <2>2, <3>1, <3>3
  <2>4. inp.cap \in Nat /\ EN!LotsIn(pos, Standing(pos)) \in Nat
    <3>1. /\ \A n \in Standing(pos) : pos[n].lots \in Nat /\ pos[n].lots <= pos[n].lots
          /\ MaxTicket \in Nat /\ inp.cap \in Nat
      BY DEF ESSound, ESBook, Standing, EN!Position, EN!NettingConstants
    <3> QED BY <3>1, LotsLess
  <2>5. ~EN!TooMuch(EN!LotsIn(pos, Standing(pos)), pos'[last'].lots)
    BY <2>2, <2>3, <2>4 DEF Clear, EN!TooMuch
  <2> QED BY <2>2, <2>5 DEF Clear
<1> QED BY <1>1, <1>2, <1>3, PTL DEF EN!Spec, EN!EntryStandsAlone, EntryStandsAlone
=============================================================================

----------------------- MODULE CTraderManagerProofs -----------------------
EXTENDS MCCTraderManager, Integers, FiniteSetTheorems, TLAPS

-----------------------------------------------------------------------------
(* The invariant *)

\* A pass that plans has chosen a rule with something to do, and only the rules
\* in front of the save have a mutation.
Planned == {"plan", "mark", "note", "call", "done", "fail"}
Chosen ==
    \A t \in Ticks :
        /\ pc[t] \in Planned => Wants(At(t), snap[t], mem[t].now)
        /\ pc[t] \in Planned \ {"plan"} => phase[t] < 6

\* An entry that is there says what became of its mutation.
Noted == \A k \in DOMAIN ledger : ledger[k].st # "none"

\* Without a race one pass is inside at a time.
Alone == ~raced => \A t, u \in Inside : t = u

\* A key is noted before the broker is asked, and asked once: nobody has its close
\* made while a pass is about to ask for it or a late request may still do so.
Claimed ==
    ~raced =>
        /\ \A t \in Ticks : pc[t] = "note" => KeyOf(t) \notin DOMAIN ledger
        /\ \A t \in Ticks : pc[t] = "call" =>
               /\ KeyOf(t) \in DOMAIN ledger /\ KeyOf(t) \notin DOMAIN cuts
               /\ \A q \in late : q.key # KeyOf(t)
        /\ \A q \in late : q.key \in DOMAIN ledger /\ q.key \notin DOMAIN cuts
        /\ \A p, q \in late : p.key = q.key => p = q
        /\ \A k \in DOMAIN cuts : k \in DOMAIN ledger /\ cuts[k] = 1

\* With no race, no outcome left in the dark and no operator, a pass knows the volume.
Quiet == ~raced /\ ~blind /\ moves = 0
Knows == {"load", "create", "plan", "mark", "note", "call", "fail"}
FullKey == <<"full", 0, 0>>
Tracked ==
    Quiet =>
        /\ late = {}
        /\ \A t \in Ticks : pc[t] \in Knows => snap[t].vol = pos.vol
        /\ \A t \in Ticks : pc[t] = "done" => pos.vol = snap[t].vol - CutOf(t)
        /\ pos.vol < MinVolume => FullKey \in DOMAIN cuts

IInv == TypeOK /\ Chosen /\ Noted /\ Alone /\ Claimed /\ Tracked

-----------------------------------------------------------------------------
(* The operators: what a rule may cut, and the rule behind another one *)

Snaps == [vol : 0 .. Volume, stop : Stops, take : Takes, at : Nat, mark : 0 .. MaxMark]

LEMMA FloorBelow == ASSUME NEW v \in Nat PROVE Floor(v) \in Nat /\ Floor(v) <= v
<1>1. Step \in Nat \ {0}
  BY ManagerAssumption
<1>2. v \div Step \in Nat
  BY <1>1
<1>3. Floor(v) \in Nat
  <2>1. \A a, b \in Nat : a * b \in Nat
    OBVIOUS
  <2> QED
    BY <1>1, <1>2, <2>1 DEF Floor
<1>4. Floor(v) <= v
  BY <1>1 DEF Floor
<1> QED
  BY <1>3, <1>4

LEMMA PercentIsNat == ASSUME NEW i \in Levels PROVE Percent(i) \in Nat
<1>1. Len(RLevels) \in Nat /\ DOMAIN RLevels = 1 .. Len(RLevels) /\ Len(RLevels) > 0
  BY ManagerAssumption DEF Levels
<1>2. Len(Percents) \in Nat /\ Len(Percents) > 0
  <2>1. Len(Percents) \in {1, Len(RLevels)}
    BY <1>1, ManagerAssumption
  <2> QED
    BY <1>1, <2>1
<1>3. \A j \in 1 .. Len(Percents) : Percents[j] \in Nat
  <2> DEFINE S == 1 .. 100
  <2>1. Percents \in Seq(S)
    BY ManagerAssumption
  <2>2. S \subseteq Nat
    OBVIOUS
  <2> HIDE DEF S
  <2>3. \A j \in 1 .. Len(Percents) : Percents[j] \in S
    BY <2>1
  <2> QED
    BY <2>2, <2>3
<1>4. i \in Nat /\ i >= 1
  BY <1>1 DEF Levels
<1> QED
  BY <1>2, <1>3, <1>4 DEF Percent

\* A cut for a level leaves the broker's minimum open, or is none.
LEMMA PartialLeaves ==
    ASSUME NEW s \in Snaps, NEW m \in Records, NEW i \in Levels
    PROVE  /\ PartialVolume(s, m, i) \in Nat /\ PartialVolume(s, m, i) <= s.vol
           /\ PartialVolume(s, m, i) = 0 \/ s.vol - PartialVolume(s, m, i) >= MinVolume
<1> DEFINE base  == IF Len(Percents) > 1 THEN m.orig ELSE s.vol
           share == ((2 * base * Percent(i) + 100 * Step) \div (200 * Step)) * Step
           whole == Floor(Less(share, s.vol - MinVolume))
<1>1. s.vol \in Nat /\ m.orig \in Nat /\ MinVolume \in Nat \ {0} /\ Step \in Nat \ {0}
  BY ManagerAssumption DEF Snaps, Records
<1>2. PartialVolume(s, m, i) = IF s.vol > MinVolume /\ whole >= MinVolume THEN whole ELSE 0
  BY DEF PartialVolume
<1>3. base \in Nat
  BY <1>1
<1> HIDE DEF base
<1>4. share \in Nat
  <2>1. 2 * base * Percent(i) \in Nat
    BY <1>3, PercentIsNat
  <2>2. \A a \in Nat, b \in Nat \ {0} : a \div b \in Nat
    OBVIOUS
  <2>3. 100 * Step \in Nat /\ 200 * Step \in Nat \ {0}
    BY <1>1
  <2>4. 2 * base * Percent(i) + 100 * Step \in Nat
    BY <2>1, <2>3
  <2>5. (2 * base * Percent(i) + 100 * Step) \div (200 * Step) \in Nat
    BY <2>2, <2>3, <2>4
  <2>6. \A a, b \in Nat : a * b \in Nat
    OBVIOUS
  <2> QED
    BY <1>1, <2>5, <2>6
<1> HIDE DEF share
<1>5. CASE s.vol > MinVolume
  <2>1. Less(share, s.vol - MinVolume) \in Nat /\ Less(share, s.vol - MinVolume) <= s.vol - MinVolume
    BY <1>1, <1>4, <1>5 DEF Less
  <2>2. whole \in Nat /\ whole <= s.vol - MinVolume
    BY <1>1, <2>1, FloorBelow
  <2> HIDE DEF whole
  <2> QED
    BY <1>1, <1>2, <2>2
<1>6. CASE ~(s.vol > MinVolume)
  BY <1>1, <1>2, <1>6
<1> QED
  BY <1>5, <1>6

\* So does the armed rule's.
LEMMA RuleLeaves ==
    ASSUME NEW s \in Snaps
    PROVE  /\ RuleCut(s) \in Nat /\ RuleCut(s) <= s.vol
           /\ RuleCut(s) = 0 \/ s.vol - RuleCut(s) >= MinVolume
<1>1. s.vol \in Nat /\ MinVolume \in Nat \ {0} /\ RuleVolume \in Nat
  BY ManagerAssumption DEF Snaps
<1>2. CASE s.vol > MinVolume
  <2>1. Floor(s.vol - MinVolume) \in Nat /\ Floor(s.vol - MinVolume) <= s.vol - MinVolume
    BY <1>1, <1>2, FloorBelow
  <2>2. RuleCut(s) = Less(RuleVolume, Floor(s.vol - MinVolume))
    BY <1>2 DEF RuleCut
  <2>3. RuleCut(s) \in Nat /\ RuleCut(s) <= Floor(s.vol - MinVolume)
    BY <1>1, <2>1, <2>2 DEF Less
  <2> QED
    BY <1>1, <2>1, <2>3
<1>3. CASE ~(s.vol > MinVolume)
  BY <1>1, <1>3 DEF RuleCut
<1> QED
  BY <1>2, <1>3

\* The rule behind the n-th is there, and it has something to do.
LEMMA NextPhaseWants ==
    ASSUME NEW n \in 1 .. 5, NEW s, NEW m
    PROVE  NextPhase(n, s, m) \in 1 .. 6 /\ Wants(Phases[NextPhase(n, s, m)], s, m)
<1> DEFINE W(k) == Wants(Phases[k], s, m)
           P(k) == \E i \in k + 1 .. 6 : W(i) /\ \A j \in k + 1 .. i - 1 : ~W(j)
<1>1. W(6)
  <2>1. Phases[6] = "save"
    BY DEF Phases
  <2> QED
    BY <2>1 DEF Wants
<1>2. NextPhase(n, s, m) = IF Phases[n] = "full" /\ Wants("full", s, m) THEN 6
                           ELSE CHOOSE k \in n + 1 .. 6 : W(k) /\ \A j \in n + 1 .. k - 1 : ~W(j)
  BY DEF NextPhase
<1> HIDE DEF W
<1>3. P(5)
  BY <1>1
<1>4. ASSUME NEW k \in 1 .. 4, P(k + 1) PROVE P(k)
  <2>1. CASE W(k + 1)
    BY <2>1
  <2>2. CASE ~W(k + 1)
    <3>1. PICK i \in k + 2 .. 6 : W(i) /\ \A j \in k + 2 .. i - 1 : ~W(j)
      BY <1>4
    <3>2. \A j \in k + 1 .. i - 1 : ~W(j)
      BY <2>2, <3>1
    <3> QED
      BY <3>1, <3>2
  <2> QED
    BY <2>1, <2>2
<1>5. P(4) /\ P(3) /\ P(2) /\ P(1)
  <2>1. P(4)
    BY <1>3, <1>4
  <2>2. P(3)
    BY <2>1, <1>4
  <2>3. P(2)
    BY <2>2, <1>4
  <2> QED
    BY <1>4, <2>1, <2>2, <2>3
<1>6. P(n)
  <2>1. n = 1 \/ n = 2 \/ n = 3 \/ n = 4 \/ n = 5
    OBVIOUS
  <2> QED
    BY <1>3, <1>5, <2>1
<1>7. NextPhase(n, s, m) \in 1 .. 6 /\ W(NextPhase(n, s, m))
  BY <1>1, <1>2, <1>6
<1> QED
  BY <1>7 DEF W

LEMMA FirstPhaseWants ==
    ASSUME NEW s, NEW m
    PROVE  FirstPhase(s, m) \in 1 .. 6 /\ Wants(Phases[FirstPhase(s, m)], s, m)
<1>1. Phases[1] = "protect"
  BY DEF Phases
<1>2. CASE Wants("protect", s, m)
  BY <1>1, <1>2 DEF FirstPhase
<1>3. CASE ~Wants("protect", s, m)
  BY <1>3, NextPhaseWants DEF FirstPhase
<1> QED
  BY <1>2, <1>3

LEMMA RulesBeforeSave ==
    ASSUME NEW n \in 1 .. 5
    PROVE  Phases[n] \in {"protect", "full", "level", "rule", "even"}
<1>1. n = 1 \/ n = 2 \/ n = 3 \/ n = 4 \/ n = 5
  OBVIOUS
<1> QED
  BY <1>1 DEF Phases

\* What a pass asks for depends on what it knows alone.
LEMMA KeyStays ==
    ASSUME NEW t \in Ticks, UNCHANGED local
    PROVE  /\ KeyOf(t)' = KeyOf(t) /\ CutOf(t)' = CutOf(t) /\ At(t)' = At(t)
<1>1. phase' = phase /\ snap' = snap /\ mem' = mem
  BY DEF local
<1>2. At(t)' = At(t)
  BY <1>1 DEF At
<1>3. CutOf(t)' = CutOf(t)
  BY <1>1, <1>2 DEF CutOf
<1>4. KeyOf(t)' = KeyOf(t)
  BY <1>1, <1>2, <1>3 DEF KeyOf
<1> QED
  BY <1>2, <1>3, <1>4

LEMMA CutCases ==
    ASSUME NEW t \in Ticks
    PROVE  /\ At(t) = "full" => CutOf(t) = snap[t].vol /\ KeyOf(t) = <<"full", 0, 0>>
           /\ At(t) = "level" =>
                  CutOf(t) = PartialVolume(snap[t], mem[t].now, DueLevel(snap[t], mem[t].now))
           /\ At(t) = "rule" => CutOf(t) = RuleCut(snap[t])
           /\ ~IsClose(At(t)) => CutOf(t) = 0
<1>1. At(t) = "full" => CutOf(t) = snap[t].vol
  BY DEF CutOf
<1>2. At(t) = "full" => KeyOf(t) = <<"full", 0, 0>>
  BY DEF KeyOf
<1>3. At(t) = "level" =>
          CutOf(t) = PartialVolume(snap[t], mem[t].now, DueLevel(snap[t], mem[t].now))
  BY DEF CutOf
<1>4. At(t) = "rule" => CutOf(t) = RuleCut(snap[t])
  BY DEF CutOf
<1>5. ~IsClose(At(t)) => CutOf(t) = 0
  BY DEF CutOf, IsClose
<1> QED
  BY <1>1, <1>2, <1>3, <1>4, <1>5

LEMMA KeyCases ==
    ASSUME NEW t \in Ticks
    PROVE  /\ At(t) = "level" =>
                  KeyOf(t) = <<"level", DueLevel(snap[t], mem[t].now), CutOf(t)>>
           /\ At(t) = "protect" => KeyOf(t) = <<"protect", snap[t].at, 0>>
           /\ At(t) \notin {"level", "protect"} => KeyOf(t) = <<At(t), 0, 0>>
<1>1. At(t) = "level" => KeyOf(t) = <<"level", DueLevel(snap[t], mem[t].now), CutOf(t)>>
  BY DEF KeyOf
<1>2. At(t) = "protect" => KeyOf(t) = <<"protect", snap[t].at, 0>>
  BY DEF KeyOf
<1>3. At(t) \notin {"level", "protect"} => KeyOf(t) = <<At(t), 0, 0>>
  BY DEF KeyOf
<1> QED
  BY <1>1, <1>2, <1>3

\* A set of naturals has a least element: what CHOOSE finds in DueLevel.
LEMMA LeastElement ==
    ASSUME NEW S \in SUBSET Nat, S # {}
    PROVE  \E x \in S : \A y \in S : x <= y
<1> DEFINE Part(x) == {y \in S : y <= x}
           Family  == {Part(x) : x \in S}
           R       == StrictSubsetOrdering(S)
<1>1. Family \subseteq FiniteSubsetsOf(S)
  <2>1. ASSUME NEW x \in S PROVE IsFiniteSet(Part(x))
    <3>1. \A y \in Part(x) : y <= x
      OBVIOUS
    <3>2. Part(x) \in SUBSET Nat /\ x \in Nat
      OBVIOUS
    <3> QED BY <3>1, <3>2, FS_BoundedSetOfNaturals
  <2> QED BY <2>1 DEF FiniteSubsetsOf
<1>2. Family # {}
  OBVIOUS
<1>3. IsWellFoundedOn(R, FiniteSubsetsOf(S))
  BY FS_StrictSubsetOrderingWellFounded
<1>4. PICK T \in Family : \A U \in Family : <<U, T>> \notin R
  <2> HIDE DEF R, Family
  <2> QED BY <1>1, <1>2, <1>3, WFMin
<1>5. PICK x \in S : T = Part(x)
  BY <1>4
<1>6. ASSUME NEW y \in S, y < x PROVE FALSE
  <2>1. x \in Nat /\ y \in Nat
    OBVIOUS
  <2>2. Part(y) \subseteq Part(x) /\ x \in Part(x) /\ x \notin Part(y)
    <3>1. \A z \in S : z \in Nat
      OBVIOUS
    <3>2. \A z \in S : z <= y => z <= x
      BY <2>1, <3>1, <1>6
    <3>3. x <= x /\ ~ (x <= y)
      BY <2>1, <1>6
    <3> QED BY <3>2, <3>3
  <2>3. <<Part(y), Part(x)>> \in R
    BY <2>2 DEF StrictSubsetOrdering
  <2> QED BY <1>4, <1>5, <2>3
<1> QED BY <1>6

LEMMA DueLevelIsLevel ==
    ASSUME NEW s, NEW m, Wants("level", s, m)
    PROVE  DueLevel(s, m) \in Levels
<1>1. DueLevels(s, m) # {} /\ DueLevels(s, m) \in SUBSET Nat /\ DueLevels(s, m) \subseteq Levels
  <2>1. DueLevels(s, m) # {}
    BY DEF Wants
  <2>2. Levels \subseteq Nat
    BY ManagerAssumption DEF Levels
  <2> QED
    BY <2>1, <2>2 DEF DueLevels
<1>2. \E i \in DueLevels(s, m) : \A j \in DueLevels(s, m) : i <= j
  BY <1>1, LeastElement
<1> QED
  BY <1>1, <1>2 DEF DueLevel
-----------------------------------------------------------------------------
(* The types, in four parts *)

BrokerTyped ==
    /\ pos \in Positions /\ late \subseteq Requests
    /\ DOMAIN cuts \subseteq Keys /\ \A k \in DOMAIN cuts : cuts[k] \in Nat
RedisTyped ==
    /\ rec \in Records /\ lock \in Ticks \cup {NoTick}
    /\ DOMAIN ledger \subseteq Keys /\ \A k \in DOMAIN ledger : ledger[k] \in Entries
LocalTyped ==
    /\ pc \in [Ticks -> Pcs] /\ phase \in [Ticks -> 1 .. 6]
    /\ snap \in [Ticks -> Snaps] /\ mem \in [Ticks -> [now : Records, was : Records]]
RestTyped ==
    /\ asked \in Ticks \cup {NoTick, "waiting"}
    /\ raced \in BOOLEAN /\ blind \in BOOLEAN
    /\ moves \in 0 .. MaxMoves /\ faults \in 0 .. MaxFaults

LEMMA TypesAreFour == TypeOK <=> BrokerTyped /\ RedisTyped /\ LocalTyped /\ RestTyped
  BY DEF TypeOK, BrokerTyped, RedisTyped, LocalTyped, RestTyped, Snaps

\* What a pass asks for, notes and remembers is of its type, and a cut of a part
\* leaves the minimum of the volume it knows.
LEMMA AsksTyped ==
    ASSUME LocalTyped, Chosen, NEW t \in Ticks, pc[t] \in Planned, phase[t] < 6
    PROVE  /\ At(t) \in {"protect", "full", "level", "rule", "even"}
           /\ CutOf(t) \in Nat /\ CutOf(t) <= snap[t].vol
           /\ At(t) \in {"level", "rule"} =>
                  CutOf(t) = 0 \/ snap[t].vol - CutOf(t) >= MinVolume
           /\ KeyOf(t) \in Keys /\ RequestOf(t) \in Requests /\ RequestOf(t).key = KeyOf(t)
           /\ RequestOf(t).req = CutOf(t) /\ KeyOf(t)[1] = At(t)
           /\ Settled(t) \in Records /\ After(t) \in Snaps
           /\ After(t).vol = snap[t].vol - CutOf(t)
<1>1. At(t) \in {"protect", "full", "level", "rule", "even"}
  <2>1. phase[t] \in 1 .. 5
    BY DEF LocalTyped
  <2> QED
    BY <2>1, RulesBeforeSave DEF At
<1>2. /\ snap[t] \in Snaps /\ mem[t].now \in Records
      /\ snap[t].vol \in Nat /\ snap[t].vol <= Volume /\ snap[t].at \in Nat
  BY ManagerAssumption DEF LocalTyped, Snaps
<1>3. At(t) = "level" => DueLevel(snap[t], mem[t].now) \in Levels
  <2>1. Wants(At(t), snap[t], mem[t].now)
    BY DEF Chosen
  <2> QED
    BY <2>1, DueLevelIsLevel
<1>4. /\ CutOf(t) \in Nat /\ CutOf(t) <= snap[t].vol
      /\ At(t) \in {"level", "rule"} => CutOf(t) = 0 \/ snap[t].vol - CutOf(t) >= MinVolume
  <2>1. CASE At(t) = "full"
    BY <1>2, <2>1, CutCases
  <2>2. CASE At(t) = "level"
    BY <1>2, <1>3, <2>2, CutCases, PartialLeaves
  <2>3. CASE At(t) = "rule"
    BY <1>2, <2>3, CutCases, RuleLeaves
  <2>4. CASE At(t) \in {"protect", "even"}
    <3>1. CutOf(t) = 0
      BY <2>4, CutCases DEF IsClose
    <3> QED
      BY <1>2, <2>4, <3>1
  <2> QED
    BY <1>1, <2>1, <2>2, <2>3, <2>4
<1>5. KeyOf(t) \in Keys /\ KeyOf(t)[1] = At(t)
  <2>1. Levels \subseteq Nat
    BY ManagerAssumption DEF Levels
  <2>2. CASE At(t) = "level"
    <3> DEFINE d == DueLevel(snap[t], mem[t].now)
    <3>1. d \in Nat /\ KeyOf(t) = <<"level", d, CutOf(t)>>
      BY <1>3, <2>1, <2>2, KeyCases
    <3> HIDE DEF d
    <3> QED
      BY <1>4, <2>2, <3>1 DEF Keys
  <2>3. CASE At(t) = "protect"
    BY <1>2, <2>3, KeyCases DEF Keys
  <2>4. CASE At(t) \notin {"level", "protect"}
    BY <1>1, <2>4, KeyCases DEF Keys
  <2> QED
    BY <2>2, <2>3, <2>4
<1>6. StopOf(t) \in Stops /\ TakeOf(t) \in Takes
  BY <1>2 DEF StopOf, TakeOf, Stops, Takes, Default, Even, Snaps
<1>7. /\ RequestOf(t) \in Requests /\ RequestOf(t).key = KeyOf(t)
      /\ RequestOf(t).req = CutOf(t)
  BY <1>4, <1>5, <1>6 DEF RequestOf, Requests
<1>8. Settled(t) \in Records
  <2>1. CASE At(t) = "level"
    <3>1. Settled(t) = [mem[t].now EXCEPT !.mask = @ \cup {DueLevel(snap[t], mem[t].now)}]
      BY <2>1 DEF Settled
    <3> QED
      BY <1>2, <1>3, <2>1, <3>1 DEF Records
  <2>2. CASE At(t) = "rule"
    <3>1. Settled(t) = [mem[t].now EXCEPT !.rule = FALSE]
      BY <2>2 DEF Settled
    <3> QED
      BY <1>2, <3>1 DEF Records
  <2>3. CASE At(t) = "even"
    <3>1. Settled(t) = [mem[t].now EXCEPT !.even = TRUE]
      BY <2>3 DEF Settled
    <3> QED
      BY <1>2, <3>1 DEF Records
  <2>4. CASE At(t) \notin {"level", "rule", "even"}
    <3>1. Settled(t) = mem[t].now
      BY <2>4 DEF Settled
    <3> QED
      BY <1>2, <3>1
  <2> QED
    BY <2>1, <2>2, <2>3, <2>4
<1>9. After(t) \in Snaps /\ After(t).vol = snap[t].vol - CutOf(t)
  <2>1. CASE IsClose(At(t))
    <3>1. After(t) = [snap[t] EXCEPT !.vol = snap[t].vol - CutOf(t)]
      BY <2>1 DEF After
    <3>2. snap[t].vol - CutOf(t) \in 0 .. Volume
      BY <1>2, <1>4, ManagerAssumption
    <3> QED
      BY <1>2, <3>1, <3>2 DEF Snaps
  <2>2. CASE ~IsClose(At(t))
    <3>1. After(t) = [snap[t] EXCEPT !.stop = StopOf(t), !.take = TakeOf(t)]
      BY <2>2 DEF After
    <3>2. After(t) \in Snaps /\ After(t).vol = snap[t].vol
      BY <1>2, <1>6, <3>1 DEF Snaps
    <3>3. CutOf(t) = 0
      BY <2>2, CutCases
    <3> QED
      BY <1>2, <3>2, <3>3
  <2> QED
    BY <2>1, <2>2
<1> QED
  BY <1>1, <1>4, <1>5, <1>7, <1>8, <1>9

\* How a pass moves: on to the next rule, out, or to the next call of the same rule.
LEMMA GoOnDoes ==
    ASSUME LocalTyped, Chosen, NEW t \in Ticks, phase[t] < 6,
           NEW s \in Snaps, NEW m \in Records, GoOn(t, s, m)
    PROVE  /\ LocalTyped' /\ Chosen' /\ pc' = [pc EXCEPT ![t] = "plan"]
           /\ snap'[t] = s
<1>1. /\ snap' = [snap EXCEPT ![t] = s] /\ mem' = [mem EXCEPT ![t].now = m]
      /\ phase' = [phase EXCEPT ![t] = NextPhase(phase[t], s, m)]
      /\ pc' = [pc EXCEPT ![t] = "plan"]
  BY DEF GoOn
<1>2. phase[t] \in 1 .. 5
  BY DEF LocalTyped
<1>3. /\ NextPhase(phase[t], s, m) \in 1 .. 6
      /\ Wants(Phases[NextPhase(phase[t], s, m)], s, m)
  BY <1>2, NextPhaseWants
<1>4. mem' \in [Ticks -> [now : Records, was : Records]] /\ mem'[t].now = m
      /\ \A u \in Ticks : u # t => mem'[u] = mem[u]
  BY <1>1 DEF LocalTyped
<1>5. LocalTyped'
  BY <1>1, <1>3, <1>4 DEF LocalTyped, Pcs
<1>6. /\ phase'[t] = NextPhase(phase[t], s, m) /\ snap'[t] = s /\ pc'[t] = "plan"
      /\ \A u \in Ticks : u # t => phase'[u] = phase[u] /\ snap'[u] = snap[u] /\ pc'[u] = pc[u]
  BY <1>1 DEF LocalTyped
<1>7. Wants(Phases[phase'[t]], snap'[t], mem'[t].now)
  BY <1>3, <1>4, <1>6
<1>8. Chosen'
  BY <1>4, <1>6, <1>7 DEF Chosen, At, Planned
<1> QED
  BY <1>1, <1>5, <1>6, <1>8

LEMMA LeaveDoes ==
    ASSUME LocalTyped, Chosen, NEW t \in Ticks, NEW to \in Pcs \ Planned, Leave(t, to)
    PROVE  LocalTyped' /\ Chosen' /\ pc' = [pc EXCEPT ![t] = to]
<1>1. /\ pc' = [pc EXCEPT ![t] = to] /\ phase' = [phase EXCEPT ![t] = 1]
      /\ snap' = [snap EXCEPT ![t] = NoPosition]
      /\ mem' = [mem EXCEPT ![t] = [now |-> NoRecord, was |-> NoRecord]]
  BY DEF Leave, Goto
<1>2. NoPosition \in Snaps
  BY ManagerAssumption DEF NoPosition, Snaps, Stops, Takes
<1>3. NoRecord \in Records
  BY ManagerAssumption DEF NoRecord, Records
<1>4. mem' \in [Ticks -> [now : Records, was : Records]]
  BY <1>1, <1>3 DEF LocalTyped
<1>5. LocalTyped'
  BY <1>1, <1>2, <1>4 DEF LocalTyped
<1>6. /\ pc'[t] \notin Planned
      /\ \A u \in Ticks : u # t => /\ phase'[u] = phase[u] /\ snap'[u] = snap[u]
                                   /\ pc'[u] = pc[u] /\ mem'[u] = mem[u]
  BY <1>1 DEF LocalTyped
<1> QED
  BY <1>1, <1>5, <1>6 DEF Chosen, At

LEMMA GotoDoes ==
    ASSUME LocalTyped, Chosen, NEW t \in Ticks, NEW to \in Pcs, Goto(t, to), UNCHANGED local,
           to \notin Planned \/ (pc[t] \in Planned /\ phase[t] < 6)
    PROVE  LocalTyped' /\ Chosen' /\ pc' = [pc EXCEPT ![t] = to]
<1>1. pc' = [pc EXCEPT ![t] = to] /\ phase' = phase /\ snap' = snap /\ mem' = mem
  BY DEF Goto, local
<1>2. LocalTyped'
  BY <1>1 DEF LocalTyped
<1>3. pc'[t] = to /\ \A u \in Ticks : u # t => pc'[u] = pc[u]
  BY <1>1 DEF LocalTyped
<1> QED
  BY <1>1, <1>2, <1>3 DEF Chosen, At

LEMMA BeginDoes ==
    ASSUME LocalTyped, Chosen, NEW t \in Ticks, NEW m \in Records, Begin(t, m), snap' = snap
    PROVE  LocalTyped' /\ Chosen' /\ pc' = [pc EXCEPT ![t] = "plan"]
<1> DEFINE n == IF asked = t THEN [m EXCEPT !.rule = TRUE] ELSE m
           p == IF asked = t THEN 6 ELSE FirstPhase(snap[t], m)
<1>1. /\ pc' = [pc EXCEPT ![t] = "plan"]
      /\ mem' = [mem EXCEPT ![t] = [now |-> n, was |-> m]]
      /\ phase' = [phase EXCEPT ![t] = p]
  BY DEF Begin, Goto
<1>2. n \in Records
  BY DEF Records
<1>3. p \in 1 .. 6 /\ Wants(Phases[p], snap[t], n)
  <2>1. CASE asked = t
    <3>1. p = 6 /\ Phases[p] = "save"
      BY <2>1 DEF Phases
    <3> HIDE DEF n, p
    <3> QED
      BY <3>1 DEF Wants
  <2>2. CASE asked # t
    BY <2>2, FirstPhaseWants
  <2> QED
    BY <2>1, <2>2
<1> HIDE DEF n, p
<1>4. /\ mem' \in [Ticks -> [now : Records, was : Records]] /\ mem'[t].now = n
      /\ \A u \in Ticks : u # t => mem'[u] = mem[u]
  BY <1>1, <1>2 DEF LocalTyped
<1>5. LocalTyped'
  BY <1>1, <1>3, <1>4 DEF LocalTyped, Pcs
<1>6. /\ phase'[t] = p /\ pc'[t] = "plan"
      /\ \A u \in Ticks : u # t => phase'[u] = phase[u] /\ pc'[u] = pc[u]
  BY <1>1 DEF LocalTyped
<1>7. Wants(Phases[phase'[t]], snap'[t], mem'[t].now)
  BY <1>3, <1>4, <1>6
<1>8. Chosen'
  BY <1>4, <1>6, <1>7 DEF Chosen, At, Planned
<1> QED
  BY <1>1, <1>5, <1>8

-----------------------------------------------------------------------------
(* The steps keep the types *)

LEMMA BeforeSave ==
    ASSUME LocalTyped, NEW t \in Ticks, At(t) # "save"
    PROVE  phase[t] < 6
<1>1. phase[t] \in 1 .. 6
  BY DEF LocalTyped
<1>2. phase[t] = 6 => At(t) = "save"
  BY DEF At, Phases
<1> QED
  BY <1>1, <1>2

LEMMA ReadLedgerDoes ==
    ASSUME NEW t \in Ticks, ReadLedger(t)
    PROVE  /\ pc[t] = "plan"
           /\ \/ Goto(t, "note") /\ UNCHANGED local /\ Entry(KeyOf(t)).st = "none"
              \/ Goto(t, "mark") /\ UNCHANGED local
              \/ GoOn(t, snap[t], Settled(t))
              \/ GoOn(t, snap[t], mem[t].now)
  BY DEF ReadLedger

\* What a pass knows keeps its type, and the rule at hand has something to do.
LEMMA LocalStep ==
    ASSUME BrokerTyped, RedisTyped, LocalTyped, Chosen, [Next]_vars
    PROVE  (LocalTyped /\ Chosen)'
<1>1. ASSUME NEW t \in Ticks, NEW arms \in BOOLEAN, Acquire(t, arms) PROVE (LocalTyped /\ Chosen)'
  BY <1>1, GotoDoes DEF Acquire, Pcs, Planned
<1>2. ASSUME NEW t \in Ticks, Snapshot(t) PROVE (LocalTyped /\ Chosen)'
  <2>1. CASE Leave(t, "unlock")
    BY <2>1, LeaveDoes DEF Pcs, Planned
  <2>2. CASE Goto(t, "load") /\ UNCHANGED <<phase, mem>> /\ \E mark \in 0 .. MaxMark :
                 snap' = [snap EXCEPT ![t] = [vol |-> pos.vol, stop |-> pos.stop,
                              take |-> pos.take, at |-> pos.at, mark |-> mark]]
    <3>1. PICK s \in Snaps : snap' = [snap EXCEPT ![t] = s]
      BY <2>2 DEF BrokerTyped, Positions, Snaps
    <3>2. pc' = [pc EXCEPT ![t] = "load"] /\ phase' = phase /\ mem' = mem
      BY <2>2 DEF Goto
    <3>3. LocalTyped'
      BY <3>1, <3>2 DEF LocalTyped, Pcs
    <3>4. /\ pc'[t] = "load"
          /\ \A u \in Ticks : u # t => pc'[u] = pc[u] /\ snap'[u] = snap[u]
      BY <3>1, <3>2 DEF LocalTyped
    <3> QED
      BY <3>2, <3>3, <3>4 DEF Chosen, At, Planned
  <2> QED
    BY <1>2, <2>1, <2>2 DEF Snapshot
<1>3. ASSUME NEW t \in Ticks, LoadState(t) PROVE (LocalTyped /\ Chosen)'
  <2>1. CASE Goto(t, "create") /\ UNCHANGED <<phase, mem, snap>>
    BY <2>1, GotoDoes DEF Pcs, Planned, local
  <2>2. CASE Begin(t, rec) /\ snap' = snap
    BY <2>2, BeginDoes DEF RedisTyped
  <2> QED
    BY <1>3, <2>1, <2>2 DEF LoadState
<1>4. ASSUME NEW t \in Ticks, CreateState(t) PROVE (LocalTyped /\ Chosen)'
  <2>1. [NoRecord EXCEPT !.orig = snap[t].vol] \in Records
    BY ManagerAssumption DEF NoRecord, Records, LocalTyped, Snaps
  <2>2. rec' \in Records /\ Begin(t, rec') /\ snap' = snap
    BY <1>4, <2>1 DEF CreateState
  <2> QED
    BY <2>2, BeginDoes
<1>5. ASSUME NEW t \in Ticks, Skip(t) PROVE (LocalTyped /\ Chosen)'
  <2>1. pc[t] \in Planned /\ phase[t] < 6
    BY <1>5, BeforeSave DEF Skip, Planned
  <2>2. Settled(t) \in Records /\ snap[t] \in Snaps
    BY <2>1, AsksTyped DEF LocalTyped
  <2> QED
    BY <1>5, <2>1, <2>2, GoOnDoes DEF Skip
<1>6. ASSUME NEW t \in Ticks, ReadLedger(t) PROVE (LocalTyped /\ Chosen)'
  <2>1. pc[t] \in Planned /\ phase[t] < 6
    BY <1>6, BeforeSave DEF ReadLedger, Planned
  <2>2. Settled(t) \in Records /\ snap[t] \in Snaps /\ mem[t].now \in Records
    BY <2>1, AsksTyped DEF LocalTyped
  <2>3. CASE Goto(t, "note") /\ UNCHANGED local
    BY <2>1, <2>3, GotoDoes DEF Pcs
  <2>4. CASE Goto(t, "mark") /\ UNCHANGED local
    BY <2>1, <2>4, GotoDoes DEF Pcs
  <2>5. CASE GoOn(t, snap[t], Settled(t))
    BY <2>1, <2>2, <2>5, GoOnDoes
  <2>6. CASE GoOn(t, snap[t], mem[t].now)
    BY <2>1, <2>2, <2>6, GoOnDoes
  <2> QED
    BY <1>6, <2>3, <2>4, <2>5, <2>6, ReadLedgerDoes
<1>7. ASSUME NEW t \in Ticks, MarkReconciled(t) PROVE (LocalTyped /\ Chosen)'
  <2>1. pc[t] \in Planned /\ phase[t] < 6
    BY <1>7 DEF MarkReconciled, Planned, Chosen
  <2>2. Settled(t) \in Records /\ After(t) \in Snaps /\ snap[t] \in Snaps
        /\ mem[t].now \in Records
    BY <2>1, AsksTyped DEF LocalTyped
  <2> QED
    BY <1>7, <2>1, <2>2, GoOnDoes DEF MarkReconciled
<1>8. ASSUME NEW t \in Ticks, NoteRunning(t) PROVE (LocalTyped /\ Chosen)'
  <2>1. pc[t] \in Planned /\ phase[t] < 6
    BY <1>8 DEF NoteRunning, Planned, Chosen
  <2> QED
    BY <1>8, <2>1, GotoDoes DEF NoteRunning, Pcs
<1>9. ASSUME NEW t \in Ticks, CallAnswered(t) PROVE (LocalTyped /\ Chosen)'
  <2>1. pc[t] \in Planned /\ phase[t] < 6
    BY <1>9 DEF CallAnswered, Planned, Chosen
  <2> QED
    BY <1>9, <2>1, GotoDoes DEF CallAnswered, Pcs
<1>10. ASSUME NEW t \in Ticks, CallRefused(t) PROVE (LocalTyped /\ Chosen)'
  <2>1. pc[t] \in Planned /\ phase[t] < 6
    BY <1>10 DEF CallRefused, Planned, Chosen
  <2> QED
    BY <1>10, <2>1, GotoDoes DEF CallRefused, Pcs
<1>11. ASSUME NEW t \in Ticks, CallUnanswered(t) PROVE (LocalTyped /\ Chosen)'
  <2>1. pc[t] \in Planned /\ phase[t] < 6
    BY <1>11 DEF CallUnanswered, Planned, Chosen
  <2> QED
    BY <1>11, <2>1, GotoDoes DEF CallUnanswered, Pcs
<1>12. ASSUME NEW t \in Ticks, MarkDone(t) PROVE (LocalTyped /\ Chosen)'
  <2>1. pc[t] \in Planned /\ phase[t] < 6
    BY <1>12 DEF MarkDone, Planned, Chosen
  <2>2. Settled(t) \in Records /\ After(t) \in Snaps /\ snap[t] \in Snaps
        /\ mem[t].now \in Records
    BY <2>1, AsksTyped DEF LocalTyped
  <2> QED
    BY <1>12, <2>1, <2>2, GoOnDoes DEF MarkDone
<1>13. ASSUME NEW t \in Ticks, MarkDoneFails(t) PROVE (LocalTyped /\ Chosen)'
  <2>1. pc[t] \in Planned /\ phase[t] < 6
    BY <1>13 DEF MarkDoneFails, Planned, Chosen
  <2> QED
    BY <1>13, <2>1, GotoDoes DEF MarkDoneFails, Pcs
<1>14. ASSUME NEW t \in Ticks, MarkUncertain(t) PROVE (LocalTyped /\ Chosen)'
  <2>1. pc[t] \in Planned /\ phase[t] < 6
    BY <1>14 DEF MarkUncertain, Planned, Chosen
  <2>2. Settled(t) \in Records /\ After(t) \in Snaps /\ snap[t] \in Snaps
        /\ mem[t].now \in Records
    BY <2>1, AsksTyped DEF LocalTyped
  <2> QED
    BY <1>14, <2>1, <2>2, GoOnDoes DEF MarkUncertain
<1>15. ASSUME NEW t \in Ticks, SaveState(t) PROVE (LocalTyped /\ Chosen)'
  BY <1>15, LeaveDoes DEF SaveState, Pcs, Planned
<1>16. ASSUME NEW t \in Ticks, Unlock(t) PROVE (LocalTyped /\ Chosen)'
  BY <1>16, LeaveDoes DEF Unlock, Over, Pcs, Planned
<1>17. ASSUME NEW t \in Ticks, Throw(t) PROVE (LocalTyped /\ Chosen)'
  BY <1>17, LeaveDoes DEF Throw, Pcs, Planned
<1>18. ASSUME NEW t \in Ticks, Stop(t) PROVE (LocalTyped /\ Chosen)'
  BY <1>18, LeaveDoes DEF Stop, Over, Pcs, Planned
<1>19. ASSUME UNCHANGED <<pc, phase, snap, mem>> PROVE (LocalTyped /\ Chosen)'
  BY <1>19 DEF LocalTyped, Chosen, At
<1>20. ASSUME LockExpires
      PROVE  (LocalTyped /\ Chosen)'
  BY <1>19, <1>20 DEF LockExpires, broker, redis, local, ghosts
<1>21. ASSUME OperatorMoves
      PROVE  (LocalTyped /\ Chosen)'
  BY <1>19, <1>21 DEF OperatorMoves, broker, redis, local, ghosts
<1>22. ASSUME NEW q \in late,
             LateActs(q) \/ LateIsDropped(q)
      PROVE  (LocalTyped /\ Chosen)'
  BY <1>19, <1>22 DEF LateActs, LateIsDropped, broker, redis, local, ghosts
<1>23. ASSUME UNCHANGED vars PROVE (LocalTyped /\ Chosen)'
  BY <1>19, <1>23 DEF vars, broker, redis, local, ghosts
<1> QED
  BY <1>1, <1>2, <1>3, <1>4, <1>5, <1>6, <1>7, <1>8, <1>9, <1>10, <1>11, <1>12, <1>13,
     <1>14, <1>15, <1>16, <1>17, <1>18, <1>19, <1>20, <1>21, <1>22, <1>23 DEF Next, Pass

LEMMA PutTyped ==
    ASSUME RedisTyped, NEW key \in Keys, NEW e \in Entries, Put(key, e)
    PROVE  /\ DOMAIN ledger' = DOMAIN ledger \cup {key} /\ DOMAIN ledger' \subseteq Keys
           /\ \A k \in DOMAIN ledger' : ledger'[k] = (IF k = key THEN e ELSE ledger[k])
           /\ \A k \in DOMAIN ledger' : ledger'[k] \in Entries
  BY DEF Put, RedisTyped

LEMMA EntryTyped ==
    ASSUME RedisTyped, LocalTyped, NEW t \in Ticks, CutOf(t) \in Nat
    PROVE  /\ \A st \in {"running", "done", "uncertain"} :
                  EntryOf(t, st) \in Entries /\ EntryOf(t, st).st = st
           /\ [Entry(KeyOf(t)) EXCEPT !.st = "done"] \in Entries
           /\ [Entry(KeyOf(t)) EXCEPT !.st = "done"].st = "done"
<1>1. snap[t].vol \in Nat
  BY ManagerAssumption DEF LocalTyped, Snaps
<1>2. \A st \in {"running", "done", "uncertain"} :
          EntryOf(t, st) \in Entries /\ EntryOf(t, st).st = st
  BY <1>1 DEF EntryOf, Entries
<1>3. Entry(KeyOf(t)) \in Entries
  BY DEF Entry, NoEntry, Entries, RedisTyped
<1> QED
  BY <1>2, <1>3 DEF Entries

\* So do the record, the ledger and the lock.
LEMMA RedisStep ==
    ASSUME RedisTyped, LocalTyped, Chosen, [Next]_vars
    PROVE  RedisTyped'
<1>1. ASSUME NEW t \in Ticks, NEW arms \in BOOLEAN, Acquire(t, arms) PROVE RedisTyped'
  BY <1>1 DEF Acquire, RedisTyped
<1>2. ASSUME NEW t \in Ticks, CreateState(t) PROVE RedisTyped'
  <2>1. [NoRecord EXCEPT !.orig = snap[t].vol] \in Records
    BY ManagerAssumption DEF NoRecord, Records, LocalTyped, Snaps
  <2> QED
    BY <1>2, <2>1 DEF CreateState, RedisTyped
<1>3. ASSUME NEW t \in Ticks, MarkReconciled(t) PROVE RedisTyped'
  <2>1. pc[t] \in Planned /\ phase[t] < 6
    BY <1>3 DEF MarkReconciled, Planned, Chosen
  <2>2. KeyOf(t) \in Keys /\ [Entry(KeyOf(t)) EXCEPT !.st = "done"] \in Entries
    BY <2>1, AsksTyped, EntryTyped
  <2> QED
    BY <1>3, <2>2, PutTyped DEF MarkReconciled, RedisTyped
<1>4. ASSUME NEW t \in Ticks, NoteRunning(t) PROVE RedisTyped'
  <2>1. pc[t] \in Planned /\ phase[t] < 6
    BY <1>4 DEF NoteRunning, Planned, Chosen
  <2>2. KeyOf(t) \in Keys /\ EntryOf(t, "running") \in Entries
    BY <2>1, AsksTyped, EntryTyped
  <2> QED
    BY <1>4, <2>2, PutTyped DEF NoteRunning, RedisTyped
<1>5. ASSUME NEW t \in Ticks, MarkDone(t) PROVE RedisTyped'
  <2>1. pc[t] \in Planned /\ phase[t] < 6
    BY <1>5 DEF MarkDone, Planned, Chosen
  <2>2. KeyOf(t) \in Keys /\ EntryOf(t, "done") \in Entries
    BY <2>1, AsksTyped, EntryTyped
  <2> QED
    BY <1>5, <2>2, PutTyped DEF MarkDone, RedisTyped
<1>6. ASSUME NEW t \in Ticks, MarkUncertain(t) PROVE RedisTyped'
  <2>1. pc[t] \in Planned /\ phase[t] < 6
    BY <1>6 DEF MarkUncertain, Planned, Chosen
  <2>2. KeyOf(t) \in Keys /\ EntryOf(t, "uncertain") \in Entries
    BY <2>1, AsksTyped, EntryTyped
  <2> QED
    BY <1>6, <2>2, PutTyped DEF MarkUncertain, RedisTyped
<1>7. ASSUME NEW t \in Ticks, SaveState(t) PROVE RedisTyped'
  BY <1>7 DEF SaveState, RedisTyped, LocalTyped
<1>8. ASSUME NEW t \in Ticks, Unlock(t) PROVE RedisTyped'
  BY <1>8 DEF Unlock, RedisTyped
<1>9. ASSUME LockExpires PROVE RedisTyped'
  BY <1>9 DEF LockExpires, RedisTyped
<1>10. ASSUME UNCHANGED <<rec, ledger, lock>> PROVE RedisTyped'
  BY <1>10 DEF RedisTyped
<1>11. ASSUME NEW t \in Ticks,
             Snapshot(t) \/ LoadState(t) \/ Skip(t) \/ ReadLedger(t) \/ CallAnswered(t) \/
             CallRefused(t) \/ CallUnanswered(t) \/ MarkDoneFails(t) \/ Throw(t) \/
             Stop(t)
      PROVE  RedisTyped'
  BY <1>10, <1>11 DEF Snapshot, LoadState, Skip, ReadLedger, CallAnswered, CallRefused,
     CallUnanswered, MarkDoneFails, Throw, Stop, broker, redis, local, ghosts
<1>12. ASSUME OperatorMoves
      PROVE  RedisTyped'
  BY <1>10, <1>12 DEF OperatorMoves, broker, redis, local, ghosts
<1>13. ASSUME NEW q \in late,
             LateActs(q) \/ LateIsDropped(q)
      PROVE  RedisTyped'
  BY <1>10, <1>13 DEF LateActs, LateIsDropped, broker, redis, local, ghosts
<1>14. ASSUME UNCHANGED vars PROVE RedisTyped'
  BY <1>10, <1>14 DEF vars, broker, redis, local, ghosts
<1> QED
  BY <1>1, <1>2, <1>3, <1>4, <1>5, <1>6, <1>7, <1>8, <1>9, <1>10, <1>11, <1>12, <1>13,
     <1>14 DEF Next, Pass

LEMMA PositionMoves ==
    ASSUME pos \in Positions, NEW v \in 0 .. Volume, NEW a \in Nat
    PROVE  /\ [pos EXCEPT !.vol = v, !.at = a] \in Positions
           /\ [pos EXCEPT !.stop = 0, !.at = a] \in Positions
           /\ [pos EXCEPT !.stop = 3, !.at = a] \in Positions
           /\ [pos EXCEPT !.take = 0, !.at = a] \in Positions
<1>1. 0 \in Stops /\ 3 \in Stops /\ 0 \in Takes
  BY DEF Stops, Takes
<1>2. [pos EXCEPT !.vol = v, !.at = a] \in Positions
  BY DEF Positions
<1>3. [pos EXCEPT !.stop = 0, !.at = a] \in Positions
  BY <1>1 DEF Positions
<1>4. [pos EXCEPT !.stop = 3, !.at = a] \in Positions
  BY <1>1 DEF Positions
<1>5. [pos EXCEPT !.take = 0, !.at = a] \in Positions
  BY <1>1 DEF Positions
<1> QED
  BY <1>2, <1>3, <1>4, <1>5


\* What the broker makes of a request: a close takes its volume and is counted.
LEMMA ActsTyped ==
    ASSUME BrokerTyped, NEW q \in Requests, Acts(q)
    PROVE  /\ pos' \in Positions /\ q.req <= pos.vol
           /\ pos'.vol = IF IsClose(q.key[1]) THEN pos.vol - q.req ELSE pos.vol
           /\ DOMAIN cuts' \subseteq DOMAIN cuts \cup {q.key} /\ DOMAIN cuts \subseteq DOMAIN cuts'
           /\ IsClose(q.key[1]) => q.key \in DOMAIN cuts'
           /\ \A k \in DOMAIN cuts' :
                  cuts'[k] = IF k \notin DOMAIN cuts THEN 1
                             ELSE IF IsClose(q.key[1]) /\ k = q.key THEN cuts[k] + 1 ELSE cuts[k]
           /\ DOMAIN cuts' \subseteq Keys /\ \A k \in DOMAIN cuts' : cuts'[k] \in Nat
<1>1. /\ pos \in Positions /\ pos.vol \in Nat /\ pos.vol <= Volume /\ pos.at \in Nat
      /\ q.req \in Nat /\ q.key \in Keys /\ q.stop \in Stops /\ q.take \in Takes
  BY ManagerAssumption DEF BrokerTyped, Positions, Requests
<1>2. q.req <= pos.vol
  BY DEF Acts, Possible
<1>3. CASE IsClose(q.key[1])
  <2>1. /\ pos' = [pos EXCEPT !.vol = pos.vol - q.req, !.at = pos.at + 1]
        /\ cuts' = [k \in DOMAIN cuts \cup {q.key} |->
                       IF k \notin DOMAIN cuts THEN 1
                       ELSE IF k = q.key THEN cuts[k] + 1 ELSE cuts[k]]
    BY <1>3 DEF Acts
  <2>2. pos.vol - q.req \in 0 .. Volume
    BY <1>1, <1>2, ManagerAssumption
  <2>a. PICK a \in Nat : a = pos.at + 1
    BY <1>1
  <2>v. PICK v \in 0 .. Volume : v = pos.vol - q.req
    BY <2>2
  <2>3. pos' \in Positions /\ pos'.vol = pos.vol - q.req
    <3>1. pos' = [pos EXCEPT !.vol = v, !.at = a]
      BY <2>1, <2>a, <2>v
    <3>2. pos' \in Positions /\ pos'.vol = v
      BY <1>1, <3>1 DEF Positions
    <3> QED
      BY <2>v, <3>2
  <2>4. /\ DOMAIN cuts' = DOMAIN cuts \cup {q.key}
        /\ \A k \in DOMAIN cuts' :
               cuts'[k] = IF k \notin DOMAIN cuts THEN 1
                          ELSE IF k = q.key THEN cuts[k] + 1 ELSE cuts[k]
    BY <2>1
  <2>5. DOMAIN cuts' \subseteq Keys /\ \A k \in DOMAIN cuts' : cuts'[k] \in Nat
    BY <1>1, <2>4 DEF BrokerTyped
  <2> QED
    BY <1>2, <1>3, <2>3, <2>4, <2>5
<1>4. CASE ~IsClose(q.key[1])
  <2> DEFINE k1 == IF q.take > 0 THEN q.take ELSE pos.take
  <2>1. /\ pos' = [pos EXCEPT !.stop = q.stop, !.at = pos.at + 1, !.take = k1]
        /\ cuts' = cuts
    BY <1>4 DEF Acts
  <2>2. k1 \in Takes
    BY <1>1 DEF Positions
  <2> HIDE DEF k1
  <2>a. PICK a \in Nat : a = pos.at + 1
    BY <1>1
  <2>3. pos' \in Positions /\ pos'.vol = pos.vol
    <3>1. pos' = [pos EXCEPT !.stop = q.stop, !.at = a, !.take = k1]
      BY <2>1, <2>a
    <3> QED
      BY <1>1, <2>2, <3>1 DEF Positions
  <2> QED
    BY <1>2, <1>4, <2>1, <2>3 DEF BrokerTyped
<1> QED
  BY <1>3, <1>4

\* The broker's side keeps its types.
LEMMA BrokerStep ==
    ASSUME BrokerTyped, LocalTyped, Chosen, [Next]_vars
    PROVE  BrokerTyped'
<1>1. ASSUME NEW t \in Ticks, CallAnswered(t) PROVE BrokerTyped'
  <2>1. pc[t] \in Planned /\ phase[t] < 6
    BY <1>1 DEF CallAnswered, Planned, Chosen
  <2>2. RequestOf(t) \in Requests
    BY <2>1, AsksTyped
  <2> QED
    BY <1>1, <2>2, ActsTyped DEF CallAnswered, BrokerTyped
<1>2. ASSUME NEW t \in Ticks, CallUnanswered(t) PROVE BrokerTyped'
  <2>1. pc[t] \in Planned /\ phase[t] < 6
    BY <1>2 DEF CallUnanswered, Planned, Chosen
  <2>2. RequestOf(t) \in Requests
    BY <2>1, AsksTyped
  <2> QED
    BY <1>2, <2>2 DEF CallUnanswered, BrokerTyped
<1>3. ASSUME OperatorMoves PROVE BrokerTyped'
  <2>1. pos \in Positions /\ pos.vol > 0
    BY <1>3 DEF OperatorMoves, BrokerTyped
  <2>2. pos.vol - 1 \in 0 .. Volume /\ 0 \in 0 .. Volume
    BY <2>1, ManagerAssumption DEF Positions
  <2>a. PICK a \in Nat : a = pos.at + 1
    BY <2>1 DEF Positions
  <2>3. pos' \in Positions
    <3> DEFINE b == pos.at + 1
               w == pos.vol - 1
    <3>1. \/ pos' = [pos EXCEPT !.vol = w, !.at = b]
          \/ pos' = [pos EXCEPT !.vol = 0, !.at = b]
          \/ pos' = [pos EXCEPT !.stop = 0, !.at = b]
          \/ pos' = [pos EXCEPT !.stop = 3, !.at = b]
          \/ pos' = [pos EXCEPT !.take = 0, !.at = b]
      BY <1>3 DEF OperatorMoves
    <3>2. b \in Nat /\ w \in 0 .. Volume
      BY <2>2, <2>a
    <3> HIDE DEF b, w
    <3> QED
      BY <2>1, <2>2, <3>1, <3>2, PositionMoves
  <2> QED
    BY <1>3, <2>3 DEF OperatorMoves, BrokerTyped
<1>4. ASSUME NEW q \in late, LateActs(q) PROVE BrokerTyped'
  <2>1. q \in Requests
    BY DEF BrokerTyped
  <2> QED
    BY <1>4, <2>1, ActsTyped DEF LateActs, BrokerTyped
<1>5. ASSUME NEW q \in late, LateIsDropped(q) PROVE BrokerTyped'
  BY <1>5 DEF LateIsDropped, BrokerTyped
<1>6. ASSUME UNCHANGED <<pos, late, cuts>> PROVE BrokerTyped'
  BY <1>6 DEF BrokerTyped
<1>7. ASSUME NEW t \in Ticks, NEW arms \in BOOLEAN, Acquire(t, arms)
      PROVE  BrokerTyped'
  BY <1>6, <1>7 DEF Acquire, broker, redis, local, ghosts
<1>8. ASSUME NEW t \in Ticks,
             Snapshot(t) \/ LoadState(t) \/ CreateState(t) \/ Skip(t) \/ ReadLedger(t) \/
             MarkReconciled(t) \/ NoteRunning(t) \/ CallRefused(t) \/ MarkDone(t) \/
             MarkDoneFails(t) \/ MarkUncertain(t) \/ SaveState(t) \/ Unlock(t) \/ Throw(t)
             \/ Stop(t)
      PROVE  BrokerTyped'
  BY <1>6, <1>8 DEF Snapshot, LoadState, CreateState, Skip, ReadLedger, MarkReconciled,
     NoteRunning, CallRefused, MarkDone, MarkDoneFails, MarkUncertain, SaveState, Unlock,
     Throw, Stop, broker, redis, local, ghosts
<1>9. ASSUME LockExpires
      PROVE  BrokerTyped'
  BY <1>6, <1>9 DEF LockExpires, broker, redis, local, ghosts
<1>10. ASSUME UNCHANGED vars PROVE BrokerTyped'
  BY <1>6, <1>10 DEF vars, broker, redis, local, ghosts
<1> QED
  BY <1>1, <1>2, <1>3, <1>4, <1>5, <1>6, <1>7, <1>8, <1>9, <1>10 DEF Next, Pass

LEMMA FaultTyped ==
    ASSUME RestTyped, Fault
    PROVE  faults' \in 0 .. MaxFaults
<1>1. faults \in 0 .. MaxFaults /\ faults < MaxFaults /\ faults' = faults + 1
  BY DEF Fault, RestTyped
<1> QED
  BY <1>1, ManagerAssumption

\* And the bookkeeping.
LEMMA RestStep ==
    ASSUME RestTyped, [Next]_vars
    PROVE  RestTyped'
<1>1. ASSUME NEW t \in Ticks, NEW arms \in BOOLEAN, Acquire(t, arms) PROVE RestTyped'
  <2>1. asked' \in Ticks \cup {NoTick, "waiting"}
    BY <1>1 DEF Acquire, RestTyped
  <2>2. raced' \in BOOLEAN
    BY <1>1 DEF Acquire
  <2> QED
    BY <1>1, <2>1, <2>2 DEF Acquire, RestTyped
<1>2. ASSUME NEW t \in Ticks, CallRefused(t) PROVE RestTyped'
  <2>1. faults' \in 0 .. MaxFaults
    BY <1>2, FaultTyped DEF CallRefused, RestTyped
  <2>2. blind' \in BOOLEAN
    BY <1>2 DEF CallRefused, ghosts, RestTyped
  <2>3. UNCHANGED <<asked, raced, moves>>
    BY <1>2 DEF CallRefused, ghosts
  <2> QED
    BY <2>1, <2>2, <2>3 DEF RestTyped
<1>3. ASSUME NEW t \in Ticks, CallUnanswered(t) PROVE RestTyped'
  <2>1. faults' \in 0 .. MaxFaults
    BY <1>3, FaultTyped DEF CallUnanswered, RestTyped
  <2>2. blind' \in BOOLEAN
    BY <1>3 DEF CallUnanswered, ghosts, RestTyped
  <2>3. UNCHANGED <<asked, raced, moves>>
    BY <1>3 DEF CallUnanswered, ghosts
  <2> QED
    BY <2>1, <2>2, <2>3 DEF RestTyped
<1>4. ASSUME NEW t \in Ticks, MarkDoneFails(t) PROVE RestTyped'
  <2>1. faults' \in 0 .. MaxFaults
    BY <1>4, FaultTyped DEF MarkDoneFails, RestTyped
  <2>2. blind' \in BOOLEAN
    BY <1>4 DEF MarkDoneFails, ghosts, RestTyped
  <2>3. UNCHANGED <<asked, raced, moves>>
    BY <1>4 DEF MarkDoneFails, ghosts
  <2> QED
    BY <2>1, <2>2, <2>3 DEF RestTyped
<1>5. ASSUME NEW t \in Ticks, Unlock(t) PROVE RestTyped'
  <2>1. faults' \in 0 .. MaxFaults
    BY <1>5, FaultTyped DEF Unlock, RestTyped
  <2>2. asked' \in Ticks \cup {NoTick, "waiting"}
    BY <1>5 DEF Unlock, Over, RestTyped
  <2>3. UNCHANGED <<raced, blind, moves>>
    BY <1>5 DEF Unlock, ghosts
  <2> QED
    BY <2>1, <2>2, <2>3 DEF RestTyped
<1>6. ASSUME NEW t \in Ticks, Throw(t) PROVE RestTyped'
  <2>1. faults' \in 0 .. MaxFaults
    BY <1>6, FaultTyped DEF Throw, RestTyped
  <2>2. blind' \in BOOLEAN
    BY <1>6 DEF Throw, ghosts, RestTyped
  <2>3. UNCHANGED <<asked, raced, moves>>
    BY <1>6 DEF Throw, ghosts
  <2> QED
    BY <2>1, <2>2, <2>3 DEF RestTyped
<1>7. ASSUME NEW t \in Ticks, Stop(t) PROVE RestTyped'
  <2>1. faults' \in 0 .. MaxFaults
    BY <1>7, FaultTyped DEF Stop, RestTyped
  <2>2. asked' \in Ticks \cup {NoTick, "waiting"}
    BY <1>7 DEF Stop, Over, RestTyped
  <2>3. UNCHANGED <<raced, blind, moves>>
    BY <1>7 DEF Stop, ghosts
  <2> QED
    BY <2>1, <2>2, <2>3 DEF RestTyped
<1>8. ASSUME LockExpires PROVE RestTyped'
  <2>1. faults' \in 0 .. MaxFaults
    BY <1>8, FaultTyped DEF LockExpires, RestTyped
  <2>2. blind' \in BOOLEAN
    BY <1>8 DEF LockExpires, ghosts, RestTyped
  <2>3. UNCHANGED <<asked, raced, moves>>
    BY <1>8 DEF LockExpires, ghosts
  <2> QED
    BY <2>1, <2>2, <2>3 DEF RestTyped
<1>9. ASSUME OperatorMoves PROVE RestTyped'
  <2>1. moves' \in 0 .. MaxMoves
    BY <1>9, ManagerAssumption DEF OperatorMoves, RestTyped
  <2> QED
    BY <1>9, <2>1 DEF OperatorMoves, RestTyped, ghosts
<1>10. ASSUME UNCHANGED <<asked, raced, blind, moves, faults>> PROVE RestTyped'
  BY <1>10 DEF RestTyped
<1>11. ASSUME NEW t \in Ticks,
             Snapshot(t) \/ LoadState(t) \/ CreateState(t) \/ Skip(t) \/ ReadLedger(t) \/
             MarkReconciled(t) \/ NoteRunning(t) \/ CallAnswered(t) \/ MarkDone(t) \/
             MarkUncertain(t) \/ SaveState(t)
      PROVE  RestTyped'
  BY <1>10, <1>11 DEF Snapshot, LoadState, CreateState, Skip, ReadLedger, MarkReconciled,
     NoteRunning, CallAnswered, MarkDone, MarkUncertain, SaveState, broker, redis, local,
     ghosts
<1>12. ASSUME NEW q \in late,
             LateActs(q) \/ LateIsDropped(q)
      PROVE  RestTyped'
  BY <1>10, <1>12 DEF LateActs, LateIsDropped, broker, redis, local, ghosts
<1>13. ASSUME UNCHANGED vars PROVE RestTyped'
  BY <1>10, <1>13 DEF vars, broker, redis, local, ghosts
<1> QED
  BY <1>1, <1>2, <1>3, <1>4, <1>5, <1>6, <1>7, <1>8, <1>9, <1>10, <1>11, <1>12, <1>13 DEF
     Next, Pass

-----------------------------------------------------------------------------
(* One pass at a time, one call for a key *)

\* Most steps of a pass neither note nor ask, and take no entry away.
Aside(t) ==
    /\ pc[t] # "idle" /\ raced' = raced /\ late' = late /\ cuts' = cuts
    /\ DOMAIN ledger \subseteq DOMAIN ledger'
    /\ \E to \in Pcs \ {"note", "call"} : pc' = [pc EXCEPT ![t] = to]

LEMMA PutGrows ==
    ASSUME NEW key, NEW e, Put(key, e)
    PROVE  DOMAIN ledger' = DOMAIN ledger \cup {key}
  BY DEF Put

LEMMA Asides ==
    ASSUME NEW t \in Ticks,
           Snapshot(t) \/ LoadState(t) \/ CreateState(t) \/ Skip(t) \/ MarkReconciled(t)
           \/ CallRefused(t) \/ MarkDone(t) \/ MarkDoneFails(t) \/ MarkUncertain(t)
           \/ SaveState(t) \/ Unlock(t) \/ Throw(t) \/ Stop(t)
    PROVE  Aside(t)
<1>1. ASSUME Snapshot(t) PROVE Aside(t)
  BY <1>1 DEF Snapshot, Aside, Leave, Goto, GoOn, Begin, Over, Pcs, broker, redis, ghosts
<1>2. ASSUME LoadState(t) PROVE Aside(t)
  BY <1>2 DEF LoadState, Aside, Leave, Goto, GoOn, Begin, Over, Pcs, broker, redis, ghosts
<1>3. ASSUME CreateState(t) PROVE Aside(t)
  BY <1>3 DEF CreateState, Aside, Leave, Goto, GoOn, Begin, Over, Pcs, broker, redis, ghosts
<1>4. ASSUME Skip(t) PROVE Aside(t)
  BY <1>4 DEF Skip, Aside, Leave, Goto, GoOn, Begin, Over, Pcs, broker, redis, ghosts
<1>5. ASSUME MarkReconciled(t) PROVE Aside(t)
  <2>1. DOMAIN ledger \subseteq DOMAIN ledger'
    BY <1>5, PutGrows DEF MarkReconciled
  <2> QED
    BY <1>5, <2>1 DEF MarkReconciled, Aside, GoOn, Pcs, broker, ghosts
<1>6. ASSUME CallRefused(t) PROVE Aside(t)
  BY <1>6 DEF CallRefused, Aside, Leave, Goto, GoOn, Begin, Over, Pcs, broker, redis, ghosts
<1>7. ASSUME MarkDone(t) PROVE Aside(t)
  <2>1. DOMAIN ledger \subseteq DOMAIN ledger'
    BY <1>7, PutGrows DEF MarkDone
  <2> QED
    BY <1>7, <2>1 DEF MarkDone, Aside, GoOn, Pcs, broker, ghosts
<1>8. ASSUME MarkDoneFails(t) PROVE Aside(t)
  BY <1>8 DEF MarkDoneFails, Aside, Leave, Goto, GoOn, Begin, Over, Pcs, broker, redis,
     ghosts
<1>9. ASSUME MarkUncertain(t) PROVE Aside(t)
  <2>1. DOMAIN ledger \subseteq DOMAIN ledger'
    BY <1>9, PutGrows DEF MarkUncertain
  <2> QED
    BY <1>9, <2>1 DEF MarkUncertain, Aside, GoOn, Pcs, broker, ghosts
<1>10. ASSUME SaveState(t) PROVE Aside(t)
  BY <1>10 DEF SaveState, Aside, Leave, Goto, GoOn, Begin, Over, Pcs, broker, redis, ghosts
<1>11. ASSUME Unlock(t) PROVE Aside(t)
  BY <1>11 DEF Unlock, Aside, Leave, Goto, GoOn, Begin, Over, Pcs, broker, redis, ghosts
<1>12. ASSUME Throw(t) PROVE Aside(t)
  BY <1>12 DEF Throw, Aside, Leave, Goto, GoOn, Begin, Over, Pcs, broker, redis, ghosts
<1>13. ASSUME Stop(t) PROVE Aside(t)
  BY <1>13 DEF Stop, Aside, Leave, Goto, GoOn, Begin, Over, Pcs, broker, redis, ghosts
<1> QED
  BY <1>1, <1>2, <1>3, <1>4, <1>5, <1>6, <1>7, <1>8, <1>9, <1>10, <1>11, <1>12, <1>13

\* Reading the ledger does as well, unless the entry is not there.
LEMMA ReadsAside ==
    ASSUME NEW t \in Ticks, ReadLedger(t)
    PROVE  \/ Aside(t)
           \/ /\ pc[t] # "idle" /\ pc' = [pc EXCEPT ![t] = "note"] /\ UNCHANGED local
              /\ Entry(KeyOf(t)).st = "none" /\ UNCHANGED <<ledger, late, cuts, raced>>
<1>1. pc[t] = "plan" /\ UNCHANGED <<ledger, late, cuts, raced>>
  BY DEF ReadLedger, redis, broker, ghosts
<1>2. CASE Goto(t, "note") /\ UNCHANGED local /\ Entry(KeyOf(t)).st = "none"
  BY <1>1, <1>2 DEF Goto
<1>3. CASE \E to \in {"mark", "plan"} : pc' = [pc EXCEPT ![t] = to]
  BY <1>1, <1>3 DEF Aside, Pcs
<1>4. \/ Goto(t, "note") /\ UNCHANGED local /\ Entry(KeyOf(t)).st = "none"
      \/ \E to \in {"mark", "plan"} : pc' = [pc EXCEPT ![t] = to]
  BY ReadLedgerDoes DEF Goto, GoOn
<1> QED
  BY <1>2, <1>3, <1>4

LEMMA AloneKept ==
    ASSUME LocalTyped, Alone, NEW t \in Ticks, pc[t] # "idle", raced' = raced,
           NEW to, pc' = [pc EXCEPT ![t] = to]
    PROVE  Alone' /\ (~raced => \A u \in Ticks : u # t => pc[u] = "idle" /\ pc'[u] = "idle")
<1>1. \A u \in Ticks : u # t => pc'[u] = pc[u]
  BY DEF LocalTyped
<1>2. ~raced => \A u \in Ticks : u # t => pc[u] = "idle"
  BY DEF Alone, Inside
<1> QED
  BY <1>1, <1>2 DEF Alone, Inside

LEMMA ClaimedKept ==
    ASSUME LocalTyped, Alone, Claimed, NEW t \in Ticks, Aside(t)
    PROVE  Claimed'
<1>1. PICK to \in Pcs \ {"note", "call"} : pc' = [pc EXCEPT ![t] = to]
  BY DEF Aside
<1>2. /\ raced' = raced /\ late' = late /\ cuts' = cuts
      /\ DOMAIN ledger \subseteq DOMAIN ledger' /\ pc[t] # "idle"
  BY DEF Aside
<1>3. ~raced => \A u \in Ticks : pc'[u] \notin {"note", "call"}
  BY <1>1, <1>2, AloneKept DEF LocalTyped
<1> QED
  BY <1>2, <1>3 DEF Claimed

\* A pass that begins beside another one is the race.
LEMMA AloneStep ==
    ASSUME LocalTyped, Alone, [Next]_vars
    PROVE  Alone'
<1>1. ASSUME NEW t \in Ticks, NEW arms \in BOOLEAN, Acquire(t, arms) PROVE Alone'
  BY <1>1 DEF Acquire, Goto, Alone, Inside, LocalTyped
<1>2. ASSUME NEW t \in Ticks, Aside(t) PROVE Alone'
  BY <1>2, AloneKept DEF Aside
<1>3. ASSUME NEW t \in Ticks, ReadLedger(t) PROVE Alone'
  BY <1>2, <1>3, ReadsAside, AloneKept
<1>4. ASSUME NEW t \in Ticks, NoteRunning(t) PROVE Alone'
  BY <1>4, AloneKept DEF NoteRunning, Goto, ghosts
<1>5. ASSUME NEW t \in Ticks, CallAnswered(t) PROVE Alone'
  BY <1>5, AloneKept DEF CallAnswered, Goto, ghosts
<1>6. ASSUME NEW t \in Ticks, CallUnanswered(t) PROVE Alone'
  BY <1>6, AloneKept DEF CallUnanswered, Goto
<1>7. ASSUME UNCHANGED <<pc, raced>> PROVE Alone'
  BY <1>7 DEF Alone, Inside
<1>8. ASSUME LockExpires \/ OperatorMoves PROVE Alone'
  BY <1>7, <1>8 DEF LockExpires, OperatorMoves, ghosts
<1>9. ASSUME NEW q \in late, LateActs(q) \/ LateIsDropped(q) PROVE Alone'
  BY <1>7, <1>9 DEF LateActs, LateIsDropped, ghosts
<1>10. ASSUME UNCHANGED vars PROVE Alone'
  BY <1>7, <1>10 DEF vars, ghosts
<1> QED
  BY <1>1, <1>2, <1>3, <1>4, <1>5, <1>6, <1>8, <1>9, <1>10, Asides DEF Next, Pass

\* An entry is written with its outcome.
LEMMA NotedStep ==
    ASSUME RedisTyped, LocalTyped, Chosen, Noted, [Next]_vars
    PROVE  Noted'
<1>1. ASSUME NEW t \in Ticks, MarkReconciled(t) PROVE Noted'
  <2> DEFINE e == [Entry(KeyOf(t)) EXCEPT !.st = "done"]
  <2>1. pc[t] \in Planned /\ phase[t] < 6
    BY <1>1 DEF MarkReconciled, Planned, Chosen
  <2>2. KeyOf(t) \in Keys /\ e \in Entries /\ e.st # "none"
    BY <2>1, AsksTyped, EntryTyped
  <2>3. Put(KeyOf(t), e)
    BY <1>1 DEF MarkReconciled
  <2> HIDE DEF e
  <2>4. /\ DOMAIN ledger' = DOMAIN ledger \cup {KeyOf(t)}
        /\ \A k \in DOMAIN ledger' : ledger'[k] = (IF k = KeyOf(t) THEN e ELSE ledger[k])
    BY <2>2, <2>3, PutTyped
  <2> QED
    BY <2>2, <2>4 DEF Noted
<1>2. ASSUME NEW t \in Ticks, NoteRunning(t) PROVE Noted'
  <2> DEFINE e == EntryOf(t, "running")
  <2>1. pc[t] \in Planned /\ phase[t] < 6
    BY <1>2 DEF NoteRunning, Planned, Chosen
  <2>2. KeyOf(t) \in Keys /\ e \in Entries /\ e.st # "none"
    BY <2>1, AsksTyped, EntryTyped
  <2>3. Put(KeyOf(t), e)
    BY <1>2 DEF NoteRunning
  <2> HIDE DEF e
  <2>4. /\ DOMAIN ledger' = DOMAIN ledger \cup {KeyOf(t)}
        /\ \A k \in DOMAIN ledger' : ledger'[k] = (IF k = KeyOf(t) THEN e ELSE ledger[k])
    BY <2>2, <2>3, PutTyped
  <2> QED
    BY <2>2, <2>4 DEF Noted
<1>3. ASSUME NEW t \in Ticks, MarkDone(t) PROVE Noted'
  <2> DEFINE e == EntryOf(t, "done")
  <2>1. pc[t] \in Planned /\ phase[t] < 6
    BY <1>3 DEF MarkDone, Planned, Chosen
  <2>2. KeyOf(t) \in Keys /\ e \in Entries /\ e.st # "none"
    BY <2>1, AsksTyped, EntryTyped
  <2>3. Put(KeyOf(t), e)
    BY <1>3 DEF MarkDone
  <2> HIDE DEF e
  <2>4. /\ DOMAIN ledger' = DOMAIN ledger \cup {KeyOf(t)}
        /\ \A k \in DOMAIN ledger' : ledger'[k] = (IF k = KeyOf(t) THEN e ELSE ledger[k])
    BY <2>2, <2>3, PutTyped
  <2> QED
    BY <2>2, <2>4 DEF Noted
<1>4. ASSUME NEW t \in Ticks, MarkUncertain(t) PROVE Noted'
  <2> DEFINE e == EntryOf(t, "uncertain")
  <2>1. pc[t] \in Planned /\ phase[t] < 6
    BY <1>4 DEF MarkUncertain, Planned, Chosen
  <2>2. KeyOf(t) \in Keys /\ e \in Entries /\ e.st # "none"
    BY <2>1, AsksTyped, EntryTyped
  <2>3. Put(KeyOf(t), e)
    BY <1>4 DEF MarkUncertain
  <2> HIDE DEF e
  <2>4. /\ DOMAIN ledger' = DOMAIN ledger \cup {KeyOf(t)}
        /\ \A k \in DOMAIN ledger' : ledger'[k] = (IF k = KeyOf(t) THEN e ELSE ledger[k])
    BY <2>2, <2>3, PutTyped
  <2> QED
    BY <2>2, <2>4 DEF Noted
<1>5. ASSUME UNCHANGED <<ledger>> PROVE Noted'
  BY <1>5 DEF Noted
<1>6. ASSUME NEW t \in Ticks, NEW arms \in BOOLEAN, Acquire(t, arms)
      PROVE  Noted'
  BY <1>5, <1>6 DEF Acquire, broker, redis, local, ghosts
<1>7. ASSUME NEW t \in Ticks,
             Snapshot(t) \/ LoadState(t) \/ CreateState(t) \/ Skip(t) \/ ReadLedger(t) \/
             CallAnswered(t) \/ CallRefused(t) \/ CallUnanswered(t) \/ MarkDoneFails(t) \/
             SaveState(t) \/ Unlock(t) \/ Throw(t) \/ Stop(t)
      PROVE  Noted'
  BY <1>5, <1>7 DEF Snapshot, LoadState, CreateState, Skip, ReadLedger, CallAnswered,
     CallRefused, CallUnanswered, MarkDoneFails, SaveState, Unlock, Throw, Stop, broker,
     redis, local, ghosts
<1>8. ASSUME LockExpires
      PROVE  Noted'
  BY <1>5, <1>8 DEF LockExpires, broker, redis, local, ghosts
<1>9. ASSUME OperatorMoves
      PROVE  Noted'
  BY <1>5, <1>9 DEF OperatorMoves, broker, redis, local, ghosts
<1>10. ASSUME NEW q \in late,
             LateActs(q) \/ LateIsDropped(q)
      PROVE  Noted'
  BY <1>5, <1>10 DEF LateActs, LateIsDropped, broker, redis, local, ghosts
<1>11. ASSUME UNCHANGED vars PROVE Noted'
  BY <1>5, <1>11 DEF vars, broker, redis, local, ghosts
<1> QED
  BY <1>1, <1>2, <1>3, <1>4, <1>5, <1>6, <1>7, <1>8, <1>9, <1>10, <1>11 DEF Next, Pass

\* The key is noted between the look at the ledger and the call, and the call's
\* close is made once: by the answer, or by the late request it leaves behind.
LEMMA ClaimedStep ==
    ASSUME BrokerTyped, RedisTyped, LocalTyped, Chosen, Noted, Alone, Claimed, [Next]_vars
    PROVE  Claimed'
<1>1. ASSUME NEW t \in Ticks, NEW arms \in BOOLEAN, Acquire(t, arms) PROVE Claimed'
  <2>1. /\ pc' = [pc EXCEPT ![t] = "snapshot"] /\ UNCHANGED <<ledger, late, cuts>>
        /\ raced' = (raced \/ Inside # {})
    BY <1>1 DEF Acquire, Goto, broker
  <2>2. ~raced' => \A u \in Ticks : pc'[u] \notin {"note", "call"}
    BY <2>1 DEF Inside, LocalTyped
  <2> QED
    BY <2>1, <2>2 DEF Claimed
<1>2. ASSUME NEW t \in Ticks, Aside(t) PROVE Claimed'
  BY <1>2, ClaimedKept
<1>3. ASSUME NEW t \in Ticks, ReadLedger(t) PROVE Claimed'
  <2>1. CASE Aside(t)
    BY <1>2, <2>1
  <2>2. CASE /\ pc[t] # "idle" /\ pc' = [pc EXCEPT ![t] = "note"] /\ UNCHANGED local
             /\ Entry(KeyOf(t)).st = "none" /\ UNCHANGED <<ledger, late, cuts, raced>>
    <3>1. KeyOf(t) \notin DOMAIN ledger
      BY <2>2 DEF Entry, Noted
    <3>2. KeyOf(t)' = KeyOf(t)
      BY <2>2, KeyStays
    <3>3. /\ pc'[t] = "note"
          /\ ~raced => \A u \in Ticks : u # t => pc'[u] = "idle"
      BY <2>2, AloneKept DEF LocalTyped
    <3> QED
      BY <2>2, <3>1, <3>2, <3>3 DEF Claimed
  <2> QED
    BY <1>3, <2>1, <2>2, ReadsAside
<1>4. ASSUME NEW t \in Ticks, NoteRunning(t) PROVE Claimed'
  <2>1. /\ pc[t] = "note" /\ pc' = [pc EXCEPT ![t] = "call"] /\ UNCHANGED local
        /\ UNCHANGED <<late, cuts, raced>>
    BY <1>4 DEF NoteRunning, Goto, broker, ghosts
  <2>2. DOMAIN ledger' = DOMAIN ledger \cup {KeyOf(t)}
    BY <1>4, PutGrows DEF NoteRunning
  <2>3. KeyOf(t)' = KeyOf(t)
    BY <2>1, KeyStays
  <2>4. /\ pc'[t] = "call"
        /\ ~raced => \A u \in Ticks : u # t => pc'[u] = "idle"
    BY <2>1, AloneKept DEF LocalTyped
  <2>5. ~raced => /\ KeyOf(t) \notin DOMAIN cuts
                  /\ \A q \in late : q.key # KeyOf(t)
    BY <2>1 DEF Claimed
  <2> QED
    BY <2>1, <2>2, <2>3, <2>4, <2>5 DEF Claimed
<1>5. ASSUME NEW t \in Ticks, CallAnswered(t) PROVE Claimed'
  <2>1. /\ pc[t] = "call" /\ pc' = [pc EXCEPT ![t] = "done"] /\ UNCHANGED <<ledger, late, raced>>
        /\ Acts(RequestOf(t))
    BY <1>5 DEF CallAnswered, Goto, redis, ghosts
  <2>2. RequestOf(t) \in Requests /\ RequestOf(t).key = KeyOf(t)
    BY <2>1, AsksTyped DEF Planned, Chosen
  <2>3. /\ DOMAIN cuts' \subseteq DOMAIN cuts \cup {KeyOf(t)}
        /\ \A k \in DOMAIN cuts' : cuts'[k] = 1 \/ k \in DOMAIN cuts
        /\ \A k \in DOMAIN cuts' : k \in DOMAIN cuts /\ k # KeyOf(t) => cuts'[k] = cuts[k]
    BY <2>1, <2>2, ActsTyped
  <2>4. /\ pc'[t] = "done"
        /\ ~raced => \A u \in Ticks : u # t => pc'[u] = "idle"
    BY <2>1, AloneKept DEF LocalTyped
  <2>5. ~raced => /\ KeyOf(t) \in DOMAIN ledger /\ KeyOf(t) \notin DOMAIN cuts
                  /\ \A q \in late : q.key # KeyOf(t)
    BY <2>1 DEF Claimed
  <2> QED
    BY <2>1, <2>3, <2>4, <2>5 DEF Claimed
<1>6. ASSUME NEW t \in Ticks, CallUnanswered(t) PROVE Claimed'
  <2>1. /\ pc[t] = "call" /\ pc' = [pc EXCEPT ![t] = "fail"] /\ UNCHANGED <<ledger, cuts, raced>>
        /\ late' = late \cup {RequestOf(t)}
    BY <1>6 DEF CallUnanswered, Goto, redis
  <2>2. RequestOf(t).key = KeyOf(t)
    BY <2>1, AsksTyped DEF Planned, Chosen
  <2>3. /\ pc'[t] = "fail"
        /\ ~raced => \A u \in Ticks : u # t => pc'[u] = "idle"
    BY <2>1, AloneKept DEF LocalTyped
  <2>4. ~raced => /\ KeyOf(t) \in DOMAIN ledger /\ KeyOf(t) \notin DOMAIN cuts
                  /\ \A q \in late : q.key # KeyOf(t)
    BY <2>1 DEF Claimed
  <2> QED
    BY <2>1, <2>2, <2>3, <2>4 DEF Claimed
<1>7. ASSUME UNCHANGED <<pc, ledger, late, cuts, raced>>, UNCHANGED local PROVE Claimed'
  BY <1>7, KeyStays DEF Claimed
<1>8. ASSUME LockExpires \/ OperatorMoves PROVE Claimed'
  <2>1. UNCHANGED <<pc, ledger, late, cuts, raced>>
    BY <1>8 DEF LockExpires, OperatorMoves, broker, redis, ghosts
  <2>2. UNCHANGED local
    BY <1>8 DEF LockExpires, OperatorMoves
  <2> QED
    BY <1>7, <2>1, <2>2
<1>9. ASSUME NEW q \in late, LateActs(q) PROVE Claimed'
  <2>1. /\ UNCHANGED <<pc, ledger, raced>> /\ UNCHANGED local
        /\ late' = late \ {q} /\ Acts(q) /\ q \in Requests
    BY <1>9 DEF LateActs, redis, ghosts, BrokerTyped
  <2>2. /\ DOMAIN cuts' \subseteq DOMAIN cuts \cup {q.key}
        /\ \A k \in DOMAIN cuts' : cuts'[k] = 1 \/ k \in DOMAIN cuts
        /\ \A k \in DOMAIN cuts' : k \in DOMAIN cuts /\ k # q.key => cuts'[k] = cuts[k]
    BY <2>1, ActsTyped
  <2>3. \A t \in Ticks : KeyOf(t)' = KeyOf(t)
    BY <2>1, KeyStays
  <2>4. ~raced => q.key \in DOMAIN ledger /\ q.key \notin DOMAIN cuts
    BY DEF Claimed
  <2> QED
    BY <2>1, <2>2, <2>3, <2>4 DEF Claimed
<1>10. ASSUME NEW q \in late, LateIsDropped(q) PROVE Claimed'
  <2>1. UNCHANGED <<pc, ledger, cuts, raced>> /\ UNCHANGED local /\ late' = late \ {q}
    BY <1>10 DEF LateIsDropped, redis, ghosts
  <2>2. \A t \in Ticks : KeyOf(t)' = KeyOf(t)
    BY <2>1, KeyStays
  <2> QED
    BY <2>1, <2>2 DEF Claimed
<1>11. ASSUME UNCHANGED vars PROVE Claimed'
  BY <1>7, <1>11 DEF vars, broker, redis, ghosts
<1> QED
  BY <1>1, <1>2, <1>3, <1>4, <1>5, <1>6, <1>8, <1>9, <1>10, <1>11, Asides DEF Next, Pass

-----------------------------------------------------------------------------
(* The volume a pass has in hand *)

LEMMA TrackedKept ==
    ASSUME LocalTyped, Alone, Tracked, NEW t \in Ticks, pc[t] # "idle", raced' = raced,
           NEW to, pc' = [pc EXCEPT ![t] = to], to # "done", Quiet' => Quiet,
           UNCHANGED broker, Quiet /\ to \in Knows => snap'[t].vol = pos.vol
    PROVE  Tracked'
<1>1. pos' = pos /\ late' = late /\ cuts' = cuts
  BY DEF broker
<1>2. Quiet => \A u \in Ticks : u # t => pc'[u] = "idle"
  BY AloneKept DEF Quiet
<1>3. pc'[t] = to
  BY DEF LocalTyped
<1>4. Quiet => \A u \in Ticks : pc'[u] # "done" /\ (pc'[u] \in Knows => u = t)
  BY <1>2, <1>3 DEF Knows
<1> QED
  BY <1>1, <1>3, <1>4 DEF Tracked

\* Most steps leave the broker alone, and the pass with the volume it had.
LEMMA SameVolume ==
    ASSUME LocalTyped, Alone, Tracked, NEW t \in Ticks, pc[t] \in Knows,
           NEW to, pc' = [pc EXCEPT ![t] = to], to # "done",
           snap'[t] = snap[t], UNCHANGED <<broker, ghosts, moves>>
    PROVE  Tracked'
<1>1. pc[t] # "idle" /\ raced' = raced /\ (Quiet' => Quiet) /\ UNCHANGED broker
  BY DEF Knows, Quiet, ghosts
<1>2. Quiet => snap'[t].vol = pos.vol
  BY DEF Tracked
<1> QED
  BY <1>1, <1>2, TrackedKept

LEMMA Leaves ==
    ASSUME LocalTyped, Alone, Tracked, NEW t \in Ticks, pc[t] # "idle",
           NEW to \in {"idle", "unlock"}, Leave(t, to), UNCHANGED <<broker, ghosts, moves>>
    PROVE  Tracked'
<1>1. raced' = raced /\ (Quiet' => Quiet) /\ UNCHANGED broker
  BY DEF Quiet, ghosts
<1>2. pc' = [pc EXCEPT ![t] = to] /\ to # "done" /\ to \notin Knows
  BY DEF Leave, Goto, Knows
<1> QED
  BY <1>1, <1>2, TrackedKept

\* While nothing is lost, raced or done by the operator, the volume in hand is the broker's,
\* and only the close at R goes below the minimum.
LEMMA TrackedStep ==
    ASSUME BrokerTyped, LocalTyped, RestTyped, Chosen, Alone, Tracked, [Next]_vars
    PROVE  Tracked'
<1>1. ASSUME NEW t \in Ticks, NEW arms \in BOOLEAN, Acquire(t, arms) PROVE Tracked'
  <2>1. /\ pc' = [pc EXCEPT ![t] = "snapshot"] /\ UNCHANGED broker /\ UNCHANGED local
        /\ Quiet' => Quiet
    BY <1>1 DEF Acquire, Goto, Quiet
  <2>2. \A u \in Ticks : /\ pc'[u] \in Knows => pc[u] \in Knows
                         /\ pc'[u] = "done" => pc[u] = "done"
    BY <2>1 DEF LocalTyped, Knows
  <2>3. snap' = snap /\ \A u \in Ticks : CutOf(u)' = CutOf(u)
    BY <2>1, KeyStays DEF local
  <2> QED
    BY <2>1, <2>2, <2>3 DEF Tracked, broker
<1>2. ASSUME NEW t \in Ticks, Snapshot(t) PROVE Tracked'
  <2>1. pc[t] = "snapshot" /\ UNCHANGED <<broker, ghosts, moves>>
    BY <1>2 DEF Snapshot
  <2>2. CASE Leave(t, "unlock")
    BY <2>1, <2>2, Leaves
  <2>3. CASE Goto(t, "load") /\ \E mark \in 0 .. MaxMark :
                 snap' = [snap EXCEPT ![t] = [vol |-> pos.vol, stop |-> pos.stop,
                              take |-> pos.take, at |-> pos.at, mark |-> mark]]
    <3>1. snap'[t].vol = pos.vol
      BY <2>3 DEF LocalTyped
    <3>2. pc' = [pc EXCEPT ![t] = "load"]
      BY <2>3 DEF Goto
    <3>3. pc[t] # "idle" /\ raced' = raced /\ (Quiet' => Quiet) /\ UNCHANGED broker
      BY <2>1 DEF Quiet, ghosts
    <3> QED
      BY <3>1, <3>2, <3>3, TrackedKept
  <2> QED
    BY <1>2, <2>2, <2>3 DEF Snapshot
<1>3. ASSUME NEW t \in Ticks, LoadState(t) PROVE Tracked'
  <2>1. pc[t] = "load" /\ UNCHANGED <<broker, ghosts, moves>>
    BY <1>3 DEF LoadState, ghosts
  <2>2. \E to \in {"create", "plan"} : pc' = [pc EXCEPT ![t] = to]
    BY <1>3 DEF LoadState, Goto, GoOn, Begin
  <2>3. snap'[t] = snap[t]
    BY <1>3 DEF LoadState, GoOn, local, LocalTyped
  <2>4. pc[t] \in Knows
    BY <2>1 DEF Knows
  <2> QED
    BY <2>1, <2>2, <2>3, <2>4, SameVolume
<1>4. ASSUME NEW t \in Ticks, CreateState(t) PROVE Tracked'
  <2>1. pc[t] = "create" /\ UNCHANGED <<broker, ghosts, moves>>
    BY <1>4 DEF CreateState, ghosts
  <2>2. \E to \in {"plan"} : pc' = [pc EXCEPT ![t] = to]
    BY <1>4 DEF CreateState, Goto, GoOn, Begin
  <2>3. snap'[t] = snap[t]
    BY <1>4 DEF CreateState, GoOn, local, LocalTyped
  <2>4. pc[t] \in Knows
    BY <2>1 DEF Knows
  <2> QED
    BY <2>1, <2>2, <2>3, <2>4, SameVolume
<1>5. ASSUME NEW t \in Ticks, Skip(t) PROVE Tracked'
  <2>1. pc[t] = "plan" /\ UNCHANGED <<broker, ghosts, moves>>
    BY <1>5 DEF Skip, ghosts
  <2>2. \E to \in {"plan"} : pc' = [pc EXCEPT ![t] = to]
    BY <1>5 DEF Skip, Goto, GoOn, Begin
  <2>3. snap'[t] = snap[t]
    BY <1>5 DEF Skip, GoOn, local, LocalTyped
  <2>4. pc[t] \in Knows
    BY <2>1 DEF Knows
  <2> QED
    BY <2>1, <2>2, <2>3, <2>4, SameVolume
<1>6. ASSUME NEW t \in Ticks, ReadLedger(t) PROVE Tracked'
  <2>1. pc[t] = "plan" /\ UNCHANGED <<broker, ghosts, moves>>
    BY <1>6 DEF ReadLedger, ghosts
  <2>2. \E to \in {"note", "mark", "plan"} : pc' = [pc EXCEPT ![t] = to]
    BY <1>6, ReadLedgerDoes DEF ReadLedger, Goto, GoOn, Begin
  <2>3. snap'[t] = snap[t]
    BY <1>6, ReadLedgerDoes DEF ReadLedger, GoOn, local, LocalTyped
  <2>4. pc[t] \in Knows
    BY <2>1 DEF Knows
  <2> QED
    BY <2>1, <2>2, <2>3, <2>4, SameVolume
<1>7. ASSUME NEW t \in Ticks, MarkReconciled(t) PROVE Tracked'
  <2>1. pc[t] = "mark" /\ UNCHANGED <<broker, ghosts, moves>>
    BY <1>7 DEF MarkReconciled, ghosts
  <2>2. \E to \in {"plan"} : pc' = [pc EXCEPT ![t] = to]
    BY <1>7 DEF MarkReconciled, Goto, GoOn, Begin
  <2>3. snap'[t] = snap[t]
    BY <1>7 DEF MarkReconciled, GoOn, local, LocalTyped
  <2>4. pc[t] \in Knows
    BY <2>1 DEF Knows
  <2> QED
    BY <2>1, <2>2, <2>3, <2>4, SameVolume
<1>8. ASSUME NEW t \in Ticks, NoteRunning(t) PROVE Tracked'
  <2>1. pc[t] = "note" /\ UNCHANGED <<broker, ghosts, moves>>
    BY <1>8 DEF NoteRunning, ghosts
  <2>2. \E to \in {"call"} : pc' = [pc EXCEPT ![t] = to]
    BY <1>8 DEF NoteRunning, Goto, GoOn, Begin
  <2>3. snap'[t] = snap[t]
    BY <1>8 DEF NoteRunning, GoOn, local, LocalTyped
  <2>4. pc[t] \in Knows
    BY <2>1 DEF Knows
  <2> QED
    BY <2>1, <2>2, <2>3, <2>4, SameVolume
<1>9. ASSUME NEW t \in Ticks, CallAnswered(t) PROVE Tracked'
  <2>1. /\ pc[t] = "call" /\ pc' = [pc EXCEPT ![t] = "done"] /\ late' = late
        /\ UNCHANGED local /\ Acts(RequestOf(t)) /\ raced' = raced /\ (Quiet' => Quiet)
    BY <1>9 DEF CallAnswered, Goto, ghosts, Quiet
  <2>2. /\ At(t) \in {"protect", "full", "level", "rule", "even"}
        /\ RequestOf(t) \in Requests /\ RequestOf(t).req = CutOf(t)
        /\ RequestOf(t).key = KeyOf(t) /\ KeyOf(t)[1] = At(t) /\ CutOf(t) \in Nat
        /\ At(t) \in {"level", "rule"} =>
               CutOf(t) = 0 \/ snap[t].vol - CutOf(t) >= MinVolume
    BY <2>1, AsksTyped DEF Planned, Chosen
  <2>3. /\ pos'.vol = IF IsClose(At(t)) THEN pos.vol - CutOf(t) ELSE pos.vol
        /\ DOMAIN cuts \subseteq DOMAIN cuts'
        /\ IsClose(At(t)) => KeyOf(t) \in DOMAIN cuts'
    BY <2>1, <2>2, ActsTyped
  <2>4. /\ pc'[t] = "done"
        /\ Quiet => \A u \in Ticks : u # t => pc'[u] = "idle"
    BY <2>1, AloneKept DEF LocalTyped, Quiet
  <2>5. snap' = snap /\ CutOf(t)' = CutOf(t)
    BY <2>1, KeyStays DEF local
  <2>6. Quiet => late = {} /\ snap[t].vol = pos.vol
    BY <2>1 DEF Tracked, Knows
  <2>7. pos.vol \in Nat /\ MinVolume \in Nat
    BY ManagerAssumption DEF BrokerTyped, Positions
  <2>8. ~IsClose(At(t)) => CutOf(t) = 0
    BY CutCases
  <2>9. pos'.vol = pos.vol - CutOf(t)
    BY <2>3, <2>7, <2>8
  <2>10. Quiet /\ pos'.vol < MinVolume => FullKey \in DOMAIN cuts'
    <3>1. CASE At(t) = "full"
      BY <3>1, <2>3, CutCases DEF IsClose, FullKey
    <3>2. CASE At(t) # "full"
      <4>1. CutOf(t) = 0 \/ snap[t].vol - CutOf(t) >= MinVolume
        BY <3>2, <2>2, <2>8 DEF IsClose
      <4>2. ASSUME Quiet, pos'.vol < MinVolume PROVE FullKey \in DOMAIN cuts
        <5>1. snap[t].vol = pos.vol
          BY <2>6, <4>2
        <5>2. CASE CutOf(t) = 0
          <6>1. pos.vol < MinVolume
            BY <2>7, <2>9, <4>2, <5>2
          <6> QED
            BY <4>2, <6>1 DEF Tracked
        <5>3. CASE pos.vol - CutOf(t) >= MinVolume
          <6> DEFINE left == pos.vol - CutOf(t)
          <6>1. left \in Int /\ left >= MinVolume /\ left < MinVolume
            BY <2>2, <2>7, <2>9, <4>2, <5>3
          <6> HIDE DEF left
          <6> QED
            BY <2>7, <6>1
        <5> QED
          BY <4>1, <5>1, <5>2, <5>3
      <4> QED
        BY <4>2, <2>3
    <3> QED
      BY <3>1, <3>2
  <2>11. Quiet => \A u \in Ticks : pc'[u] \notin Knows /\ (pc'[u] = "done" => u = t)
    BY <2>4 DEF Knows
  <2>12. Quiet => pos'.vol = snap'[t].vol - CutOf(t)'
    BY <2>5, <2>6, <2>9
  <2> QED
    BY <2>1, <2>6, <2>10, <2>11, <2>12 DEF Tracked
<1>10. ASSUME NEW t \in Ticks, CallRefused(t) PROVE Tracked'
  <2>1. pc[t] = "call" /\ UNCHANGED <<broker, ghosts, moves>>
    BY <1>10 DEF CallRefused, ghosts
  <2>2. \E to \in {"fail"} : pc' = [pc EXCEPT ![t] = to]
    BY <1>10 DEF CallRefused, Goto, GoOn, Begin
  <2>3. snap'[t] = snap[t]
    BY <1>10 DEF CallRefused, GoOn, local, LocalTyped
  <2>4. pc[t] \in Knows
    BY <2>1 DEF Knows
  <2> QED
    BY <2>1, <2>2, <2>3, <2>4, SameVolume
<1>11. ASSUME NEW t \in Ticks, CallUnanswered(t) PROVE Tracked'
  BY <1>11 DEF CallUnanswered, Tracked, Quiet
<1>12. ASSUME NEW t \in Ticks, MarkDone(t) PROVE Tracked'
  <2>1. pc[t] = "done" /\ UNCHANGED broker /\ raced' = raced /\ (Quiet' => Quiet)
    BY <1>12 DEF MarkDone, ghosts, Quiet
  <2>2. pc' = [pc EXCEPT ![t] = "plan"] /\ snap'[t] = After(t)
    BY <1>12 DEF MarkDone, GoOn, LocalTyped
  <2>3. After(t).vol = snap[t].vol - CutOf(t)
    BY <2>1, AsksTyped DEF Planned, Chosen
  <2>4. Quiet => snap'[t].vol = pos.vol
    BY <2>1, <2>2, <2>3 DEF Tracked
  <2> QED
    BY <2>1, <2>2, <2>4, TrackedKept
<1>13. ASSUME NEW t \in Ticks, MarkDoneFails(t) PROVE Tracked'
  BY <1>13 DEF MarkDoneFails, Tracked, Quiet
<1>14. ASSUME NEW t \in Ticks, MarkUncertain(t) PROVE Tracked'
  <2>1. pc[t] = "fail" /\ UNCHANGED <<broker, ghosts, moves>>
    BY <1>14 DEF MarkUncertain, ghosts
  <2>2. \E to \in {"plan"} : pc' = [pc EXCEPT ![t] = to]
    BY <1>14 DEF MarkUncertain, Goto, GoOn, Begin
  <2>3. snap'[t] = snap[t]
    BY <1>14 DEF MarkUncertain, GoOn, local, LocalTyped
  <2>4. pc[t] \in Knows
    BY <2>1 DEF Knows
  <2> QED
    BY <2>1, <2>2, <2>3, <2>4, SameVolume
<1>15. ASSUME NEW t \in Ticks, SaveState(t) PROVE Tracked'
  <2>1. pc[t] # "idle" /\ Leave(t, "unlock") /\ UNCHANGED <<broker, ghosts, moves>>
    BY <1>15 DEF SaveState
  <2> QED
    BY <2>1, Leaves
<1>16. ASSUME NEW t \in Ticks, Unlock(t) PROVE Tracked'
  <2>1. pc[t] # "idle" /\ Leave(t, "idle") /\ UNCHANGED <<broker, ghosts, moves>>
    BY <1>16 DEF Unlock, Over
  <2> QED
    BY <2>1, Leaves
<1>17. ASSUME NEW t \in Ticks, Throw(t) PROVE Tracked'
  <2>1. pc[t] # "idle" /\ Leave(t, "unlock") /\ UNCHANGED <<broker, ghosts, moves>>
    BY <1>17 DEF Throw
  <2> QED
    BY <2>1, Leaves
<1>18. ASSUME NEW t \in Ticks, Stop(t) PROVE Tracked'
  <2>1. pc[t] # "idle" /\ Leave(t, "idle") /\ UNCHANGED <<broker, ghosts, moves>>
    BY <1>18 DEF Stop, Over
  <2> QED
    BY <2>1, Leaves
<1>19. ASSUME LockExpires PROVE Tracked'
  <2>1. UNCHANGED <<broker, pc, raced, blind, moves>> /\ UNCHANGED local
    BY <1>19 DEF LockExpires, ghosts
  <2>2. snap' = snap /\ \A u \in Ticks : CutOf(u)' = CutOf(u)
    BY <2>1, KeyStays DEF local
  <2> QED
    BY <2>1, <2>2 DEF Tracked, Quiet, broker
<1>20. ASSUME OperatorMoves PROVE Tracked'
  <2>1. moves' # 0
    BY <1>20 DEF OperatorMoves, RestTyped
  <2> QED
    BY <2>1 DEF Tracked, Quiet
<1>21. ASSUME NEW q \in late, LateActs(q) PROVE Tracked'
  <2>1. late # {} /\ (Quiet' => Quiet)
    BY <1>21 DEF LateActs, Quiet, ghosts
  <2> QED
    BY <2>1 DEF Tracked
<1>22. ASSUME NEW q \in late, LateIsDropped(q) PROVE Tracked'
  <2>1. late # {} /\ (Quiet' => Quiet)
    BY <1>22 DEF LateIsDropped, Quiet, ghosts
  <2> QED
    BY <2>1 DEF Tracked
<1>23. ASSUME UNCHANGED vars PROVE Tracked'
  <2>1. UNCHANGED <<broker, pc, raced, blind, moves>> /\ UNCHANGED local
    BY <1>23 DEF vars, ghosts
  <2>2. snap' = snap /\ \A u \in Ticks : CutOf(u)' = CutOf(u)
    BY <2>1, KeyStays DEF local
  <2> QED
    BY <2>1, <2>2 DEF Tracked, Quiet, broker
<1> QED
  BY <1>1, <1>2, <1>3, <1>4, <1>5, <1>6, <1>7, <1>8, <1>9, <1>10, <1>11, <1>12, <1>13,
     <1>14, <1>15, <1>16, <1>17, <1>18, <1>19, <1>20, <1>21, <1>22, <1>23 DEF Next, Pass

-----------------------------------------------------------------------------
(* The theorems *)

LEMMA InitHolds == Init => IInv
<1> SUFFICES ASSUME Init PROVE IInv
  OBVIOUS
<1>1. BrokerTyped
  <2>1. Volume \in 0 .. Volume /\ 0 \in Nat
    BY ManagerAssumption
  <2> QED
    BY <2>1 DEF Init, BrokerTyped, Positions, Stops, Takes, Default
<1>2. NoRecord \in Records
  BY ManagerAssumption DEF NoRecord, Records
<1>3. RedisTyped
  BY <1>2 DEF Init, RedisTyped
<1>4. NoPosition \in Snaps
  BY ManagerAssumption DEF NoPosition, Snaps, Stops, Takes
<1>5. LocalTyped
  BY <1>2, <1>4 DEF Init, LocalTyped, Pcs
<1>6. RestTyped
  <2>1. 0 \in 0 .. MaxMoves /\ 0 \in 0 .. MaxFaults
    BY ManagerAssumption
  <2> QED
    BY <2>1 DEF Init, RestTyped
<1>7. Chosen /\ Noted /\ Alone
  BY DEF Init, Chosen, Noted, Alone, Inside, Planned
<1>8. Claimed
  BY DEF Init, Claimed
<1>9. Tracked
  <2>1. ~(pos.vol < MinVolume)
    BY ManagerAssumption DEF Init
  <2> QED
    BY <2>1 DEF Init, Tracked, Knows
<1> QED
  BY <1>1, <1>3, <1>5, <1>6, <1>7, <1>8, <1>9, TypesAreFour DEF IInv

LEMMA StepHolds == IInv /\ [Next]_vars => IInv'
<1> SUFFICES ASSUME IInv, [Next]_vars PROVE IInv'
  OBVIOUS
<1>1. /\ BrokerTyped /\ RedisTyped /\ LocalTyped /\ RestTyped
      /\ Chosen /\ Noted /\ Alone /\ Claimed /\ Tracked
  BY TypesAreFour DEF IInv
<1>2. BrokerTyped' /\ RedisTyped' /\ LocalTyped' /\ RestTyped' /\ Chosen'
  BY <1>1, BrokerStep, RedisStep, LocalStep, RestStep
<1>3. TypeOK'
  BY <1>2, TypesAreFour, PTL
<1>4. Noted' /\ Alone' /\ Claimed' /\ Tracked'
  BY <1>1, NotedStep, AloneStep, ClaimedStep, TrackedStep
<1> QED
  BY <1>2, <1>3, <1>4 DEF IInv

\* Every state a pass, the broker, the lock's lifetime and the operator can lead to
\* satisfies the invariant.
THEOREM Invariance == Spec => []IInv
<1> QED
  BY InitHolds, StepHolds, PTL DEF Spec

\* The state keeps its type, in the manager's passes, its ledger and at the broker.
THEOREM TypeCorrect == Spec => []TypeOK
<1>1. IInv => TypeOK
  BY DEF IInv
<1> QED
  BY <1>1, Invariance, PTL

\* A ledger entry's mutation is made at most once by the broker, whatever answers are
\* lost, late or not noted (guardedCloseMutation), unless two passes ran side by side.
THEOREM EntryClosesOnceHolds == Spec => []EntryClosesOnce
<1>1. IInv => EntryClosesOnce
  <2> SUFFICES ASSUME IInv, ~raced, NEW k \in DOMAIN cuts PROVE cuts[k] <= 1
    BY DEF EntryClosesOnce
  <2>1. cuts[k] = 1
    BY DEF IInv, Claimed
  <2> QED
    BY <2>1
<1> QED
  BY <1>1, Invariance, PTL

\* Partial closes leave the broker's minimum open (normalizePartialCloseRaw), the armed
\* rule's behind a level's as well, while every outcome is known to the pass.
THEOREM RunnerStaysHolds == Spec => []RunnerStays
<1>1. IInv => RunnerStays
  <2> SUFFICES ASSUME IInv, pos.vol < MinVolume, ~raced, ~blind, ~(moves > 0)
               PROVE  FullKey \in DOMAIN cuts
    BY DEF RunnerStays, FullKey
  <2>1. moves = 0
    BY ManagerAssumption DEF IInv, TypeOK
  <2> QED
    BY <2>1 DEF IInv, Tracked, Quiet
<1> QED
  BY <1>1, Invariance, PTL

-----------------------------------------------------------------------------
(* The vault: CTraderVault.  One key or one request carries an              *)
(* authorization to its one exchange, and the last token a grant was given  *)
(* is in the vault or on its way there.                                     *)

\* No record is newer than the last token, and the broker honours the last one.
CVKnown(r, newest, honours) ==
    r # Nobody => /\ r \in CV!Records /\ r.token <= newest
                  /\ r.token = newest => honours[r.grant] = newest
CVRecords ==
    /\ CVKnown(vault, given, honoured)
    /\ \A v \in Visits : /\ CVKnown(visit[v].read, given, honoured)
                         /\ CVKnown(visit[v].new, given, honoured)

\* What a request holds at its step; a refreshed record is newer than the one it read.
CVCalls ==
    \A v \in Visits :
        /\ visit[v].pc = "loaded" => visit[v].read # Nobody /\ visit[v].flow = 0
        /\ visit[v].pc \in {"ticketed", "intended", "coded"} => visit[v].flow \in Flows
        /\ visit[v].pc = "answered" =>
              /\ visit[v].new # Nobody
              /\ visit[v].flow = 0 => /\ visit[v].read # Nobody
                                      /\ visit[v].read.token < visit[v].new.token

\* The last token is in the vault, or with the request that will save it.
CVNewest ==
    \/ crossed \/ lost \/ given = 0
    \/ vault # Nobody /\ vault.token = given
    \/ \E v \in Visits : visit[v].pc = "answered" /\ visit[v].new.token = given

\* One key or one request carries an authorization on, to its one exchange.
CVFlow(f, v, stage, keyset, at) ==
    visit[v].flow = f /\ visit[v].pc = stage =>
        /\ browser[f] = at /\ f \notin keyset
        /\ \A u \in Visits : visit[u].flow = f /\ visit[u].pc = stage => u = v
CVFlows ==
    \A f \in Flows :
        /\ f \in ticket => browser[f] = "ticket"
        /\ f \in intent => browser[f] \in {"broker", "code"}
        /\ f \in pending => browser[f] = "pending"
        /\ \A v \in Visits : /\ CVFlow(f, v, "ticketed", ticket, "ticket")
                             /\ CVFlow(f, v, "intended", intent, "code")
                             /\ CVFlow(f, v, "coded", pending, "pending")
        /\ spent[f] # 0 =>
              /\ spent[f] = 1 /\ browser[f] = "pending" /\ f \notin pending
              /\ \A v \in Visits : visit[v].flow = f => visit[v].pc # "coded"

CVSound == CV!TypeOK /\ CVRecords /\ CVCalls /\ CVNewest /\ CVFlows

VisitRecord == [pc : CV!Pcs, flow : Flows \cup {0}, read : CV!Records \cup {Nobody},
                new : CV!Records \cup {Nobody}]

LEMMA CVIdle == CV!Idle \in VisitRecord /\ CV!Over \in VisitRecord
  BY DEF CV!Idle, CV!Over, VisitRecord, CV!Pcs

LEMMA CVInit == CV!Init => CVSound
<1> SUFFICES ASSUME CV!Init PROVE CVSound
  OBVIOUS
<1> USE VaultAssumption, CVIdle DEF CV!Init
<1>1. /\ vault \in CV!Records \cup {Nobody} /\ given \in {0, 1} /\ given <= MaxTokens
      /\ vault # Nobody => (vault.token = 1 /\ vault.grant = 0 /\ given = 1)
      /\ vault = Nobody => given = 0
  BY DEF CV!Records
<1>2. /\ visit \in [Visits -> VisitRecord]
  OBVIOUS
<1>3. CV!TypeOK
  <2>1. /\ ticket \cup intent \cup pending \subseteq Flows /\ {crossed, lost} \subseteq BOOLEAN
        /\ browser \in [Flows -> {"away", "ticket", "broker", "code", "pending"}]
    OBVIOUS
  <2>3. spent \in [Flows -> Nat]
    OBVIOUS
  <2>2. honoured \in [Flows \cup {0} -> 0 .. MaxTokens] /\ given \in 0 .. MaxTokens
    BY <1>1
  <2> HIDE DEF CV!Init
  <2> QED BY <1>1, <1>2, <2>1, <2>2, <2>3 DEF CV!TypeOK, VisitRecord
<1>4. CVRecords
  BY <1>1 DEF CVRecords, CVKnown, CV!Idle, CV!Records
<1>5. CVCalls
  BY DEF CVCalls, CV!Idle
<1>6. CVNewest
  BY <1>1 DEF CVNewest
<1>7. CVFlows
  BY DEF CVFlows, CVFlow, CV!Idle
<1> QED BY <1>3, <1>4, <1>5, <1>6, <1>7 DEF CVSound

LEMMA CVStep == CVSound /\ [CV!Next]_CV!vars => CVSound'
<1> SUFFICES ASSUME CVSound, [CV!Next]_CV!vars PROVE CVSound'
  OBVIOUS
<1>0. CV!TypeOK /\ CVRecords /\ CVCalls /\ CVNewest /\ CVFlows
  BY DEF CVSound
<1>01. visit \in [Visits -> VisitRecord]
  BY <1>0 DEF CV!TypeOK, VisitRecord
<1> USE VaultAssumption, <1>0, <1>01 DEF CV!vars, CV!keys, CV!broker, CV!ghosts, CV!Goes, CV!New
<1>1. ASSUME CV!Expires PROVE CVSound'
  <2>1. visit' \in [Visits -> VisitRecord]
    BY <1>1, CVIdle DEF CV!Expires, CVCalls, VisitRecord, CV!Pcs
  <2>1a. [vault EXCEPT !.fresh = FALSE] \in CV!Records
    BY <1>1 DEF CV!Expires, CV!TypeOK, CV!Records
  <2>2. CV!TypeOK'
    BY <1>1, <2>1, <2>1a DEF CV!Expires, CV!TypeOK, VisitRecord, CVCalls, CVFlows
  <2>3. CVRecords'
    BY <1>1, <2>1 DEF CV!Expires, CVRecords, CVKnown, CVCalls, CV!TypeOK, VisitRecord,
       CV!Records, CV!Idle, CV!Over
  <2>4. CVCalls'
    BY <1>1, <2>1 DEF CV!Expires, CVCalls, CVRecords, CVKnown, CV!TypeOK, VisitRecord,
       CV!Records, CV!Idle, CV!Over
  <2>5. CVNewest'
    BY <1>1, <2>1 DEF CV!Expires, CVNewest, CVCalls, CVRecords, CVKnown, CV!TypeOK,
       VisitRecord, CV!Records, CV!Idle, CV!Over
  <2>6. CVFlows'
    BY <1>1, <2>1 DEF CV!Expires, CVFlows, CVFlow, CVCalls, CV!TypeOK, VisitRecord, CV!Idle,
       CV!Over
  <2> QED BY <2>2, <2>3, <2>4, <2>5, <2>6 DEF CVSound
<1>2. ASSUME NEW v \in Visits, CV!Load(v) PROVE CVSound'
  <2>0. PICK j \in VisitRecord :
           /\ visit' = [visit EXCEPT ![v] = j] /\ UNCHANGED <<vault, ticket, intent, pending, browser, honoured, given, spent, crossed, lost>>
           /\ \/ j = CV!Over
              \/ j.pc = "loaded" /\ j.flow = 0 /\ j.read = vault /\ j.new = Nobody
    <3>1. CASE vault.fresh /\ ~vault.old
      BY <1>2, <3>1, CVIdle DEF CV!Load
    <3>2. CASE ~(vault.fresh /\ ~vault.old)
      <4>1. [CV!Idle EXCEPT !.pc = "loaded", !.read = vault] \in VisitRecord
        BY <1>2 DEF CV!Load, CV!Idle, VisitRecord, CV!Pcs, CV!TypeOK
      <4> QED BY <1>2, <3>2, <4>1 DEF CV!Load, CV!Idle
    <3> QED BY <3>1, <3>2
  <2>1. visit' \in [Visits -> VisitRecord]
    BY <2>0
  <2>2. CV!TypeOK'
    BY <2>0, <2>1 DEF CV!TypeOK, VisitRecord
  <2>3. CVRecords'
    BY <2>0, <2>1 DEF CVRecords, CVKnown, CV!Over, CV!Idle
  <2>4. CVCalls'
    BY <1>2, <2>0, <2>1 DEF CV!Load, CVCalls, CV!Over, CV!Idle
  <2>5. CVNewest'
    BY <1>2, <2>0, <2>1 DEF CV!Load, CVNewest, CV!Over, CV!Idle
  <2>6. CVFlows'
    BY <2>0, <2>1 DEF CVFlows, CVFlow, CV!Over, CV!Idle
  <2> QED BY <2>2, <2>3, <2>4, <2>5, <2>6 DEF CVSound
<1>3. ASSUME NEW v \in Visits, CV!Migrate(v) PROVE CVSound'
  <2> DEFINE r == visit[v].read
  <2>a. r \in CV!Records /\ visit[v].flow = 0 /\ visit[v].pc = "loaded"
    BY <1>3 DEF CV!Migrate, CVCalls, CVRecords, CVKnown
  <2>b. /\ vault' \in CV!Records /\ vault'.token = r.token /\ vault'.grant = r.grant
        /\ crossed' = (crossed \/ vault # r)
    BY <1>3, <2>a DEF CV!Migrate, CV!Records
  <2>0. PICK j \in VisitRecord :
           /\ visit' = [visit EXCEPT ![v] = j]
           /\ UNCHANGED <<ticket, intent, pending, browser, honoured, given, spent, lost>>
           /\ \/ j = CV!Over
              \/ j.pc = "loaded" /\ j.flow = 0 /\ j.read = vault' /\ j.new = visit[v].new
    <3>1. CASE r.fresh
      BY <1>3, <3>1, CVIdle DEF CV!Migrate
    <3>2. CASE ~r.fresh
      <4>1. [visit[v] EXCEPT !.read = vault'] \in VisitRecord
        BY <2>b DEF VisitRecord
      <4> QED BY <1>3, <3>2, <4>1, <2>a DEF CV!Migrate, VisitRecord
    <3> QED BY <3>1, <3>2
  <2>1. visit' \in [Visits -> VisitRecord]
    BY <2>0
  <2>2. CV!TypeOK'
    BY <1>3, <2>0, <2>1, <2>b DEF CV!TypeOK, VisitRecord
  <2>3. CVRecords'
    <3>1. CVKnown(r, given, honoured) /\ CVKnown(vault', given, honoured)
      BY <2>0, <2>a, <2>b DEF CVRecords, CVKnown
    <3> QED BY <2>0, <2>1, <3>1 DEF CVRecords, CVKnown, CV!Over, CV!Idle
  <2>4. CVCalls'
    BY <2>0, <2>1, <2>b DEF CVCalls, CV!Over, CV!Idle
  <2>5. CVNewest'
    BY <2>0, <2>1, <2>a, <2>b DEF CVNewest, CV!Over, CV!Idle
  <2>6. CVFlows'
    BY <2>0, <2>1, <2>a DEF CVFlows, CVFlow, CV!Over, CV!Idle
  <2> QED BY <2>2, <2>3, <2>4, <2>5, <2>6 DEF CVSound
<1>4. ASSUME NEW v \in Visits, CV!Refresh(v) PROVE CVSound'
  <2> DEFINE g == visit[v].read.grant
             n == CV!Token(g)
             j == [visit[v] EXCEPT !.pc = "answered", !.new = n]
  <2>a. /\ visit[v].pc = "loaded" /\ visit[v].flow = 0 /\ visit[v].read # Nobody
        /\ visit[v].read \in CV!Records /\ g \in Flows \cup {0} /\ given \in Nat
    BY <1>4 DEF CV!Refresh, CVCalls, CVRecords, CVKnown, CV!Records, CV!TypeOK
  <2>1. CASE CV!Answered(v, g)
    <3>a. /\ given' = given + 1 /\ given' \in 0 .. MaxTokens
          /\ honoured' = [honoured EXCEPT ![g] = given + 1]
          /\ visit' = [visit EXCEPT ![v] = j]
      BY <2>1 DEF CV!Answered, CV!TypeOK
    <3>b. n \in CV!Records /\ n.token = given + 1 /\ n.grant = g
      BY <2>a, <3>a DEF CV!Token, CV!Records, CV!TypeOK
    <3>c. /\ j \in VisitRecord /\ j.pc = "answered" /\ j.new = n /\ j.flow = visit[v].flow
          /\ j.read = visit[v].read
      BY <3>b DEF VisitRecord, CV!Pcs
    <3> HIDE DEF n, j
    <3>1. visit' \in [Visits -> VisitRecord]
      BY <3>a, <3>c
    <3>2. CV!TypeOK'
      <4>1. honoured' \in [Flows \cup {0} -> 0 .. MaxTokens]
        BY <3>a DEF CV!TypeOK
      <4> QED BY <1>4, <2>a, <3>1, <3>a, <4>1 DEF CV!Refresh, CV!TypeOK, VisitRecord
    <3>3. CVRecords'
      <4>1. ASSUME NEW r, CVKnown(r, given, honoured) PROVE CVKnown(r, given', honoured')
        BY <3>a, <4>1 DEF CVKnown, CV!TypeOK, CV!Records
      <4>2. CVKnown(n, given', honoured')
        BY <2>a, <3>a, <3>b DEF CVKnown, CV!TypeOK, CV!Records
      <4>3. vault' = vault
        BY <1>4 DEF CV!Refresh
      <4>4. CVKnown(vault', given', honoured')
        BY <4>1, <4>3 DEF CVRecords
      <4>5. ASSUME NEW u \in Visits PROVE CVKnown(visit'[u].read, given', honoured') /\ CVKnown(visit'[u].new, given', honoured')
        <5>1. /\ visit'[u].read = visit[u].read
              /\ visit'[u].new = IF u = v THEN n ELSE visit[u].new
          BY <3>a, <3>c
        <5>2. CVKnown(visit[u].read, given, honoured) /\ CVKnown(visit[u].new, given, honoured)
          BY DEF CVRecords
        <5> QED BY <5>1, <5>2, <4>1, <4>2 DEF CVKnown
      <4> QED BY <4>4, <4>5 DEF CVRecords
    <3>4. CVCalls'
      <4>1. visit[v].flow = 0 => visit[v].read # Nobody /\ visit[v].read.token < n.token
        BY <2>a, <3>b DEF CVRecords, CVKnown, CV!Records, CV!TypeOK
      <4> QED BY <3>a, <3>b, <3>c, <4>1 DEF CVCalls
    <3>5. CVNewest'
      BY <3>a, <3>b, <3>c DEF CVNewest
    <3>6. CVFlows'
      BY <1>4, <2>a, <3>a, <3>c DEF CV!Refresh, CVFlows, CVFlow, CV!TypeOK
    <3> QED BY <3>2, <3>3, <3>4, <3>5, <3>6 DEF CVSound
  <2>2. CASE CV!Goes(v, CV!Over) /\ UNCHANGED <<honoured, given>>
    <3>a. /\ visit' = [visit EXCEPT ![v] = CV!Over]
          /\ UNCHANGED <<vault, ticket, intent, pending, browser, crossed, lost, honoured, given>>
      BY <1>4, <2>2 DEF CV!Refresh
    <3>1. visit' \in [Visits -> VisitRecord]
      BY <3>a, CVIdle
    <3>2. CV!TypeOK'
      BY <1>4, <2>a, <3>1, <3>a DEF CV!Refresh, CV!TypeOK, VisitRecord
    <3>3. CVRecords'
      BY <3>a DEF CVRecords, CVKnown, CV!Over, CV!Idle
    <3>4. CVCalls'
      BY <3>a DEF CVCalls, CV!Over, CV!Idle
    <3>5. CVNewest'
      BY <2>a, <3>a DEF CVNewest, CV!Over, CV!Idle
    <3>6. CVFlows'
      BY <1>4, <2>a, <3>a DEF CV!Refresh, CVFlows, CVFlow, CV!TypeOK, CV!Over, CV!Idle
    <3> QED BY <3>2, <3>3, <3>4, <3>5, <3>6 DEF CVSound
  <2> QED BY <1>4, <2>1, <2>2 DEF CV!Refresh
<1>5. ASSUME NEW v \in Visits, CV!Save(v) PROVE CVSound'
  <2>1. visit' \in [Visits -> VisitRecord]
    BY <1>5, CVIdle DEF CV!Save, CVCalls, VisitRecord, CV!Pcs
  <2>2. CV!TypeOK'
    BY <1>5, <2>1 DEF CV!Save, CV!TypeOK, VisitRecord, CVCalls, CVFlows
  <2>3. CVRecords'
    BY <1>5, <2>1 DEF CV!Save, CVRecords, CVKnown, CVCalls, CV!TypeOK, VisitRecord,
       CV!Records, CV!Idle, CV!Over
  <2>4. CVCalls'
    BY <1>5, <2>1 DEF CV!Save, CVCalls, CVRecords, CVKnown, CV!TypeOK, VisitRecord,
       CV!Records, CV!Idle, CV!Over
  <2>5. CVNewest'
    <3> DEFINE j == visit[v]
    <3>1. /\ j.pc = "answered" /\ j.new \in CV!Records /\ vault' = j.new /\ j.new.token <= given
          /\ visit' = [visit EXCEPT ![v] = CV!Over] /\ given' = given /\ lost' = lost
          /\ given \in Nat /\ j.new.token \in Nat
      BY <1>5 DEF CV!Save, CVCalls, CVRecords, CVKnown, CV!Records, CV!TypeOK
    <3>2. CASE j.new.token = given
      BY <3>1, <3>2 DEF CVNewest
    <3>3. CASE crossed' \/ lost \/ given = 0
      BY <3>1, <3>3 DEF CVNewest
    <3>4. CASE \E u \in Visits \ {v} : visit[u].pc = "answered" /\ visit[u].new.token = given
      BY <3>1, <3>4 DEF CVNewest
    <3>5. ASSUME ~crossed', vault # Nobody, vault.token = given, j.new.token # given PROVE FALSE
      <4>1. CASE j.flow = 0
        <5>1. vault = j.read /\ j.read.token < j.new.token
          BY <1>5, <3>1, <3>5, <4>1 DEF CV!Save, CVCalls
        <5> QED BY <5>1, <3>1, <3>5
      <4>2. CASE j.flow # 0
        <5>1. ~(vault.token > j.new.token)
          BY <1>5, <3>5, <4>2 DEF CV!Save
        <5> QED BY <5>1, <3>1, <3>5
      <4> QED BY <4>1, <4>2
    <3> QED BY <1>5, <3>1, <3>2, <3>3, <3>4, <3>5 DEF CVNewest, CV!Save
  <2>6. CVFlows'
    BY <1>5, <2>1 DEF CV!Save, CVFlows, CVFlow, CVCalls, CV!TypeOK, VisitRecord, CV!Idle,
       CV!Over
  <2> QED BY <2>2, <2>3, <2>4, <2>5, <2>6 DEF CVSound
<1>6. ASSUME NEW v \in Visits, CV!PutIntent(v) PROVE CVSound'
  <2>1. visit' \in [Visits -> VisitRecord]
    BY <1>6, CVIdle DEF CV!PutIntent, CVCalls, VisitRecord, CV!Pcs
  <2>2. CV!TypeOK'
    BY <1>6, <2>1 DEF CV!PutIntent, CV!TypeOK, VisitRecord, CVCalls, CVFlows
  <2>3. CVRecords'
    BY <1>6, <2>1 DEF CV!PutIntent, CVRecords, CVKnown, CVCalls, CV!TypeOK, VisitRecord,
       CV!Records, CV!Idle, CV!Over
  <2>4. CVCalls'
    BY <1>6, <2>1 DEF CV!PutIntent, CVCalls, CVRecords, CVKnown, CV!TypeOK, VisitRecord,
       CV!Records, CV!Idle, CV!Over
  <2>5. CVNewest'
    BY <1>6, <2>1 DEF CV!PutIntent, CVNewest, CVCalls, CVRecords, CVKnown, CV!TypeOK,
       VisitRecord, CV!Records, CV!Idle, CV!Over
  <2>6. CVFlows'
    BY <1>6, <2>1 DEF CV!PutIntent, CVFlows, CVFlow, CVCalls, CV!TypeOK, VisitRecord,
       CV!Idle, CV!Over
  <2> QED BY <2>2, <2>3, <2>4, <2>5, <2>6 DEF CVSound
<1>7. ASSUME NEW v \in Visits, CV!PutPending(v) PROVE CVSound'
  <2>1. visit' \in [Visits -> VisitRecord]
    BY <1>7, CVIdle DEF CV!PutPending, CVCalls, VisitRecord, CV!Pcs
  <2>2. CV!TypeOK'
    BY <1>7, <2>1 DEF CV!PutPending, CV!TypeOK, VisitRecord, CVCalls, CVFlows
  <2>3. CVRecords'
    BY <1>7, <2>1 DEF CV!PutPending, CVRecords, CVKnown, CVCalls, CV!TypeOK, VisitRecord,
       CV!Records, CV!Idle, CV!Over
  <2>4. CVCalls'
    BY <1>7, <2>1 DEF CV!PutPending, CVCalls, CVRecords, CVKnown, CV!TypeOK, VisitRecord,
       CV!Records, CV!Idle, CV!Over
  <2>5. CVNewest'
    BY <1>7, <2>1 DEF CV!PutPending, CVNewest, CVCalls, CVRecords, CVKnown, CV!TypeOK,
       VisitRecord, CV!Records, CV!Idle, CV!Over
  <2>6. CVFlows'
    BY <1>7, <2>1 DEF CV!PutPending, CVFlows, CVFlow, CVCalls, CV!TypeOK, VisitRecord,
       CV!Idle, CV!Over
  <2> QED BY <2>2, <2>3, <2>4, <2>5, <2>6 DEF CVSound
<1>8. ASSUME NEW v \in Visits, CV!Exchange(v) PROVE CVSound'
  <2> DEFINE g == visit[v].flow
             n == CV!Token(g)
             j == [visit[v] EXCEPT !.pc = "answered", !.new = n]
  <2>a. /\ visit[v].pc = "coded" /\ g \in Flows /\ g # 0 /\ given \in Nat
        /\ spent[g] = 0 /\ spent' = [spent EXCEPT ![g] = 1]
    <3>1. visit[v].pc = "coded" /\ g \in Flows /\ g # 0 /\ given \in Nat
      BY <1>8 DEF CV!Exchange, CVCalls, CV!TypeOK
    <3>2. spent[g] = 0
      BY <3>1 DEF CVFlows, CVFlow
    <3>3. spent' = [spent EXCEPT ![g] = 1]
      BY <1>8, <3>2 DEF CV!Exchange
    <3> QED BY <3>1, <3>2, <3>3
  <2>b. spent' \in [Flows -> Nat]
    BY <2>a DEF CV!TypeOK
  <2>1. CASE CV!Answered(v, g)
    <3>a. /\ given' = given + 1 /\ given' \in 0 .. MaxTokens
          /\ honoured' = [honoured EXCEPT ![g] = given + 1]
          /\ visit' = [visit EXCEPT ![v] = j]
      BY <2>1 DEF CV!Answered, CV!TypeOK
    <3>b. n \in CV!Records /\ n.token = given + 1 /\ n.grant = g
      BY <2>a, <3>a DEF CV!Token, CV!Records, CV!TypeOK
    <3>c. /\ j \in VisitRecord /\ j.pc = "answered" /\ j.new = n /\ j.flow = visit[v].flow
          /\ j.read = visit[v].read
      BY <3>b DEF VisitRecord, CV!Pcs
    <3> HIDE DEF n, j
    <3>1. visit' \in [Visits -> VisitRecord]
      BY <3>a, <3>c
    <3>2. CV!TypeOK'
      <4>1. honoured' \in [Flows \cup {0} -> 0 .. MaxTokens]
        BY <3>a DEF CV!TypeOK
      <4>2. spent' \in [Flows -> Nat]
        BY <2>b DEF CV!TypeOK
      <4> QED BY <1>8, <2>a, <3>1, <3>a, <4>1, <4>2 DEF CV!Exchange, CV!TypeOK, VisitRecord
    <3>3. CVRecords'
      <4>1. ASSUME NEW r, CVKnown(r, given, honoured) PROVE CVKnown(r, given', honoured')
        BY <3>a, <4>1 DEF CVKnown, CV!TypeOK, CV!Records
      <4>2. CVKnown(n, given', honoured')
        BY <2>a, <3>a, <3>b DEF CVKnown, CV!TypeOK, CV!Records
      <4>3. vault' = vault
        BY <1>8 DEF CV!Exchange
      <4>4. CVKnown(vault', given', honoured')
        BY <4>1, <4>3 DEF CVRecords
      <4>5. ASSUME NEW u \in Visits PROVE CVKnown(visit'[u].read, given', honoured') /\ CVKnown(visit'[u].new, given', honoured')
        <5>1. /\ visit'[u].read = visit[u].read
              /\ visit'[u].new = IF u = v THEN n ELSE visit[u].new
          BY <3>a, <3>c
        <5>2. CVKnown(visit[u].read, given, honoured) /\ CVKnown(visit[u].new, given, honoured)
          BY DEF CVRecords
        <5> QED BY <5>1, <5>2, <4>1, <4>2 DEF CVKnown
      <4> QED BY <4>4, <4>5 DEF CVRecords
    <3>4. CVCalls'
      <4>1. visit[v].flow = 0 => visit[v].read # Nobody /\ visit[v].read.token < n.token
        BY <2>a, <3>b DEF CVRecords, CVKnown, CV!Records, CV!TypeOK
      <4> QED BY <3>a, <3>b, <3>c, <4>1 DEF CVCalls
    <3>5. CVNewest'
      BY <3>a, <3>b, <3>c DEF CVNewest
    <3>6. CVFlows'
      BY <1>8, <2>a, <3>a, <3>c DEF CV!Exchange, CVFlows, CVFlow, CV!TypeOK
    <3> QED BY <3>2, <3>3, <3>4, <3>5, <3>6 DEF CVSound
  <2>2. CASE CV!Goes(v, CV!Over) /\ UNCHANGED <<honoured, given>>
    <3>a. /\ visit' = [visit EXCEPT ![v] = CV!Over]
          /\ UNCHANGED <<vault, ticket, intent, pending, browser, crossed, lost, honoured, given>>
      BY <1>8, <2>2 DEF CV!Exchange
    <3>1. visit' \in [Visits -> VisitRecord]
      BY <3>a, CVIdle
    <3>2. CV!TypeOK'
      <4>2. spent' \in [Flows -> Nat]
        BY <2>b DEF CV!TypeOK
      <4> QED BY <1>8, <2>a, <3>1, <3>a, <4>2 DEF CV!Exchange, CV!TypeOK, VisitRecord
    <3>3. CVRecords'
      BY <3>a DEF CVRecords, CVKnown, CV!Over, CV!Idle
    <3>4. CVCalls'
      BY <3>a DEF CVCalls, CV!Over, CV!Idle
    <3>5. CVNewest'
      BY <2>a, <3>a DEF CVNewest, CV!Over, CV!Idle
    <3>6. CVFlows'
      BY <1>8, <2>a, <3>a DEF CV!Exchange, CVFlows, CVFlow, CV!TypeOK, CV!Over, CV!Idle
    <3> QED BY <3>2, <3>3, <3>4, <3>5, <3>6 DEF CVSound
  <2> QED BY <1>8, <2>1, <2>2 DEF CV!Exchange
<1>9. ASSUME NEW v \in Visits, CV!Stop(v) PROVE CVSound'
  <2>1. visit' \in [Visits -> VisitRecord]
    BY <1>9, CVIdle DEF CV!Stop, CVCalls, VisitRecord, CV!Pcs
  <2>2. CV!TypeOK'
    BY <1>9, <2>1 DEF CV!Stop, CV!TypeOK, VisitRecord, CVCalls, CVFlows
  <2>3. CVRecords'
    BY <1>9, <2>1 DEF CV!Stop, CVRecords, CVKnown, CVCalls, CV!TypeOK, VisitRecord,
       CV!Records, CV!Idle, CV!Over
  <2>4. CVCalls'
    BY <1>9, <2>1 DEF CV!Stop, CVCalls, CVRecords, CVKnown, CV!TypeOK, VisitRecord,
       CV!Records, CV!Idle, CV!Over
  <2>5. CVNewest'
    BY <1>9, <2>1 DEF CV!Stop, CVNewest, CVCalls, CVRecords, CVKnown, CV!TypeOK,
       VisitRecord, CV!Records, CV!Idle, CV!Over
  <2>6. CVFlows'
    BY <1>9, <2>1 DEF CV!Stop, CVFlows, CVFlow, CVCalls, CV!TypeOK, VisitRecord, CV!Idle,
       CV!Over
  <2> QED BY <2>2, <2>3, <2>4, <2>5, <2>6 DEF CVSound
<1>10. ASSUME NEW f \in Flows, CV!Create(f) PROVE CVSound'
  <2>1. visit' \in [Visits -> VisitRecord]
    BY <1>10, CVIdle DEF CV!Create, CVCalls, VisitRecord, CV!Pcs
  <2>2. CV!TypeOK'
    BY <1>10, <2>1 DEF CV!Create, CV!TypeOK, VisitRecord, CVCalls, CVFlows
  <2>3. CVRecords'
    BY <1>10, <2>1 DEF CV!Create, CVRecords, CVKnown, CVCalls, CV!TypeOK, VisitRecord,
       CV!Records, CV!Idle, CV!Over
  <2>4. CVCalls'
    BY <1>10, <2>1 DEF CV!Create, CVCalls, CVRecords, CVKnown, CV!TypeOK, VisitRecord,
       CV!Records, CV!Idle, CV!Over
  <2>5. CVNewest'
    BY <1>10, <2>1 DEF CV!Create, CVNewest, CVCalls, CVRecords, CVKnown, CV!TypeOK,
       VisitRecord, CV!Records, CV!Idle, CV!Over
  <2>6. CVFlows'
    BY <1>10, <2>1 DEF CV!Create, CVFlows, CVFlow, CVCalls, CV!TypeOK, VisitRecord, CV!Idle,
       CV!Over
  <2> QED BY <2>2, <2>3, <2>4, <2>5, <2>6 DEF CVSound
<1>11. ASSUME NEW f \in Flows, CV!Grant(f) PROVE CVSound'
  <2>1. visit' \in [Visits -> VisitRecord]
    BY <1>11, CVIdle DEF CV!Grant, CVCalls, VisitRecord, CV!Pcs
  <2>2. CV!TypeOK'
    BY <1>11, <2>1 DEF CV!Grant, CV!TypeOK, VisitRecord, CVCalls, CVFlows
  <2>3. CVRecords'
    BY <1>11, <2>1 DEF CV!Grant, CVRecords, CVKnown, CVCalls, CV!TypeOK, VisitRecord,
       CV!Records, CV!Idle, CV!Over
  <2>4. CVCalls'
    BY <1>11, <2>1 DEF CV!Grant, CVCalls, CVRecords, CVKnown, CV!TypeOK, VisitRecord,
       CV!Records, CV!Idle, CV!Over
  <2>5. CVNewest'
    BY <1>11, <2>1 DEF CV!Grant, CVNewest, CVCalls, CVRecords, CVKnown, CV!TypeOK,
       VisitRecord, CV!Records, CV!Idle, CV!Over
  <2>6. CVFlows'
    BY <1>11, <2>1 DEF CV!Grant, CVFlows, CVFlow, CVCalls, CV!TypeOK, VisitRecord, CV!Idle,
       CV!Over
  <2> QED BY <2>2, <2>3, <2>4, <2>5, <2>6 DEF CVSound
<1>12. ASSUME NEW f \in Flows, CV!KeyExpires(f) PROVE CVSound'
  <2>1. visit' \in [Visits -> VisitRecord]
    BY <1>12, CVIdle DEF CV!KeyExpires, CVCalls, VisitRecord, CV!Pcs
  <2>2. CV!TypeOK'
    BY <1>12, <2>1 DEF CV!KeyExpires, CV!TypeOK, VisitRecord, CVCalls, CVFlows
  <2>3. CVRecords'
    BY <1>12, <2>1 DEF CV!KeyExpires, CVRecords, CVKnown, CVCalls, CV!TypeOK, VisitRecord,
       CV!Records, CV!Idle, CV!Over
  <2>4. CVCalls'
    BY <1>12, <2>1 DEF CV!KeyExpires, CVCalls, CVRecords, CVKnown, CV!TypeOK, VisitRecord,
       CV!Records, CV!Idle, CV!Over
  <2>5. CVNewest'
    BY <1>12, <2>1 DEF CV!KeyExpires, CVNewest, CVCalls, CVRecords, CVKnown, CV!TypeOK,
       VisitRecord, CV!Records, CV!Idle, CV!Over
  <2>6. CVFlows'
    BY <1>12, <2>1 DEF CV!KeyExpires, CVFlows, CVFlow, CVCalls, CV!TypeOK, VisitRecord,
       CV!Idle, CV!Over
  <2> QED BY <2>2, <2>3, <2>4, <2>5, <2>6 DEF CVSound
<1>13. ASSUME NEW v \in Visits, NEW f \in Flows, CV!TakeTicket(v, f) PROVE CVSound'
  <2>1. visit' \in [Visits -> VisitRecord]
    BY <1>13, CVIdle DEF CV!TakeTicket, CVCalls, VisitRecord, CV!Pcs
  <2>2. CV!TypeOK'
    BY <1>13, <2>1 DEF CV!TakeTicket, CV!TypeOK, VisitRecord, CVCalls, CVFlows
  <2>3. CVRecords'
    BY <1>13, <2>1 DEF CV!TakeTicket, CVRecords, CVKnown, CVCalls, CV!TypeOK, VisitRecord,
       CV!Records, CV!Idle, CV!Over
  <2>4. CVCalls'
    BY <1>13, <2>1 DEF CV!TakeTicket, CVCalls, CVRecords, CVKnown, CV!TypeOK, VisitRecord,
       CV!Records, CV!Idle, CV!Over
  <2>5. CVNewest'
    BY <1>13, <2>1 DEF CV!TakeTicket, CVNewest, CVCalls, CVRecords, CVKnown, CV!TypeOK,
       VisitRecord, CV!Records, CV!Idle, CV!Over
  <2>6. CVFlows'
    BY <1>13, <2>1 DEF CV!TakeTicket, CVFlows, CVFlow, CVCalls, CV!TypeOK, VisitRecord,
       CV!Idle, CV!Over
  <2> QED BY <2>2, <2>3, <2>4, <2>5, <2>6 DEF CVSound
<1>14. ASSUME NEW v \in Visits, NEW f \in Flows, CV!TakeIntent(v, f) PROVE CVSound'
  <2>1. visit' \in [Visits -> VisitRecord]
    BY <1>14, CVIdle DEF CV!TakeIntent, CVCalls, VisitRecord, CV!Pcs
  <2>2. CV!TypeOK'
    BY <1>14, <2>1 DEF CV!TakeIntent, CV!TypeOK, VisitRecord, CVCalls, CVFlows
  <2>3. CVRecords'
    BY <1>14, <2>1 DEF CV!TakeIntent, CVRecords, CVKnown, CVCalls, CV!TypeOK, VisitRecord,
       CV!Records, CV!Idle, CV!Over
  <2>4. CVCalls'
    BY <1>14, <2>1 DEF CV!TakeIntent, CVCalls, CVRecords, CVKnown, CV!TypeOK, VisitRecord,
       CV!Records, CV!Idle, CV!Over
  <2>5. CVNewest'
    BY <1>14, <2>1 DEF CV!TakeIntent, CVNewest, CVCalls, CVRecords, CVKnown, CV!TypeOK,
       VisitRecord, CV!Records, CV!Idle, CV!Over
  <2>6. CVFlows'
    BY <1>14, <2>1 DEF CV!TakeIntent, CVFlows, CVFlow, CVCalls, CV!TypeOK, VisitRecord,
       CV!Idle, CV!Over
  <2> QED BY <2>2, <2>3, <2>4, <2>5, <2>6 DEF CVSound
<1>15. ASSUME NEW v \in Visits, NEW f \in Flows, CV!TakePending(v, f) PROVE CVSound'
  <2>1. visit' \in [Visits -> VisitRecord]
    BY <1>15, CVIdle DEF CV!TakePending, CVCalls, VisitRecord, CV!Pcs
  <2>2. CV!TypeOK'
    BY <1>15, <2>1 DEF CV!TakePending, CV!TypeOK, VisitRecord, CVCalls, CVFlows
  <2>3. CVRecords'
    BY <1>15, <2>1 DEF CV!TakePending, CVRecords, CVKnown, CVCalls, CV!TypeOK, VisitRecord,
       CV!Records, CV!Idle, CV!Over
  <2>4. CVCalls'
    BY <1>15, <2>1 DEF CV!TakePending, CVCalls, CVRecords, CVKnown, CV!TypeOK, VisitRecord,
       CV!Records, CV!Idle, CV!Over
  <2>5. CVNewest'
    BY <1>15, <2>1 DEF CV!TakePending, CVNewest, CVCalls, CVRecords, CVKnown, CV!TypeOK,
       VisitRecord, CV!Records, CV!Idle, CV!Over
  <2>6. CVFlows'
    BY <1>15, <2>1 DEF CV!TakePending, CVFlows, CVFlow, CVCalls, CV!TypeOK, VisitRecord,
       CV!Idle, CV!Over
  <2> QED BY <2>2, <2>3, <2>4, <2>5, <2>6 DEF CVSound
<1>16. CASE UNCHANGED CV!vars
  <2>1. visit' \in [Visits -> VisitRecord]
    BY <1>16, CVIdle DEF CVCalls, VisitRecord, CV!Pcs
  <2>2. CV!TypeOK'
    BY <1>16, <2>1 DEF CV!TypeOK, VisitRecord, CVCalls, CVFlows
  <2>3. CVRecords'
    BY <1>16, <2>1 DEF CVRecords, CVKnown, CVCalls, CV!TypeOK, VisitRecord, CV!Records,
       CV!Idle, CV!Over
  <2>4. CVCalls'
    BY <1>16, <2>1 DEF CVCalls, CVRecords, CVKnown, CV!TypeOK, VisitRecord, CV!Records,
       CV!Idle, CV!Over
  <2>5. CVNewest'
    BY <1>16, <2>1 DEF CVNewest, CVCalls, CVRecords, CVKnown, CV!TypeOK, VisitRecord,
       CV!Records, CV!Idle, CV!Over
  <2>6. CVFlows'
    BY <1>16, <2>1 DEF CVFlows, CVFlow, CVCalls, CV!TypeOK, VisitRecord, CV!Idle, CV!Over
  <2> QED BY <2>2, <2>3, <2>4, <2>5, <2>6 DEF CVSound
<1> QED
  BY <1>1, <1>2, <1>3, <1>4, <1>5, <1>6, <1>7, <1>8, <1>9, <1>10, <1>11, <1>12, <1>13,
     <1>14, <1>15, <1>16 DEF CV!Next

\* A code is spent once, and unless a request crossed another or was cut off with the only
\* copy, the vault holds the last token and the broker honours it.
THEOREM VaultIsCurrentHolds == CV!Spec => []VaultIsCurrent
<1>1. CVSound => VaultIsCurrent
  <2> SUFFICES ASSUME CVSound PROVE CV!VaultIsCurrent
    BY DEF VaultIsCurrent
  <2> QED BY DEF CVSound, CVNewest, CVRecords, CVKnown, CVFlows, CV!TypeOK, CV!Records,
     CV!VaultIsCurrent
<1> QED
  BY <1>1, CVInit, CVStep, PTL DEF CV!Spec

-----------------------------------------------------------------------------
(***************************************************************************)
(* ProviderAccounts.  A request holds what it read and wrote; that is      *)
(* still so unless its account was spoiled, for two requests that share    *)
(* an account or a login have met.  An auto-bind record may be out of date *)
(* only while the request that changed its account is still to mend it.    *)
(***************************************************************************)
RAMaybe == PA!Row \cup {None}
RAKeys == [id : Mt5, prof : Profiles]
RAStages == {"idle", "done", "put", "unbind", "bind", "look", "alone", "next", "default",
             "drop", "choose", "chosen"}
RAAsks == {"edit", "create", "delete", "ctrader", "sync", "beat", "check"}
RAKinds == RAAsks \cup {"stopped", None}
RARows == UNION {[S -> RAMaybe] : S \in SUBSET PA!Accounts}
RAJob == [pc : RAStages, kind : RAKinds, about : SUBSET PA!Accounts, logins : SUBSET Logins,
          want : BOOLEAN \cup {Keep}, drop : BOOLEAN, id : PA!Accounts \cup {None}, was : RAMaybe,
          puts : RARows, todo : SUBSET Logins,
          sole : {None} \cup (Logins \X (RAKeys \cup {None})), list : RARows,
          rest : SUBSET (Beats \cup PA!Accounts)]

\* An account with a login, as every MT5 account has.
RALogs(r) == r # None => r.login \in Logins

RATyped ==
    /\ row \in [PA!Accounts -> RAMaybe] /\ \A a \in Mt5 : RALogs(row[a])
    /\ exact \in [PA!Identity -> RAKeys \cup {None}]
    /\ alone \in [Logins -> RAKeys \cup {None}]
    /\ deft \in PA!Accounts \cup {None}
    /\ post \in [Posts -> RAJob]

RARuns(j) == j.pc \notin {"idle", "done"}
RAMending(j) == j.pc \in {"unbind", "bind", "look", "alone"}

\* What a request holds, whatever the others did.
RAWrites(j) ==
    /\ DOMAIN j.puts = {j.id}
    /\ PA!LoginsOf({j.was, j.puts[j.id]}) \subseteq j.logins
    /\ j.id \in Mt5 => RALogs(j.puts[j.id]) /\ RALogs(j.was)
RALists(j) ==
    /\ DOMAIN j.list = PA!Accounts
    /\ \A a \in Mt5 : RALogs(j.list[a])
    /\ \A a \in j.about : PA!LoginsOf({j.list[a]}) \subseteq j.logins
    /\ j.kind = "beat" => /\ j.rest \subseteq Beats
                          /\ \A b \in j.rest : /\ b.login \in j.logins /\ b.id \in j.about
                                               /\ PA!Matches(j.list, b) \subseteq j.about
    /\ j.kind = "check" => /\ j.rest \subseteq j.about /\ j.about \subseteq Mt5
                           /\ \A a \in j.about : j.list[a] # None /\ j.list[a].on
RAHolds(j) ==
    /\ j.pc = "next" => j.kind \in {"beat", "check"}
    /\ j.kind # "sync" /\ j.pc # "next" => j.id \in j.about
    /\ j.kind # "sync" /\ (j.pc = "put" \/ RAMending(j)) => RAWrites(j)
    /\ RAMending(j) => j.id \in Mt5 /\ j.kind \notin {"ctrader", "sync"}
    /\ j.pc \in {"default", "drop", "choose", "chosen"} => j.kind \in {"edit", "delete"}
    /\ j.pc \in {"look", "alone"} => j.todo \subseteq j.logins
    /\ j.pc = "alone" => j.sole \in Logins \X (RAKeys \cup {None}) /\ j.sole[1] \in j.todo
    /\ j.kind = "sync" => /\ j.pc = "put" /\ j.about \subseteq CTrader /\ DOMAIN j.puts = j.about
                          /\ \A a \in j.about : j.puts[a] # None
    /\ j.kind = "ctrader" => j.pc = "put" /\ j.id \in CTrader
    /\ j.kind \in {"create", "delete", "beat", "check"} /\ j.pc # "next" => j.id \in Mt5
    /\ j.pc = "put" /\ j.kind = "edit" =>
          /\ j.was # None /\ j.puts[j.id] # None
          /\ j.drop \/ j.puts[j.id].on \/ ~j.was.on
    /\ j.pc = "put" /\ j.kind = "create" => j.was = None
    /\ j.pc = "put" /\ j.kind = "check" => j.puts[j.id] # None /\ j.puts[j.id].on
    /\ j.kind \in {"beat", "check"} => RALists(j)
    /\ j.kind = "check" /\ j.pc # "next" => j.id \notin j.rest
    /\ j.kind \in RAAsks

\* The record v fits the accounts of a login, those in X apart.
RAFits(rows, l, v, X) ==
    \/ v = None \/ v.id \in X
    \/ /\ v.id \in PA!Enabled(rows, l) /\ v = PA!Record(v.id, rows[v.id]) /\ rows[v.id].srv = None
       /\ PA!Enabled(rows, l) \ {v.id} \subseteq X

\* What a request holds is still so, unless its account was spoiled.
RAFresh(j, rows, S) ==
    /\ j.pc = "put" /\ j.kind # "sync" => j.id \in S \/ rows[j.id] = j.was
    /\ j.kind = "sync" => \A a \in j.about \ S : rows[a] = None \/ j.puts[a] = rows[a]
    /\ RAMending(j) => j.id \in S \/ rows[j.id] = j.puts[j.id]
    /\ j.pc = "chosen" => j.id \in S \/ PA!On(rows, j.id)
    /\ j.pc = "alone" => RAFits(rows, j.sole[1], j.sole[2], S)
    /\ j.kind = "beat" => \A a \in j.about \ S : j.list[a] = rows[a] \/ (RAMending(j) /\ a = j.id)
    /\ j.kind = "check" => \A a \in j.rest \ S : j.list[a] = rows[a]

RAJobs == \A p \in Posts : RARuns(post[p]) => RAHolds(post[p]) /\ RAFresh(post[p], row, PA!Spoiled)

\* Requests that run at once and share an account or a login have met.
RAMeet ==
    \A p, q \in Posts : p # q /\ RARuns(post[p]) /\ RARuns(post[q]) =>
        \/ post[p].about \cap post[q].about = {} /\ post[p].logins \cap post[q].logins = {}
        \/ post[p].about \subseteq met

\* What a request has still to mend.
RAUnbinds(j, k) == j.pc = "unbind" /\ j.was # None /\ j.was.srv # None /\ PA!KeyOf(j.was) = k
RABinds(j) == j.pc \in {"unbind", "bind"}
RARefreshes(j, l) ==
    \/ j.pc \in {"unbind", "bind"} /\ l \in PA!LoginsOf({j.was, j.puts[j.id]})
    \/ j.pc \in {"look", "alone"} /\ l \in j.todo
RADrops(j) ==
    \/ RAMending(j) /\ (j.kind = "delete" \/ (j.kind = "edit" /\ j.drop))
    \/ j.pc = "default" /\ (j.kind = "delete" \/ j.drop)
    \/ j.pc = "drop"

RAGood(rows, k, v) == PA!Binds(rows[v.id]) /\ PA!KeyOf(rows[v.id]) = k /\ v = PA!Record(v.id, rows[v.id])

RAExact == \A k \in PA!Identity : exact[k] # None =>
    \/ exact[k].id \in PA!Spoiled \/ RAGood(row, k, exact[k])
    \/ \E p \in Posts : post[p].id = exact[k].id /\ RAUnbinds(post[p], k)
RABound == \A a \in Mt5 : PA!Binds(row[a]) =>
    \/ a \in PA!Spoiled \cup cut \/ exact[PA!KeyOf(row[a])] # None
    \/ \E p \in Posts : post[p].id = a /\ RABinds(post[p])
RAOut(l) == {post[p].id : p \in {p \in Posts : RARefreshes(post[p], l)}}
RAAlone == \A l \in Logins : RAFits(row, l, alone[l], PA!Spoiled \cup RAOut(l))
RADefault == \/ deft = None \/ PA!On(row, deft) \/ deft \in PA!Spoiled \cup silent
             \/ \E p \in Posts : post[p].id = deft /\ RADrops(post[p])

RASound == RATyped /\ RAMeet /\ RAJobs /\ RAExact /\ RABound /\ RAAlone /\ RADefault

RASame(l, x, y) == x = y \/ ((x # None => x.login # l) /\ (y # None => y.login # l))

\* A record still fits when only accounts in X change that are of its login.
LEMMA RAFitsKept ==
    ASSUME NEW r, NEW s, NEW l, NEW v, NEW X, NEW Y, X \subseteq Y,
           \A a \in Mt5 \ Y : RASame(l, r[a], s[a]), RAFits(r, l, v, X)
    PROVE  RAFits(s, l, v, Y)
<1>1. CASE v = None \/ v.id \in Y
  BY <1>1 DEF RAFits
<1>2. CASE ~(v = None \/ v.id \in Y)
  <2>1. /\ v.id \in PA!Enabled(r, l) /\ v = PA!Record(v.id, r[v.id]) /\ r[v.id].srv = None
        /\ PA!Enabled(r, l) \ {v.id} \subseteq X
    BY <1>2 DEF RAFits
  <2>2. ASSUME NEW a \in Mt5 \ Y PROVE a \in PA!Enabled(r, l) <=> a \in PA!Enabled(s, l)
    BY DEF RASame, PA!Enabled, PA!On, PA!Has
  <2>3. v.id \in Mt5 \ Y /\ s[v.id] = r[v.id]
    BY <1>2, <2>1 DEF RASame, PA!Enabled, PA!On, PA!Has
  <2>4. v.id \in PA!Enabled(s, l)
    BY <2>1, <2>2, <2>3
  <2>5. PA!Enabled(s, l) \ {v.id} \subseteq Y
    BY <2>1, <2>2 DEF PA!Enabled
  <2> QED BY <2>1, <2>3, <2>4, <2>5 DEF RAFits
<1> QED BY <1>1, <1>2

\* What a request holds stays so while only spoiled accounts of its own change.
LEMMA RAFreshKept ==
    ASSUME NEW j, NEW r, NEW s, NEW S, NEW T, S \subseteq T, RAHolds(j), RAFresh(j, r, S),
           \A a \in j.about \ T : s[a] = r[a],
           j.pc = "alone" => \A a \in Mt5 \ T : RASame(j.sole[1], r[a], s[a])
    PROVE  RAFresh(j, s, T)
<1>1. j.kind # "sync" /\ j.pc # "next" => j.id \in j.about
  BY DEF RAHolds
<1>2. j.pc = "put" /\ j.kind # "sync" => j.id \in T \/ s[j.id] = j.was
  BY <1>1 DEF RAFresh
<1>3. j.kind = "sync" => \A a \in j.about \ T : s[a] = None \/ j.puts[a] = s[a]
  BY DEF RAFresh
<1>4. RAMending(j) => j.id \in T \/ s[j.id] = j.puts[j.id]
  BY <1>1 DEF RAFresh, RAHolds, RAMending
<1>5. j.pc = "chosen" => j.id \in T \/ PA!On(s, j.id)
  BY <1>1 DEF RAFresh, RAHolds, PA!On, PA!Has
<1>6. j.pc = "alone" => RAFits(s, j.sole[1], j.sole[2], T)
  BY RAFitsKept DEF RAFresh
<1>7. j.kind = "beat" => \A a \in j.about \ T : j.list[a] = s[a] \/ (RAMending(j) /\ a = j.id)
  BY DEF RAFresh
<1>8. j.kind = "check" => \A a \in j.rest \ T : j.list[a] = s[a]
  <2>1. j.kind = "check" => j.rest \subseteq j.about
    BY DEF RAHolds, RALists
  <2> QED BY <2>1 DEF RAFresh
<1> QED BY <1>2, <1>3, <1>4, <1>5, <1>6, <1>7, <1>8 DEF RAFresh

LEMMA RASoleFits ==
    ASSUME NEW r, NEW l, NEW X, \A a \in Mt5 : r[a] \in RAMaybe
    PROVE  PA!Sole(r, l) \in RAKeys \cup {None} /\ RAFits(r, l, PA!Sole(r, l), X)
<1> DEFINE E == PA!Enabled(r, l)
<1>1. CASE \E a \in E : E = {a} /\ r[a].srv = None
  <2>1. PICK a \in E : E = {a} /\ r[a].srv = None
    BY <1>1
  <2>2. (CHOOSE x \in E : TRUE) = a
    BY <2>1
  <2>3. PA!Sole(r, l) = PA!Record(a, r[a])
    BY <1>1, <2>2 DEF PA!Sole
  <2>4. r[a] \in PA!Row /\ r[a].prof \in Profiles /\ a \in Mt5
    BY <2>1 DEF PA!Enabled, PA!On, PA!Has, RAMaybe, PA!Row
  <2> HIDE DEF E
  <2>5. PA!Sole(r, l) \in RAKeys /\ PA!Sole(r, l).id = a
    BY <2>3, <2>4 DEF PA!Record, RAKeys
  <2>6. a \in PA!Enabled(r, l) /\ PA!Enabled(r, l) \ {a} = {}
    BY <2>1 DEF E
  <2> QED BY <2>1, <2>3, <2>5, <2>6 DEF RAFits
<1>2. CASE ~\E a \in E : E = {a} /\ r[a].srv = None
  BY <1>2 DEF PA!Sole, RAFits
<1> QED BY <1>1, <1>2

LEMMA RANoRows == <<>> \in RARows /\ DOMAIN <<>> = {}
<1>1. <<>> \in [{} -> RAMaybe]
  OBVIOUS
<1>2. {} \in SUBSET PA!Accounts
  OBVIOUS
<1> QED BY <1>1, <1>2 DEF RARows

LEMMA RAIdle == PA!Idle \in RAJob /\ [PA!Idle EXCEPT !.pc = "done"] \in RAJob
  BY RANoRows DEF PA!Idle, RAJob, RAStages, RAKinds, RAAsks, RAMaybe

LEMMA RAInit == PA!Init => RASound
<1> SUFFICES ASSUME PA!Init PROVE RASound
  OBVIOUS
<1>1. /\ row \in [PA!Accounts -> RAMaybe] /\ \A a \in Mt5 : RALogs(row[a])
      /\ post = [p \in Posts |-> PA!Idle] /\ deft \in PA!Accounts \cup {None}
      /\ deft = None \/ PA!On(row, deft)
  BY AccountsAssumption DEF PA!Init, RALogs, RAMaybe
<1>2. ASSUME NEW k \in PA!Identity, exact[k] # None
      PROVE  exact[k] \in RAKeys /\ RAGood(row, k, exact[k])
  <2> DEFINE E == {a \in Mt5 : PA!Binds(row[a]) /\ PA!KeyOf(row[a]) = k}
  <2>1. E # {} /\ exact[k] = PA!Record(CHOOSE x \in E : TRUE, row[CHOOSE x \in E : TRUE])
    BY <1>2 DEF PA!Init
  <2>2. PICK a \in E : exact[k] = PA!Record(a, row[a])
    BY <2>1
  <2>3. row[a] \in PA!Row /\ row[a].prof \in Profiles
    BY <2>2, <1>1 DEF PA!Binds, RAMaybe, PA!Row, PA!Accounts
  <2> QED BY <2>2, <2>3 DEF PA!Record, RAKeys, RAGood
<1>3. exact \in [PA!Identity -> RAKeys \cup {None}]
  <2>1. exact = [k \in PA!Identity |-> exact[k]]
    BY DEF PA!Init
  <2> QED BY <2>1, <1>2
<1>4. ASSUME NEW l \in Logins
      PROVE alone[l] \in RAKeys \cup {None} /\ RAFits(row, l, alone[l], PA!Spoiled)
  <2>1. alone[l] = PA!Sole(row, l) /\ \A a \in Mt5 : row[a] \in RAMaybe
    BY <1>1 DEF PA!Init, PA!Accounts
  <2> QED BY <2>1, RASoleFits
<1>5. alone \in [Logins -> RAKeys \cup {None}]
  <2>1. alone = [l \in Logins |-> alone[l]]
    BY DEF PA!Init
  <2> QED BY <2>1, <1>4
<1>6. RATyped
  BY <1>1, <1>3, <1>5, RAIdle DEF RATyped
<1>7. RAMeet /\ RAJobs
  BY <1>1 DEF RAMeet, RAJobs, RARuns, PA!Idle
<1>8. RAExact
  BY <1>2 DEF RAExact
<1>9. RABound
  <2> SUFFICES ASSUME NEW a \in Mt5, PA!Binds(row[a]) PROVE exact[PA!KeyOf(row[a])] # None
    BY DEF RABound
  <2> DEFINE k == PA!KeyOf(row[a])
             E == {b \in Mt5 : PA!Binds(row[b]) /\ PA!KeyOf(row[b]) = k}
  <2>1. row[a] \in PA!Row /\ row[a].login \in Logins /\ row[a].srv \in Servers
    BY <1>1 DEF PA!Binds, RAMaybe, PA!Row, PA!Accounts, RALogs
  <2>2. k \in PA!Identity /\ a \in E
    BY <2>1 DEF PA!KeyOf, PA!Identity
  <2>3. exact[k] = PA!Record(CHOOSE x \in E : TRUE, row[CHOOSE x \in E : TRUE])
    BY <2>2 DEF PA!Init
  <2>4. PICK b \in E : exact[k] = PA!Record(b, row[b])
    BY <2>2, <2>3
  <2>5. row[b] \in PA!Row /\ row[b].prof \in Profiles
    BY <2>4, <1>1 DEF PA!Binds, RAMaybe, PA!Row, PA!Accounts
  <2>6. exact[k] \in RAKeys
    BY <2>4, <2>5 DEF PA!Record, RAKeys
  <2> QED BY <2>6, AccountsAssumption DEF RAKeys
<1>10. RAAlone
  <2> SUFFICES ASSUME NEW l \in Logins PROVE RAFits(row, l, alone[l], PA!Spoiled \cup RAOut(l))
    BY DEF RAAlone
  <2> QED BY <1>4, RAFitsKept DEF RASame
<1> QED BY <1>1, <1>6, <1>7, <1>8, <1>9, <1>10 DEF RASound, RADefault

\* The other requests hold what they held when only p moves and no row changes.
LEMMA RAOthersKept ==
    ASSUME RASound, NEW p \in Posts, NEW q \in Posts \ {p}, NEW S, PA!Spoiled \subseteq S,
           RARuns(post[q])
    PROVE  RAHolds(post[q]) /\ RAFresh(post[q], row, S)
<1>1. RAHolds(post[q]) /\ RAFresh(post[q], row, PA!Spoiled)
  BY DEF RASound, RAJobs
<1> QED BY <1>1, RAFreshKept DEF RASame

LEMMA RAGoesOn ==
    ASSUME RASound, NEW p \in Posts, NEW j \in RAJob, post' = [post EXCEPT ![p] = j],
           row' = row, met \subseteq met', PA!Spoiled \subseteq PA!Spoiled',
           RARuns(j) => /\ RARuns(post[p]) /\ j.about = post[p].about
                        /\ j.logins = post[p].logins /\ RAHolds(j) /\ RAFresh(j, row, PA!Spoiled')
    PROVE  post' \in [Posts -> RAJob] /\ RAMeet' /\ RAJobs'
<1>0. post \in [Posts -> RAJob] /\ RAMeet
  BY DEF RASound, RATyped
<1>1. post'[p] = j /\ \A q \in Posts \ {p} : post'[q] = post[q]
  BY <1>0
<1>2. post' \in [Posts -> RAJob]
  BY <1>0
<1>3. RAMeet'
  BY <1>0, <1>1 DEF RAMeet
<1>4. RAJobs'
  <2> SUFFICES ASSUME NEW q \in Posts, RARuns(post'[q])
               PROVE  RAHolds(post'[q]) /\ RAFresh(post'[q], row, PA!Spoiled')
    BY DEF RAJobs
  <2>1. CASE q = p
    BY <1>1, <2>1
  <2>2. CASE q # p
    <3>1. q \in Posts \ {p} /\ RARuns(post[q]) /\ post'[q] = post[q]
      BY <1>1, <2>2
    <3>2. RAHolds(post[q]) /\ RAFresh(post[q], row, PA!Spoiled')
      BY <3>1, RAOthersKept
    <3> QED BY <3>1, <3>2
  <2> QED BY <2>1, <2>2
<1> QED BY <1>2, <1>3, <1>4

\* A step that changes no row or key, of a request that goes on to mend them.
LEMMA RAKeysKept ==
    ASSUME RASound, NEW p \in Posts, NEW j \in RAJob, post' = [post EXCEPT ![p] = j],
           UNCHANGED <<row, exact, alone>>, deft' \in PA!Accounts \cup {None}, met \subseteq met', PA!Spoiled \subseteq PA!Spoiled',
           cut \subseteq cut',
           RARuns(j) => /\ RARuns(post[p]) /\ j.about = post[p].about
                        /\ j.logins = post[p].logins /\ RAHolds(j) /\ RAFresh(j, row, PA!Spoiled'),
           post[p].id \in PA!Spoiled' \/
              /\ ~RABinds(post[p])
              /\ \A l \in Logins : RARefreshes(post[p], l) => RARefreshes(j, l) /\ j.id = post[p].id
    PROVE  RATyped' /\ RAMeet' /\ RAJobs' /\ RAExact' /\ RABound' /\ RAAlone'
<1>1. /\ RATyped /\ RAExact /\ RABound /\ RAAlone
      /\ UNCHANGED <<row, exact, alone>>
  BY DEF RASound
<1>2. post' \in [Posts -> RAJob] /\ RAMeet' /\ RAJobs'
  BY <1>1, RAGoesOn
<1>3. post'[p] = j /\ \A q \in Posts \ {p} : post'[q] = post[q]
  BY <1>1 DEF RATyped
<1>4. RATyped'
  BY <1>1, <1>2 DEF RATyped
<1>5. RAExact'
  <2> SUFFICES ASSUME NEW k \in PA!Identity, exact[k] # None
               PROVE \/ exact[k].id \in PA!Spoiled' \/ RAGood(row, k, exact[k])
                     \/ \E q \in Posts : post'[q].id = exact[k].id /\ RAUnbinds(post'[q], k)
    BY <1>1 DEF RAExact
  <2>1. CASE exact[k].id \in PA!Spoiled \/ RAGood(row, k, exact[k])
    BY <2>1
  <2>2. CASE \E q \in Posts : post[q].id = exact[k].id /\ RAUnbinds(post[q], k)
    BY <1>3, <2>2 DEF RAUnbinds, RABinds
  <2> QED BY <1>1, <2>1, <2>2 DEF RAExact
<1>6. RABound'
  <2> SUFFICES ASSUME NEW a \in Mt5, PA!Binds(row[a])
               PROVE \/ a \in PA!Spoiled' \cup cut' \/ exact[PA!KeyOf(row[a])] # None
                     \/ \E q \in Posts : post'[q].id = a /\ RABinds(post'[q])
    BY <1>1 DEF RABound
  <2>2. CASE \E q \in Posts : post[q].id = a /\ RABinds(post[q])
    BY <1>3, <2>2
  <2> QED BY <1>1, <2>2 DEF RABound
<1>7. RAAlone'
  <2> SUFFICES ASSUME NEW l \in Logins PROVE RAFits(row, l, alone[l], PA!Spoiled' \cup RAOut(l)')
    BY <1>1 DEF RAAlone
  <2>1. RAOut(l) \subseteq PA!Spoiled' \cup RAOut(l)'
    BY ZenonT(60), <1>3 DEF RAOut, RABinds, RARefreshes
  <2>2. RAFits(row, l, alone[l], PA!Spoiled \cup RAOut(l))
    BY <1>1 DEF RAAlone
  <2>3. PA!Spoiled \cup RAOut(l) \subseteq PA!Spoiled' \cup RAOut(l)'
    BY <2>1
  <2> HIDE DEF RAOut
  <2> QED BY <2>2, <2>3, RAFitsKept DEF RASame
<1> QED BY <1>2, <1>4, <1>5, <1>6, <1>7

\* A step that changes no row, key or default, of a request that drops none of its duties.
LEMMA RAQuiet ==
    ASSUME RASound, NEW p \in Posts, NEW j \in RAJob, post' = [post EXCEPT ![p] = j],
           UNCHANGED PA!registry, met \subseteq met', PA!Spoiled \subseteq PA!Spoiled',
           cut \subseteq cut', silent \subseteq silent',
           RARuns(j) => /\ RARuns(post[p]) /\ j.about = post[p].about
                        /\ j.logins = post[p].logins /\ RAHolds(j) /\ RAFresh(j, row, PA!Spoiled'),
           post[p].id \in PA!Spoiled' \/
              /\ ~RABinds(post[p])
              /\ \A l \in Logins : RARefreshes(post[p], l) => RARefreshes(j, l) /\ j.id = post[p].id
              /\ RADrops(post[p]) /\ post[p].id = deft => RADrops(j) /\ j.id = post[p].id
    PROVE  RASound'
<1>1. /\ RATyped /\ RADefault /\ UNCHANGED <<row, exact, alone, deft>>
  BY DEF RASound, PA!registry
<1>2. deft' \in PA!Accounts \cup {None}
  BY <1>1 DEF RATyped
<1>3. RATyped' /\ RAMeet' /\ RAJobs' /\ RAExact' /\ RABound' /\ RAAlone'
  BY <1>1, <1>2, RAKeysKept
<1>4. post'[p] = j /\ \A q \in Posts \ {p} : post'[q] = post[q]
  BY <1>1 DEF RATyped
<1>5. RADefault'
  BY <1>1, <1>4 DEF RADefault
<1> QED BY <1>3, <1>5 DEF RASound

\* A request that begins in what it has just read.
LEMMA RAEnters ==
    ASSUME RASound, NEW p \in Posts, NEW j \in RAJob, PA!Enter(p, j), j.pc \in {"put", "next"},
           RAHolds(j), RAFresh(j, row, PA!Spoiled)
    PROVE  RASound'
<1>1. /\ RATyped /\ RAMeet /\ RAExact /\ RABound /\ RAAlone /\ RADefault
      /\ UNCHANGED <<row, exact, alone, deft, cut, silent, stopped>> /\ post[p].pc = "idle"
      /\ post' = [post EXCEPT ![p] = j] /\ met \subseteq met'
  BY DEF RASound, PA!Enter, PA!registry
<1>2. PA!Spoiled \subseteq PA!Spoiled'
  BY <1>1 DEF PA!Spoiled
<1>3. post'[p] = j /\ \A q \in Posts \ {p} : post'[q] = post[q]
  BY <1>1 DEF RATyped
<1>4. RATyped'
  BY <1>1 DEF RATyped
<1>5. RAMeet'
  <2> SUFFICES ASSUME NEW q \in Posts, NEW u \in Posts, q # u, RARuns(post'[q]), RARuns(post'[u])
               PROVE \/ post'[q].about \cap post'[u].about = {} /\ post'[q].logins \cap post'[u].logins = {}
                     \/ post'[q].about \subseteq met'
    BY DEF RAMeet
  <2> DEFINE Q == {x \in Posts \ {p} : PA!Running(x) /\ (j.about \cap post[x].about # {}
                                                        \/ j.logins \cap post[x].logins # {})}
  <2>1. met' = met \cup UNION {j.about \cup post[x].about : x \in Q}
    BY DEF PA!Enter
  <2>2. \A x \in Q : j.about \cup post[x].about \subseteq met'
    BY <2>1
  <2>3. \A x \in Posts \ {p} : RARuns(post[x]) => PA!Running(x)
    BY DEF RARuns, PA!Running
  <2>4. CASE q = p
    BY <1>3, <2>2, <2>3, <2>4
  <2>5. CASE u = p
    BY <1>3, <2>2, <2>3, <2>5
  <2>6. CASE q # p /\ u # p
    BY <1>1, <1>3, <2>6 DEF RAMeet
  <2> QED BY <2>4, <2>5, <2>6
<1>6. RAJobs'
  <2> SUFFICES ASSUME NEW q \in Posts, RARuns(post'[q])
               PROVE  RAHolds(post'[q]) /\ RAFresh(post'[q], row, PA!Spoiled')
    BY <1>1 DEF RAJobs
  <2>1. CASE q = p
    <3>1. RAFresh(j, row, PA!Spoiled')
      BY <1>2, RAFreshKept DEF RASame
    <3> QED BY <1>3, <2>1, <3>1
  <2>2. CASE q # p
    <3>1. q \in Posts \ {p} /\ RARuns(post[q]) /\ post'[q] = post[q]
      BY <1>3, <2>2
    <3>2. RAHolds(post[q]) /\ RAFresh(post[q], row, PA!Spoiled')
      BY <1>2, <3>1, RAOthersKept
    <3> QED BY <3>1, <3>2
  <2> QED BY <2>1, <2>2
<1>7. RAExact'
  <2> SUFFICES ASSUME NEW k \in PA!Identity, exact[k] # None
               PROVE \/ exact[k].id \in PA!Spoiled' \/ RAGood(row, k, exact[k])
                     \/ \E q \in Posts : post'[q].id = exact[k].id /\ RAUnbinds(post'[q], k)
    BY <1>1 DEF RAExact
  <2>1. CASE exact[k].id \in PA!Spoiled \/ RAGood(row, k, exact[k])
    BY <1>2, <2>1
  <2>2. CASE \E q \in Posts : post[q].id = exact[k].id /\ RAUnbinds(post[q], k)
    BY <1>1, <1>3, <2>2 DEF RAUnbinds
  <2> QED BY <1>1, <2>1, <2>2 DEF RAExact
<1>8. RABound'
  <2> SUFFICES ASSUME NEW a \in Mt5, PA!Binds(row[a])
               PROVE \/ a \in PA!Spoiled' \cup cut \/ exact[PA!KeyOf(row[a])] # None
                     \/ \E q \in Posts : post'[q].id = a /\ RABinds(post'[q])
    BY <1>1 DEF RABound
  <2>2. CASE \E q \in Posts : post[q].id = a /\ RABinds(post[q])
    BY <1>1, <1>3, <2>2 DEF RABinds
  <2> QED BY <1>1, <1>2, <2>2 DEF RABound
<1>9. RAAlone'
  <2> SUFFICES ASSUME NEW l \in Logins PROVE RAFits(row, l, alone[l], PA!Spoiled' \cup RAOut(l)')
    BY <1>1 DEF RAAlone
  <2>1. RAOut(l) \subseteq RAOut(l)'
    <3>1. ASSUME NEW q \in Posts, RARefreshes(post[q], l)
          PROVE  RARefreshes(post'[q], l) /\ post'[q] = post[q]
      BY <1>1, <1>3, <3>1 DEF RARefreshes
    <3> QED BY <3>1 DEF RAOut
  <2>2. RAFits(row, l, alone[l], PA!Spoiled \cup RAOut(l))
    BY <1>1 DEF RAAlone
  <2>3. PA!Spoiled \cup RAOut(l) \subseteq PA!Spoiled' \cup RAOut(l)'
    BY <1>2, <2>1
  <2> HIDE DEF RAOut
  <2> QED BY <2>2, <2>3, RAFitsKept DEF RASame
<1>10. RADefault'
  BY <1>1, <1>2, <1>3 DEF RADefault, RADrops, RAMending
<1> QED BY <1>4, <1>5, <1>6, <1>7, <1>8, <1>9, <1>10 DEF RASound

-----------------------------------------------------------------------------
(* The requests begin *)
LEMMA RARowsOf == ASSUME NEW S \in SUBSET PA!Accounts, NEW f \in [S -> RAMaybe] PROVE f \in RARows
  BY DEF RARows

LEMMA RALoginsOf ==
    ASSUME NEW x \in RAMaybe, NEW y \in RAMaybe
    PROVE  /\ PA!LoginsOf({x, y}) \subseteq Logins
           /\ \A l : l \in PA!LoginsOf({x, y}) <=> \/ x # None /\ x.login = l /\ l # None
                                                   \/ y # None /\ y.login = l /\ l # None
  BY DEF PA!LoginsOf, RAMaybe, PA!Row

\* The request that writes `now' over the row `was' of one account.
RARequest(j, kind, a, was, now, drop) ==
    /\ j \in RAJob /\ j.pc = "put" /\ j.kind = kind /\ j.id = a /\ j.was = was
    /\ j.puts = [x \in {a} |-> now] /\ j.about = {a} /\ j.logins = PA!LoginsOf({was, now})
    /\ j.drop = drop

LEMMA RAJobOf ==
    ASSUME NEW kind \in RAAsks, NEW a \in PA!Accounts, NEW was \in RAMaybe, NEW now \in RAMaybe
    PROVE  /\ RARequest(PA!Job(kind, a, was, now), kind, a, was, now, FALSE)
           /\ \A want \in BOOLEAN \cup {Keep}, drop \in BOOLEAN :
                RARequest([PA!Job(kind, a, was, now) EXCEPT !.want = want, !.drop = drop],
                          kind, a, was, now, drop)
<1>1. [x \in {a} |-> now] \in RARows
  BY RARowsOf
<1>2. PA!LoginsOf({was, now}) \subseteq Logins
  BY RALoginsOf
<1>3. PA!Idle \in RAJob /\ PA!Idle.drop = FALSE
  BY RAIdle DEF PA!Idle
<1> DEFINE j == PA!Job(kind, a, was, now)
<1>4. j \in RAJob
  BY <1>1, <1>2, <1>3 DEF PA!Job, RAJob, RAStages, RAKinds
<1>5. RARequest(j, kind, a, was, now, FALSE)
  BY <1>3, <1>4 DEF PA!Job, RAJob, RARequest
<1> HIDE DEF j
<1>6. ASSUME NEW want \in BOOLEAN \cup {Keep}, NEW drop \in BOOLEAN
      PROVE  RARequest([j EXCEPT !.want = want, !.drop = drop], kind, a, was, now, drop)
  <2>1. [j EXCEPT !.want = want, !.drop = drop] \in RAJob
    BY <1>4 DEF RAJob
  <2> QED BY <1>4, <1>5, <2>1 DEF RARequest, RAJob
<1> QED BY <1>5, <1>6 DEF j

LEMMA RAOneRow ==
    ASSUME RASound, NEW p \in Posts, NEW j, PA!Enter(p, j),
           NEW kind \in {"edit", "create", "delete", "ctrader"},
           NEW a \in PA!Accounts, NEW now \in RAMaybe, NEW drop,
           RARequest(j, kind, a, row[a], now, drop),
           a \in Mt5 => RALogs(now),
           kind = "ctrader" => a \in CTrader,
           kind \in {"create", "delete"} => a \in Mt5,
           kind = "create" => row[a] = None,
           kind = "edit" => row[a] # None /\ now # None /\ (drop \/ now.on \/ ~row[a].on)
    PROVE  RASound'
<1>1. row[a] \in RAMaybe /\ (a \in Mt5 => RALogs(row[a]))
  BY DEF RASound, RATyped
<1>2. /\ j \in RAJob /\ j.pc = "put" /\ j.kind = kind /\ j.id = a /\ j.was = row[a]
      /\ j.puts = [x \in {a} |-> now] /\ j.about = {a} /\ j.logins = PA!LoginsOf({row[a], now})
      /\ j.drop = drop
  BY DEF RARequest
<1>4. RAWrites(j)
  BY <1>1, <1>2 DEF RAWrites
<1>5. RAHolds(j)
  BY <1>1, <1>2, <1>4 DEF RAHolds, RAMending, RAAsks
<1>6. RAFresh(j, row, PA!Spoiled)
  BY <1>2 DEF RAFresh, RAMending
<1> QED BY <1>2, <1>5, <1>6, RAEnters

LEMMA RAEditMt5 ==
    ASSUME RASound, NEW p \in Posts, NEW a \in Mt5, NEW q \in Patches, PA!EditMt5(p, a, q) PROVE RASound'
<1> DEFINE was == row[a]
           now == [was EXCEPT !.on = PA!Or(q.on, @), !.prof = PA!Or(q.prof, @), !.srv = PA!Or(q.srv, @)]
<1>1. /\ was # None
      /\ PA!Enter(p, [PA!Job("edit", a, was, now) EXCEPT !.want = q.deft, !.drop = ~now.on])
  BY DEF PA!EditMt5, PA!Has
<1>2. was \in PA!Row /\ a \in PA!Accounts /\ was.login \in Logins
  BY <1>1 DEF RASound, RATyped, RAMaybe, PA!Accounts, RALogs
<1>3. q \in [on : BOOLEAN \cup {Keep}, prof : Profiles \cup {None, Keep},
             srv : Servers \cup {None, Keep}, deft : BOOLEAN \cup {Keep}]
  BY AccountsAssumption
<1>4. PA!Or(q.on, was.on) \in BOOLEAN /\ PA!Or(q.prof, was.prof) \in Profiles \cup {None}
      /\ PA!Or(q.srv, was.srv) \in Servers \cup {None}
  BY <1>2, <1>3 DEF PA!Or, PA!Row
<1>6. now \in PA!Row /\ now.login \in Logins /\ now.on \in BOOLEAN
  BY <1>2, <1>4 DEF PA!Row
<1>7. now # None /\ now \in RAMaybe
  BY <1>6, AccountsAssumption DEF RAMaybe
<1> HIDE DEF now
<1>8. /\ was \in RAMaybe /\ (~now.on) \in BOOLEAN /\ q.deft \in BOOLEAN \cup {Keep}
      /\ "edit" \in RAAsks
  BY <1>2, <1>3, <1>6 DEF RAMaybe, RAAsks
<1>9. RARequest([PA!Job("edit", a, was, now) EXCEPT !.want = q.deft, !.drop = ~now.on],
                "edit", a, was, now, ~now.on)
  BY <1>2, <1>7, <1>8, RAJobOf
<1> QED BY <1>1, <1>2, <1>6, <1>7, <1>9, RAOneRow DEF RALogs

LEMMA RACreateMt5 ==
    ASSUME RASound, NEW p \in Posts, NEW a \in Mt5, NEW f \in Forms, PA!CreateMt5(p, a, f) PROVE RASound'
<1> DEFINE now == [on |-> FALSE, login |-> f.login, prof |-> f.prof, srv |-> f.srv]
<1>1. row[a] = None /\ PA!Enter(p, PA!Job("create", a, None, now))
  BY DEF PA!CreateMt5, PA!Has
<1>2. now \in PA!Row /\ now.login \in Logins /\ a \in PA!Accounts
  BY AccountsAssumption DEF PA!Row, PA!Accounts
<1> HIDE DEF now
<1>3. RARequest(PA!Job("create", a, None, now), "create", a, None, now, FALSE)
  BY <1>2, RAJobOf DEF RAMaybe, RAAsks
<1> QED BY <1>1, <1>2, <1>3, RAOneRow DEF RALogs, RAMaybe

LEMMA RADeleteMt5 ==
    ASSUME RASound, NEW p \in Posts, NEW a \in Mt5, PA!DeleteMt5(p, a) PROVE RASound'
<1>1. PA!Enter(p, PA!Job("delete", a, row[a], None)) /\ a \in PA!Accounts
  BY DEF PA!DeleteMt5, PA!Accounts
<1>3. RARequest(PA!Job("delete", a, row[a], None), "delete", a, row[a], None, FALSE)
  BY <1>1, RAJobOf DEF RASound, RATyped, RAMaybe, RAAsks
<1> QED BY <1>1, <1>3, RAOneRow DEF RALogs, RAMaybe

LEMMA RAEditCTrader ==
    ASSUME RASound, NEW p \in Posts, NEW a \in CTrader, NEW q \in Patches,
           NEW kind \in {"edit", "ctrader"}, PA!EditCTrader(p, a, q, kind)
    PROVE  RASound'
<1> DEFINE was == row[a]
           now == [was EXCEPT !.on = PA!Or(q.on, @)]
<1>1. /\ was # None
      /\ PA!Enter(p, [PA!Job(kind, a, was, now) EXCEPT !.want = q.deft, !.drop = q.on = FALSE])
  BY DEF PA!EditCTrader, PA!Has
<1>2. was \in PA!Row /\ a \in PA!Accounts /\ a \notin Mt5
  BY <1>1, AccountsAssumption DEF RASound, RATyped, RAMaybe, PA!Accounts
<1>3. q.on \in BOOLEAN \cup {Keep} /\ q.deft \in BOOLEAN \cup {Keep}
  BY AccountsAssumption
<1>4. PA!Or(q.on, was.on) \in BOOLEAN
  BY <1>2, <1>3 DEF PA!Or, PA!Row
<1>6. now \in PA!Row /\ ((q.on = FALSE) \/ now.on \/ ~was.on)
  BY <1>2, <1>3, <1>4 DEF PA!Row, PA!Or
<1>7. now # None /\ now \in RAMaybe
  BY <1>6, AccountsAssumption DEF RAMaybe
<1> HIDE DEF now
<1>8. was \in RAMaybe /\ (q.on = FALSE) \in BOOLEAN /\ kind \in RAAsks
  BY <1>2 DEF RAMaybe, RAAsks
<1> DEFINE drop == (q.on = FALSE)
           j == [PA!Job(kind, a, was, now) EXCEPT !.want = q.deft, !.drop = drop]
<1>9. RARequest(j, kind, a, was, now, drop)
  BY <1>2, <1>3, <1>7, <1>8, RAJobOf
<1>10. PA!Enter(p, j) /\ (drop \/ now.on \/ ~was.on)
  BY <1>1, <1>6
<1> HIDE DEF j, drop
<1>11. kind \in {"edit", "create", "delete", "ctrader"} /\ (kind = "ctrader" => a \in CTrader)
       /\ kind \notin {"create", "delete"}
  OBVIOUS
<1> QED BY <1>1, <1>2, <1>7, <1>9, <1>10, <1>11, RAOneRow

LEMMA RASyncCTrader ==
    ASSUME RASound, NEW p \in Posts, NEW granted \in SUBSET CTrader, PA!SyncCTrader(p, granted)
    PROVE  RASound'
<1> DEFINE puts == [a \in granted |-> IF PA!Has(row, a) THEN row[a] ELSE PA!Discovered(a)]
           j == [PA!Idle EXCEPT !.pc = "put", !.kind = "sync", !.about = granted, !.puts = puts]
<1>1. PA!Enter(p, j)
  BY DEF PA!SyncCTrader
<1>2. granted \in SUBSET PA!Accounts
  BY DEF PA!Accounts
<1>3. ASSUME NEW a \in granted PROVE puts[a] \in PA!Row /\ puts[a] \in RAMaybe
  BY <1>2 DEF PA!Has, PA!Discovered, PA!Row, RAMaybe, RASound, RATyped
<1>4. puts \in RARows /\ DOMAIN puts = granted
  BY <1>2, <1>3, RARowsOf
<1>5. \A a \in granted : row[a] = None \/ puts[a] = row[a]
  BY DEF PA!Has
<1>6. PA!Idle \in RAJob /\ PA!Idle.logins = {}
  BY RAIdle DEF PA!Idle
<1> HIDE DEF puts
<1>7. j \in RAJob
  BY ZenonT(60), <1>2, <1>4, <1>6 DEF RAJob, RAStages, RAKinds, RAAsks
<1>8. /\ j.pc = "put" /\ j.kind = "sync" /\ j.about = granted /\ j.puts = puts
  BY <1>6, <1>7 DEF RAJob
<1> HIDE DEF j
<1>9. None \notin PA!Row
  BY AccountsAssumption
<1>10. RAHolds(j)
  BY <1>3, <1>4, <1>8, <1>9 DEF RAHolds, RAMending, RAAsks
<1>11. RAFresh(j, row, PA!Spoiled)
  BY <1>5, <1>8 DEF RAFresh, RAMending
<1> QED BY <1>1, <1>7, <1>8, <1>10, <1>11, RAEnters

LEMMA RAHeartbeats ==
    ASSUME RASound, NEW p \in Posts, NEW bs \in SUBSET Beats, PA!Heartbeats(p, bs)
    PROVE  RASound'
<1> DEFINE A == UNION {PA!Matches(row, b) \cup {b.id} : b \in bs}
           L == PA!LoginsOf(bs \cup {row[a] : a \in A})
           j == [PA!Idle EXCEPT !.pc = "next", !.kind = "beat", !.about = A, !.list = row, !.rest = bs,
                             !.logins = L]
<1>1. PA!Enter(p, j)
  BY DEF PA!Heartbeats
<1>2. /\ row \in [PA!Accounts -> RAMaybe] /\ \A a \in Mt5 : RALogs(row[a])
  BY DEF RASound, RATyped
<1>3. ASSUME NEW b \in bs
      PROVE  b.id \in Mt5 /\ b.login \in Logins /\ b \in Beats /\ b # None
  BY AccountsAssumption
<1>4. A \subseteq Mt5 /\ A \subseteq PA!Accounts
  BY <1>3 DEF PA!Matches, PA!Accounts
<1>5. L \subseteq Logins
  BY <1>2, <1>3, <1>4 DEF PA!LoginsOf, RALogs
<1>6. \A b \in bs : b.id \in A /\ PA!Matches(row, b) \subseteq A
  OBVIOUS
<1>7. \A b \in bs : b.login \in L
  BY <1>3, AccountsAssumption DEF PA!LoginsOf
<1>8. \A a \in A : PA!LoginsOf({row[a]}) \subseteq L
  BY DEF PA!LoginsOf
<1>9. row \in RARows /\ DOMAIN row = PA!Accounts
  BY <1>2, RARowsOf
<1>10. PA!Idle \in RAJob
  BY RAIdle
<1> HIDE DEF A, L
<1>11. j \in RAJob
  BY ZenonT(60), <1>3, <1>4, <1>5, <1>9, <1>10 DEF RAJob, RAStages, RAKinds, RAAsks
<1>12. /\ j.pc = "next" /\ j.kind = "beat" /\ j.about = A /\ j.list = row /\ j.rest = bs
       /\ j.logins = L
  BY <1>10, <1>11 DEF RAJob
<1> HIDE DEF j
<1>13. RALists(j)
  BY <1>2, <1>3, <1>6, <1>7, <1>8, <1>9, <1>12 DEF RALists
<1>14. RAHolds(j)
  BY <1>12, <1>13 DEF RAHolds, RAMending, RAAsks
<1>15. RAFresh(j, row, PA!Spoiled)
  BY <1>12 DEF RAFresh, RAMending
<1> QED BY <1>1, <1>11, <1>12, <1>14, <1>15, RAEnters

LEMMA RAReconcile ==
    ASSUME RASound, NEW p \in Posts, PA!Reconcile(p)
    PROVE  RASound'
<1> DEFINE A == {a \in Mt5 : PA!On(row, a) /\ row[a].prof # None}
           L == PA!LoginsOf({row[a] : a \in A})
           j == [PA!Idle EXCEPT !.pc = "next", !.kind = "check", !.about = A, !.rest = A,
                             !.list = row, !.logins = L]
<1>1. PA!Enter(p, j)
  BY DEF PA!Reconcile
<1>2. /\ row \in [PA!Accounts -> RAMaybe] /\ \A a \in Mt5 : RALogs(row[a])
  BY DEF RASound, RATyped
<1>4. A \subseteq Mt5 /\ A \subseteq PA!Accounts /\ \A a \in A : row[a] # None /\ row[a].on
  BY DEF PA!Accounts, PA!On, PA!Has
<1>5. L \subseteq Logins
  BY <1>2, <1>4 DEF PA!LoginsOf, RALogs
<1>8. \A a \in A : PA!LoginsOf({row[a]}) \subseteq L
  BY DEF PA!LoginsOf
<1>9. row \in RARows /\ DOMAIN row = PA!Accounts
  BY <1>2, RARowsOf
<1>10. PA!Idle \in RAJob
  BY RAIdle
<1> HIDE DEF A, L
<1>11. j \in RAJob
  BY ZenonT(60), <1>4, <1>5, <1>9, <1>10 DEF RAJob, RAStages, RAKinds, RAAsks
<1>12. /\ j.pc = "next" /\ j.kind = "check" /\ j.about = A /\ j.list = row /\ j.rest = A
       /\ j.logins = L
  BY <1>10, <1>11 DEF RAJob
<1> HIDE DEF j
<1>13. RALists(j)
  BY <1>2, <1>4, <1>8, <1>9, <1>12 DEF RALists
<1>14. RAHolds(j)
  BY <1>12, <1>13 DEF RAHolds, RAMending, RAAsks
<1>15. RAFresh(j, row, PA!Spoiled)
  BY <1>12 DEF RAFresh, RAMending
<1> QED BY <1>1, <1>11, <1>12, <1>14, <1>15, RAEnters

-----------------------------------------------------------------------------
(* The steps that change no row, key or default *)

LEMMA RAJobIn ==
    ASSUME RASound, NEW p \in Posts
    PROVE  post[p] \in RAJob /\ (RARuns(post[p]) => RAHolds(post[p]) /\ RAFresh(post[p], row, PA!Spoiled))
  BY DEF RASound, RATyped, RAJobs

LEMMA RAHeartbeatRow ==
    ASSUME RASound, NEW p \in Posts, NEW b \in Beats, PA!HeartbeatRow(p, b) PROVE RASound'
<1> DEFINE j == post[p]
           M == PA!Matches(j.list, b)
           new == [on |-> b.on, login |-> b.login, prof |-> b.prof, srv |-> b.srv]
           Write(a, was) == [j EXCEPT !.pc = "put", !.id = a, !.was = was,
                                      !.puts = [x \in {a} |-> new], !.rest = @ \ {b}]
           less == [j EXCEPT !.rest = @ \ {b}]
<1>1. /\ j.pc = "next" /\ j.kind = "beat" /\ b \in j.rest
      /\ UNCHANGED <<PA!registry, PA!ghosts>>
      /\ \/ M = {} /\ post' = [post EXCEPT ![p] = Write(b.id, None)]
         \/ \E a \in M : /\ post' = [post EXCEPT ![p] = less] \/ post' = [post EXCEPT ![p] = Write(a, j.list[a])]
  BY DEF PA!HeartbeatRow
<1>2. j \in RAJob /\ RAHolds(j) /\ RAFresh(j, row, PA!Spoiled) /\ RARuns(j)
  BY <1>1, RAJobIn DEF RARuns
<1>3. RALists(j)
  BY <1>1, <1>2 DEF RAHolds
<1>4. b.id \in Mt5 /\ b.login \in Logins /\ new \in PA!Row
  BY AccountsAssumption DEF PA!Row
<1>5. /\ met \subseteq met' /\ PA!Spoiled' = PA!Spoiled /\ cut \subseteq cut' /\ silent \subseteq silent'
      /\ UNCHANGED PA!registry
  BY <1>1 DEF PA!ghosts, PA!Spoiled
<1> HIDE DEF j, new
<1>6. CASE post' = [post EXCEPT ![p] = less]
  <2>1. less \in RAJob
    BY <1>2 DEF RAJob
  <2>2. /\ less.pc = "next" /\ less.kind = "beat" /\ less.about = j.about /\ less.list = j.list
        /\ less.rest = j.rest \ {b} /\ less.logins = j.logins
    BY <1>1, <1>2, <2>1 DEF RAJob
  <2> HIDE DEF less
  <2>3. RALists(less)
    BY <1>1, <1>3, <2>2 DEF RALists
  <2>4. RAHolds(less)
    BY <2>2, <2>3 DEF RAHolds, RAMending, RAAsks
  <2>5. RAFresh(less, row, PA!Spoiled)
    BY <1>1, <1>2, <2>2 DEF RAFresh, RAMending
  <2> QED BY <1>1, <1>2, <1>5, <1>6, <2>1, <2>2, <2>4, <2>5, RAQuiet
       DEF j, RABinds, RARefreshes, RADrops, RAMending
<1>7. ASSUME NEW a \in Mt5, NEW was \in RAMaybe, was = j.list[a], a \in j.about,
             post' = [post EXCEPT ![p] = Write(a, was)]
      PROVE  RASound'
  <2> DEFINE k == Write(a, was)
  <2>1. [x \in {a} |-> new] \in RARows /\ a \in PA!Accounts
    BY <1>4, RARowsOf DEF PA!Accounts, RAMaybe
  <2>2. k \in RAJob
    BY <1>2, <2>1, <1>7 DEF RAJob, RAStages
  <2>3. /\ k.pc = "put" /\ k.kind = "beat" /\ k.id = a /\ k.was = was /\ k.puts = [x \in {a} |-> new]
        /\ k.about = j.about /\ k.logins = j.logins /\ k.list = j.list /\ k.rest = j.rest \ {b}
    BY <1>1, <1>2, <2>2 DEF RAJob
  <2> HIDE DEF k
  <2>4. RALists(k)
    BY <1>1, <1>3, <2>3 DEF RALists
  <2>5. PA!LoginsOf({was, new}) \subseteq j.logins
    <3>1. PA!LoginsOf({was}) \subseteq j.logins /\ b.login \in j.logins /\ new.login = b.login
      BY <1>1, <1>3, <1>7 DEF RALists, new
    <3>2. new \in RAMaybe
      BY <1>4 DEF RAMaybe
    <3>3. ASSUME NEW l \in PA!LoginsOf({was, new}) PROVE l \in j.logins
      <4>1. (was # None /\ was.login = l /\ l # None) \/ l = b.login
        BY <1>7, <3>1, <3>2, RALoginsOf
      <4>2. was # None /\ was.login = l /\ l # None => l \in PA!LoginsOf({was})
        BY DEF PA!LoginsOf
      <4> QED BY <3>1, <4>1, <4>2
    <3> QED BY <3>3
  <2>6. RAWrites(k)
    <3>1. RALogs(was) /\ RALogs(new)
      BY <1>3, <1>4, <1>7 DEF RALogs, RALists, new
    <3>2. k.puts[a] = new /\ DOMAIN k.puts = {a}
      BY <2>3
    <3> QED BY <2>3, <2>5, <3>1, <3>2 DEF RAWrites
  <2>7. RAHolds(k)
    BY <1>7, <2>3, <2>4, <2>6 DEF RAHolds, RAMending, RAAsks
  <2>8. RAFresh(k, row, PA!Spoiled)
    BY <1>1, <1>2, <1>7, <2>3 DEF RAFresh, RAMending
  <2> QED BY <1>1, <1>2, <1>5, <1>7, <2>2, <2>3, <2>7, <2>8, RAQuiet
       DEF j, k, RABinds, RARefreshes, RADrops, RAMending, RARuns
<1>8. CASE M = {} /\ post' = [post EXCEPT ![p] = Write(b.id, None)]
  <2>1. b.id \in PA!Accounts /\ j.list[b.id] = None /\ b.id \in j.about
    BY <1>1, <1>3, <1>4, <1>8 DEF RALists, PA!Matches, PA!Has, PA!Accounts
  <2> QED BY <1>4, <1>7, <1>8, <2>1 DEF RAMaybe
<1>9. CASE \E a \in M : post' = [post EXCEPT ![p] = Write(a, j.list[a])]
  <2>1. PICK a \in M : post' = [post EXCEPT ![p] = Write(a, j.list[a])]
    BY <1>9
  <2>2. a \in Mt5 /\ a \in j.about
    BY <1>1, <1>3 DEF RALists, PA!Matches
  <2>3. a \in DOMAIN j.list /\ j.list \in RARows
    BY <1>2, <1>3, <2>2 DEF RALists, PA!Accounts, RAJob
  <2>4. j.list[a] \in RAMaybe
    BY <2>3 DEF RARows
  <2> QED BY <1>7, <2>1, <2>2, <2>4
<1> QED BY <1>1, <1>6, <1>8, <1>9

LEMMA RAListed ==
    ASSUME NEW j \in RAJob, RALists(j), NEW a \in j.about
    PROVE  j.list[a] \in RAMaybe /\ a \in PA!Accounts
<1>1. j.list \in RARows /\ j.about \subseteq PA!Accounts /\ DOMAIN j.list = PA!Accounts
  BY DEF RAJob, RALists
<1> QED BY <1>1 DEF RARows

LEMMA RAReconcileRow ==
    ASSUME RASound, NEW p \in Posts, NEW a \in Mt5, NEW s \in Servers \cup {None},
           PA!ReconcileRow(p, a, s)
    PROVE  RASound'
<1> DEFINE j == post[p]
           was == j.list[a]
           now == [was EXCEPT !.srv = s]
           less == [j EXCEPT !.rest = @ \ {a}]
           on == [j EXCEPT !.id = a, !.was = None, !.puts = [x \in {a} |-> now], !.rest = @ \ {a}]
           writes == [on EXCEPT !.pc = "put", !.was = was]
           keeps == [on EXCEPT !.pc = "bind"]
<1>1. /\ j.pc = "next" /\ j.kind = "check" /\ a \in j.rest
      /\ UNCHANGED <<PA!registry, PA!ghosts>>
      /\ post' = [post EXCEPT ![p] = IF s = None \/ was.srv \notin {None, s} THEN less
                                     ELSE IF was.srv = None THEN writes ELSE keeps]
  BY DEF PA!ReconcileRow
<1>2. j \in RAJob /\ RAHolds(j) /\ RAFresh(j, row, PA!Spoiled) /\ RARuns(j)
  BY <1>1, RAJobIn DEF RARuns
<1>3. RALists(j) /\ a \in j.about
  BY <1>1, <1>2 DEF RAHolds, RALists
<1>4. was \in PA!Row /\ was.on /\ was.login \in Logins /\ was # None /\ a \in PA!Accounts
  BY <1>1, <1>2, <1>3, RAListed DEF RAMaybe, RALists, RALogs
<1>5. /\ met \subseteq met' /\ PA!Spoiled' = PA!Spoiled /\ cut \subseteq cut' /\ silent \subseteq silent'
      /\ UNCHANGED PA!registry
  BY <1>1 DEF PA!ghosts, PA!Spoiled
<1>6. a \in PA!Spoiled \/ row[a] = was
  BY <1>1, <1>2, <1>3 DEF RAFresh
<1>7. was.login \in j.logins
  <2>1. PA!LoginsOf({was}) \subseteq j.logins
    BY <1>3 DEF RALists
  <2> QED BY <1>4, <2>1, AccountsAssumption DEF PA!LoginsOf
<1> HIDE DEF j, was
<1>8. /\ now \in PA!Row /\ now.on /\ now.login = was.login /\ now.srv = s
      /\ was.srv = s => now = was
  BY <1>4 DEF PA!Row
<1>81. now # None
  BY <1>8, AccountsAssumption
<1> HIDE DEF now
<1>9. [x \in {a} |-> now] \in RARows
  BY <1>4, <1>8, RARowsOf DEF RAMaybe
<1>10. CASE post' = [post EXCEPT ![p] = less]
  <2>1. less \in RAJob
    BY <1>2 DEF RAJob
  <2>2. /\ less.pc = "next" /\ less.kind = "check" /\ less.about = j.about /\ less.list = j.list
        /\ less.rest = j.rest \ {a} /\ less.logins = j.logins
    BY <1>1, <1>2, <2>1 DEF RAJob
  <2> HIDE DEF less
  <2>3. RALists(less)
    BY <1>1, <1>3, <2>2 DEF RALists
  <2>4. RAHolds(less)
    BY <2>2, <2>3 DEF RAHolds, RAMending, RAAsks
  <2>5. RAFresh(less, row, PA!Spoiled)
    BY <1>1, <1>2, <2>2 DEF RAFresh, RAMending
  <2> QED BY <1>1, <1>2, <1>5, <1>10, <2>1, <2>2, <2>4, <2>5, RAQuiet
       DEF j, RABinds, RARefreshes, RADrops, RAMending
<1>11. on \in RAJob
  BY <1>2, <1>4, <1>9 DEF RAJob, RAMaybe
<1>12. /\ on.kind = "check" /\ on.id = a /\ on.was = None /\ on.puts = [x \in {a} |-> now]
       /\ on.about = j.about /\ on.list = j.list /\ on.rest = j.rest \ {a} /\ on.logins = j.logins
  BY <1>1, <1>2, <1>11 DEF RAJob
<1> HIDE DEF on
<1>13. \A x \in {was, None} : PA!LoginsOf({x, now}) \subseteq j.logins
  BY <1>4, <1>7, <1>8 DEF PA!LoginsOf
<1>14. CASE post' = [post EXCEPT ![p] = writes]
  <2>1. writes \in RAJob
    BY <1>4, <1>11 DEF RAJob, RAStages, RAMaybe
  <2>2. /\ writes.pc = "put" /\ writes.kind = "check" /\ writes.id = a /\ writes.was = was
        /\ writes.puts = [x \in {a} |-> now] /\ writes.about = j.about /\ writes.list = j.list
        /\ writes.rest = j.rest \ {a} /\ writes.logins = j.logins
    BY <1>11, <1>12, <2>1 DEF RAJob
  <2> HIDE DEF writes
  <2>3. RALists(writes)
    BY <1>1, <1>3, <2>2 DEF RALists
  <2>4. RAWrites(writes)
    <3>1. writes.puts[a] = now /\ DOMAIN writes.puts = {a}
      BY <2>2
    <3> QED BY <1>4, <1>8, <1>13, <2>2, <3>1 DEF RAWrites, RALogs
  <2>5. RAHolds(writes)
    BY <1>3, <1>8, <1>81, <2>2, <2>3, <2>4 DEF RAHolds, RAMending, RAAsks
  <2>6. RAFresh(writes, row, PA!Spoiled)
    BY <1>1, <1>2, <1>6, <2>2 DEF RAFresh, RAMending
  <2> QED BY ZenonT(60), <1>1, <1>2, <1>5, <1>14, <2>1, <2>2, <2>5, <2>6, RAQuiet
       DEF j, RABinds, RARefreshes, RADrops, RAMending
<1>15. CASE post' = [post EXCEPT ![p] = keeps] /\ was.srv = s
  <2>1. keeps \in RAJob
    BY <1>4, <1>11 DEF RAJob, RAStages, RAMaybe
  <2>2. /\ keeps.pc = "bind" /\ keeps.kind = "check" /\ keeps.id = a /\ keeps.was = None
        /\ keeps.puts = [x \in {a} |-> now] /\ keeps.about = j.about /\ keeps.list = j.list
        /\ keeps.rest = j.rest \ {a} /\ keeps.logins = j.logins
    BY <1>11, <1>12, <2>1 DEF RAJob
  <2> HIDE DEF keeps
  <2>3. RALists(keeps)
    BY <1>1, <1>3, <2>2 DEF RALists
  <2>31. keeps.puts[a] = now /\ DOMAIN keeps.puts = {a}
    BY <2>2
  <2>4. RAWrites(keeps)
    BY <1>4, <1>8, <1>13, <2>2, <2>31 DEF RAWrites, RALogs
  <2>5. RAHolds(keeps)
    BY <1>3, <1>8, <2>2, <2>3, <2>4 DEF RAHolds, RAMending, RAAsks
  <2>6. RAFresh(keeps, row, PA!Spoiled)
    BY <1>1, <1>2, <1>6, <1>8, <1>15, <2>2, <2>31 DEF RAFresh, RAMending
  <2> QED BY ZenonT(60), <1>1, <1>2, <1>5, <1>15, <2>1, <2>2, <2>5, <2>6, RAQuiet
       DEF j, RABinds, RARefreshes, RADrops, RAMending
<1>16. s \in Servers \/ s = None
  OBVIOUS
<1> HIDE DEF less, writes, keeps
<1> QED BY <1>1, <1>10, <1>14, <1>15

LEMMA RALeaves ==
    ASSUME RASound, NEW p \in Posts, NEW j, j = [PA!Idle EXCEPT !.pc = "done"],
           post' = [post EXCEPT ![p] = j], UNCHANGED <<PA!registry, PA!ghosts>>,
           post[p].pc \in {"next", "choose", "default"},
           RADrops(post[p]) => post[p].id # deft
    PROVE  RASound'
<1>1. j \in RAJob /\ j.pc = "done"
  BY RAIdle DEF RAJob
<1>2. /\ met \subseteq met' /\ PA!Spoiled' = PA!Spoiled /\ cut \subseteq cut' /\ silent \subseteq silent'
      /\ UNCHANGED PA!registry
  BY DEF PA!ghosts, PA!Spoiled
<1>3. ~RABinds(post[p]) /\ ~RARuns(j) /\ \A l \in Logins : ~RARefreshes(post[p], l)
  BY <1>1 DEF RABinds, RARuns, RARefreshes
<1> QED BY <1>1, <1>2, <1>3, RAQuiet

LEMMA RALastRow == ASSUME RASound, NEW p \in Posts, PA!LastRow(p) PROVE RASound'
<1>1. post[p].pc = "next" /\ post' = [post EXCEPT ![p] = [PA!Idle EXCEPT !.pc = "done"]]
      /\ UNCHANGED <<PA!registry, PA!ghosts>>
  BY DEF PA!LastRow, PA!At
<1> QED BY <1>1, RALeaves DEF RADrops, RAMending


\* A request at its default or its choice.
LEMMA RAChooses ==
    ASSUME NEW j \in RAJob, RAHolds(j), j.pc \in {"put", "alone", "default", "drop", "choose"},
           j.kind \in {"edit", "delete"},
           NEW k, k.pc \in {"choose", "chosen", "default", "drop"},
           k.kind = j.kind, k.id = j.id, k.about = j.about, NEW r, NEW S,
           k.pc = "chosen" => PA!On(r, k.id)
    PROVE  RAHolds(k) /\ RAFresh(k, r, S)
<1>1. RAHolds(k)
  BY DEF RAHolds, RAMending, RAAsks
<1>2. RAFresh(k, r, S)
  BY DEF RAFresh, RAMending
<1> QED BY <1>1, <1>2

LEMMA RAAt ==
    ASSUME NEW j \in RAJob, NEW to \in RAStages
    PROVE  /\ PA!At(j, to) \in RAJob /\ PA!At(j, to).pc = to
           /\ to = "done" => PA!At(j, to) = [PA!Idle EXCEPT !.pc = "done"]
           /\ to # "done" =>
                /\ PA!At(j, to).kind = j.kind /\ PA!At(j, to).id = j.id /\ PA!At(j, to).about = j.about
                /\ PA!At(j, to).logins = j.logins /\ PA!At(j, to).drop = j.drop
                /\ PA!At(j, to).puts = j.puts /\ PA!At(j, to).was = j.was /\ PA!At(j, to).todo = j.todo
                /\ PA!At(j, to).list = j.list /\ PA!At(j, to).rest = j.rest
<1>1. CASE to = "done"
  BY <1>1, RAIdle DEF PA!At, RAJob
<1>2. CASE to # "done"
  <2>1. PA!At(j, to) = [j EXCEPT !.pc = to]
    BY <1>2 DEF PA!At
  <2>2. [j EXCEPT !.pc = to] \in RAJob
    BY DEF RAJob
  <2> QED BY <1>2, <2>1, <2>2 DEF RAJob
<1> QED BY <1>1, <1>2

LEMMA RAChoice ==
    ASSUME NEW j \in RAJob
    PROVE  PA!Choice(j) \in {"done", "choose", "default"} /\ PA!AfterDefault(j) \in {"done", "choose", "default"}
  BY DEF PA!Choice, PA!AfterDefault, RAJob

LEMMA RALookAtDefault == ASSUME RASound, NEW p \in Posts, PA!LookAtDefault(p) PROVE RASound'
<1> DEFINE j == post[p]
           less == [j EXCEPT !.drop = FALSE]
           to == IF deft = j.id THEN "drop" ELSE PA!AfterDefault(j)
           k == PA!At(IF deft = j.id THEN j ELSE less, to)
<1>1. j.pc = "default" /\ post' = [post EXCEPT ![p] = k] /\ UNCHANGED <<PA!registry, PA!ghosts>>
  BY DEF PA!LookAtDefault
<1>2. j \in RAJob /\ RAHolds(j) /\ RARuns(j) /\ j.kind \in {"edit", "delete"}
  BY <1>1, RAJobIn DEF RARuns, RAHolds
<1>3. less \in RAJob /\ less.kind = j.kind /\ less.id = j.id /\ less.about = j.about /\ less.logins = j.logins
  BY <1>2 DEF RAJob
<1>4. to \in {"drop", "done", "choose", "default"} /\ (deft = j.id => to = "drop")
  BY <1>2, RAChoice
<1>5. to \in RAStages
  BY <1>4 DEF RAStages
<1>6. /\ k \in RAJob /\ k.pc = to /\ (to = "done" => k = [PA!Idle EXCEPT !.pc = "done"])
      /\ to # "done" => k.kind = j.kind /\ k.id = j.id /\ k.about = j.about /\ k.logins = j.logins
  BY ZenonT(60), <1>2, <1>3, <1>5, RAAt
<1>7. /\ met \subseteq met' /\ PA!Spoiled' = PA!Spoiled /\ cut \subseteq cut' /\ silent \subseteq silent'
      /\ UNCHANGED PA!registry
  BY <1>1 DEF PA!ghosts, PA!Spoiled
<1> HIDE DEF k, to, less
<1>8. CASE to = "done"
  BY <1>1, <1>4, <1>6, <1>8, RALeaves
<1>9. CASE to # "done"
  <2>1. RAHolds(k) /\ RAFresh(k, row, PA!Spoiled)
    BY <1>1, <1>2, <1>4, <1>6, <1>9, RAChooses
  <2>2. /\ ~RABinds(post[p]) /\ \A l \in Logins : ~RARefreshes(post[p], l)
        /\ post[p].id = deft => RADrops(k)
    BY <1>1, <1>4, <1>6 DEF RABinds, RARefreshes, RADrops
  <2> QED BY <1>1, <1>2, <1>6, <1>7, <1>9, <2>1, <2>2, RAQuiet DEF j
<1> QED BY <1>8, <1>9

LEMMA RALookBeforeDefault == ASSUME RASound, NEW p \in Posts, PA!LookBeforeDefault(p) PROVE RASound'
<1> DEFINE j == post[p]
           to == IF PA!On(row, j.id) THEN "chosen" ELSE "done"
           k == PA!At(j, to)
<1>1. j.pc = "choose" /\ post' = [post EXCEPT ![p] = k] /\ UNCHANGED <<PA!registry, PA!ghosts>>
  BY DEF PA!LookBeforeDefault
<1>2. j \in RAJob /\ RAHolds(j) /\ RARuns(j) /\ j.kind \in {"edit", "delete"}
  BY <1>1, RAJobIn DEF RARuns, RAHolds
<1>5. to \in RAStages /\ (to = "chosen" => PA!On(row, j.id)) /\ to \in {"done", "chosen"}
  BY DEF RAStages
<1>6. /\ k \in RAJob /\ k.pc = to /\ (to = "done" => k = [PA!Idle EXCEPT !.pc = "done"])
      /\ to # "done" => k.kind = j.kind /\ k.id = j.id /\ k.about = j.about /\ k.logins = j.logins
  BY <1>2, <1>5, RAAt
<1>7. /\ met \subseteq met' /\ PA!Spoiled' = PA!Spoiled /\ cut \subseteq cut' /\ silent \subseteq silent'
      /\ UNCHANGED PA!registry
  BY <1>1 DEF PA!ghosts, PA!Spoiled
<1>71. ~RADrops(j)
  BY <1>1 DEF RADrops, RAMending
<1> HIDE DEF k, to
<1>8. CASE to = "done"
  BY <1>1, <1>6, <1>71, <1>8, RALeaves
<1>9. CASE to # "done"
  <2>1. RAHolds(k) /\ RAFresh(k, row, PA!Spoiled)
    BY <1>1, <1>2, <1>5, <1>6, <1>9, RAChooses
  <2>2. /\ ~RABinds(post[p]) /\ \A l \in Logins : ~RARefreshes(post[p], l)
    BY <1>1 DEF RABinds, RARefreshes
  <2> QED BY <1>1, <1>2, <1>6, <1>7, <1>71, <1>9, <2>1, <2>2, RAQuiet DEF j
<1> QED BY <1>8, <1>9

LEMMA RALookAtLogin ==
    ASSUME RASound, NEW p \in Posts, NEW l \in Logins, PA!LookAtLogin(p, l) PROVE RASound'
<1> DEFINE j == post[p]
           v == PA!Sole(row, l)
           k == [j EXCEPT !.pc = "alone", !.sole = <<l, v>>]
<1>1. /\ j.pc = "look" /\ l \in j.todo /\ UNCHANGED <<PA!registry, PA!ghosts>>
      /\ post' = [post EXCEPT ![p].pc = "alone", ![p].sole = <<l, v>>]
  BY DEF PA!LookAtLogin
<1>2. j \in RAJob /\ RAHolds(j) /\ RARuns(j) /\ RAFresh(j, row, PA!Spoiled)
  BY <1>1, RAJobIn DEF RARuns
<1>3. /\ row \in [PA!Accounts -> RAMaybe] /\ \A a \in Mt5 : RALogs(row[a])
      /\ post \in [Posts -> RAJob]
  BY DEF RASound, RATyped
<1>4. v \in RAKeys \cup {None} /\ RAFits(row, l, v, PA!Spoiled)
  BY <1>3, RASoleFits DEF PA!Accounts
<1> HIDE DEF v
<1>5. post' = [post EXCEPT ![p] = k]
  BY <1>1, <1>3
<1>6. <<l, v>> \in Logins \X (RAKeys \cup {None})
  BY <1>4
<1>7. k \in RAJob
  BY <1>2, <1>6 DEF RAJob, RAStages
<1>8. /\ k.pc = "alone" /\ k.kind = j.kind /\ k.id = j.id /\ k.about = j.about /\ k.logins = j.logins
      /\ k.was = j.was /\ k.puts = j.puts /\ k.todo = j.todo /\ k.list = j.list /\ k.rest = j.rest
      /\ k.drop = j.drop /\ k.sole = <<l, v>> /\ k.sole[1] = l /\ k.sole[2] = v
  BY <1>2, <1>7 DEF RAJob
<1>9. /\ met \subseteq met' /\ PA!Spoiled' = PA!Spoiled /\ cut \subseteq cut' /\ silent \subseteq silent'
      /\ UNCHANGED PA!registry
  BY <1>1 DEF PA!ghosts, PA!Spoiled
<1> HIDE DEF k, j
<1>10. RAHolds(k)
  <2>1. RAWrites(k) /\ (k.kind \in {"beat", "check"} => RALists(k))
    BY <1>1, <1>2, <1>8 DEF RAHolds, RAMending, RAWrites, RALists, RAAsks
  <2> QED BY <1>1, <1>2, <1>6, <1>8, <2>1 DEF RAHolds, RAMending, RAAsks
<1>11. RAFresh(k, row, PA!Spoiled)
  BY <1>1, <1>2, <1>4, <1>8 DEF RAFresh, RAMending, RAHolds
<1>12. /\ ~RABinds(j) /\ \A m \in Logins : RARefreshes(j, m) => RARefreshes(k, m)
       /\ RADrops(j) => RADrops(k)
  BY <1>1, <1>8 DEF RABinds, RARefreshes, RADrops, RAMending
<1> QED BY <1>2, <1>5, <1>7, <1>8, <1>9, <1>10, <1>11, <1>12, RAQuiet DEF j

LEMMA RAStop == ASSUME RASound, NEW p \in Posts, PA!Stop(p) PROVE RASound'
<1> DEFINE j == [PA!Idle EXCEPT !.pc = "done", !.kind = "stopped"]
<1>1. /\ post' = [post EXCEPT ![p] = j] /\ stopped' = stopped \cup post[p].about
      /\ UNCHANGED <<PA!registry, met, cut, silent>> /\ RARuns(post[p])
  BY DEF PA!Stop, PA!Running, RARuns
<1>2. PA!Idle \in RAJob
  BY RAIdle
<1>3. j \in RAJob /\ j.pc = "done"
  BY <1>2 DEF RAJob, RAStages, RAKinds
<1>4. PA!Spoiled \subseteq PA!Spoiled' /\ post[p].about \subseteq PA!Spoiled'
  BY <1>1 DEF PA!Spoiled
<1>5. RAHolds(post[p]) /\ post[p] \in RAJob
  BY <1>1, RAJobIn
<1>6. post[p].id \in PA!Spoiled' \/ (/\ ~RABinds(post[p]) /\ ~RADrops(post[p])
                                     /\ \A l \in Logins : ~RARefreshes(post[p], l))
  BY <1>4, <1>5 DEF RAHolds, RABinds, RADrops, RARefreshes, RAMending
<1> HIDE DEF j
<1> QED BY <1>1, <1>3, <1>4, <1>6, RAQuiet DEF RARuns

-----------------------------------------------------------------------------
(* The steps that change rows, keys or the default *)

LEMMA RADropDefault == ASSUME RASound, NEW p \in Posts, PA!DropDefault(p) PROVE RASound'
<1> DEFINE j == post[p]
           less == [j EXCEPT !.drop = FALSE]
           to == PA!AfterDefault(j)
           k == PA!At(less, to)
<1>1. /\ j.pc = "drop" /\ deft' = None /\ post' = [post EXCEPT ![p] = k]
      /\ UNCHANGED <<row, exact, alone, PA!ghosts>>
  BY DEF PA!DropDefault
<1>2. j \in RAJob /\ RAHolds(j) /\ RARuns(j) /\ j.kind \in {"edit", "delete"}
  BY <1>1, RAJobIn DEF RARuns, RAHolds
<1>3. less \in RAJob /\ less.kind = j.kind /\ less.id = j.id /\ less.about = j.about /\ less.logins = j.logins
  BY <1>2 DEF RAJob
<1>4. to \in {"done", "choose", "default"}
  BY <1>2, RAChoice
<1>5. to \in RAStages
  BY <1>4 DEF RAStages
<1>6. /\ k \in RAJob /\ k.pc = to
      /\ to # "done" => k.kind = j.kind /\ k.id = j.id /\ k.about = j.about /\ k.logins = j.logins
  BY <1>3, <1>5, RAAt
<1>7. met \subseteq met' /\ PA!Spoiled' = PA!Spoiled /\ cut \subseteq cut'
  BY <1>1 DEF PA!ghosts, PA!Spoiled
<1> HIDE DEF k, to, less
<1>8. RARuns(k) => RAHolds(k) /\ RAFresh(k, row, PA!Spoiled)
  BY <1>1, <1>2, <1>4, <1>6, RAChooses DEF RARuns
<1>9. /\ ~RABinds(post[p]) /\ \A l \in Logins : ~RARefreshes(post[p], l)
  BY <1>1 DEF RABinds, RARefreshes
<1>10. RATyped' /\ RAMeet' /\ RAJobs' /\ RAExact' /\ RABound' /\ RAAlone'
  BY <1>1, <1>2, <1>6, <1>7, <1>8, <1>9, RAKeysKept DEF RARuns
<1>11. RADefault'
  BY <1>1 DEF RADefault
<1> QED BY <1>10, <1>11 DEF RASound

LEMMA RASetDefault == ASSUME RASound, NEW p \in Posts, PA!SetDefault(p) PROVE RASound'
<1> DEFINE k == [PA!Idle EXCEPT !.pc = "done"]
<1>1. /\ post[p].pc = "chosen" /\ deft' = post[p].id /\ post' = [post EXCEPT ![p] = k]
      /\ UNCHANGED <<row, exact, alone, PA!ghosts>>
  BY DEF PA!SetDefault, PA!At
<1>2. /\ post[p] \in RAJob /\ RAHolds(post[p]) /\ RAFresh(post[p], row, PA!Spoiled)
  BY <1>1, RAJobIn DEF RARuns
<1>3. k \in RAJob /\ k.pc = "done"
  BY RAIdle DEF RAJob
<1>4. post[p].id \in PA!Accounts /\ (post[p].id \in PA!Spoiled \/ PA!On(row, post[p].id))
  BY <1>1, <1>2 DEF RAHolds, RAFresh, RAJob
<1>7. met \subseteq met' /\ PA!Spoiled' = PA!Spoiled /\ cut \subseteq cut'
  BY <1>1 DEF PA!ghosts, PA!Spoiled
<1> HIDE DEF k
<1>9. /\ ~RABinds(post[p]) /\ ~RARuns(k) /\ \A l \in Logins : ~RARefreshes(post[p], l)
  BY <1>1, <1>3 DEF RABinds, RARefreshes, RARuns
<1>10. RATyped' /\ RAMeet' /\ RAJobs' /\ RAExact' /\ RABound' /\ RAAlone'
  BY <1>1, <1>3, <1>4, <1>7, <1>9, RAKeysKept
<1>11. RADefault'
  BY <1>1, <1>4, <1>7 DEF RADefault
<1> QED BY <1>10, <1>11 DEF RASound

\* A request that mends the keys of its account, from one stage to the next.
LEMMA RAMends ==
    ASSUME NEW j \in RAJob, RAHolds(j), RAMending(j), NEW k, k.pc \in {"bind", "look", "alone"},
           k.kind = j.kind, k.id = j.id, k.about = j.about, k.logins = j.logins, k.drop = j.drop,
           k.was = j.was, k.puts = j.puts, k.list = j.list, k.rest = j.rest,
           k.pc = "look" => k.todo \subseteq j.logins, k.pc # "alone",
           NEW r, NEW S, RAFresh(j, r, S)
    PROVE  RAHolds(k) /\ RAFresh(k, r, S)
<1>0. /\ j.kind \in {"edit", "create", "delete", "beat", "check"} /\ j.id \in Mt5 /\ j.id \in j.about
      /\ RAWrites(j) /\ j.pc # "next"
  BY DEF RAHolds, RAMending, RAAsks
<1>1. RAWrites(k) /\ (k.kind \in {"beat", "check"} => RALists(k))
  BY <1>0 DEF RAHolds, RAWrites, RALists
<1>2. RAHolds(k)
  BY <1>0, <1>1 DEF RAHolds, RAMending, RAAsks
<1>3. RAFresh(k, r, S)
  BY <1>0 DEF RAFresh, RAMending
<1> QED BY <1>2, <1>3

LEMMA RAUnbind == ASSUME RASound, NEW p \in Posts, PA!Unbind(p) PROVE RASound'
<1> DEFINE j == post[p]
           old == j.was # None /\ j.was.srv # None
           k == [j EXCEPT !.pc = "bind"]
<1>1. /\ j.pc = "unbind"
      /\ exact' = IF old THEN [exact EXCEPT ![PA!KeyOf(j.was)] = None] ELSE exact
      /\ cut' = IF old THEN cut \cup {a \in Mt5 \ {j.id} : PA!Binds(row[a]) /\ PA!KeyOf(row[a]) = PA!KeyOf(j.was)}
                ELSE cut
      /\ UNCHANGED <<row, alone, deft, met, silent, stopped>>
      /\ post' = [post EXCEPT ![p].pc = "bind"]
  BY DEF PA!Unbind
<1>2. j \in RAJob /\ RAHolds(j) /\ RAFresh(j, row, PA!Spoiled) /\ RARuns(j) /\ RAMending(j) /\ j.id \in Mt5
  BY <1>1, RAJobIn DEF RARuns, RAMending, RAHolds
<1>3. RATyped /\ RAMeet /\ RAExact /\ RABound /\ RAAlone /\ RADefault
  BY DEF RASound
<1>4. post' = [post EXCEPT ![p] = k]
  BY <1>1, <1>3 DEF RATyped
<1>5. k \in RAJob
  BY <1>2 DEF RAJob, RAStages
<1>6. /\ k.pc = "bind" /\ k.kind = j.kind /\ k.id = j.id /\ k.about = j.about /\ k.logins = j.logins
      /\ k.was = j.was /\ k.puts = j.puts /\ k.list = j.list /\ k.rest = j.rest /\ k.drop = j.drop
  BY <1>2, <1>5 DEF RAJob
<1>7. post'[p] = k /\ \A q \in Posts \ {p} : post'[q] = post[q]
  BY <1>3, <1>4 DEF RATyped
<1> HIDE DEF k, j
<1>8. RAHolds(k) /\ RAFresh(k, row, PA!Spoiled)
  BY <1>2, <1>6, RAMends
<1>9. PA!Spoiled' = PA!Spoiled /\ met \subseteq met'
  BY <1>1 DEF PA!Spoiled
<1>10. post' \in [Posts -> RAJob] /\ RAMeet' /\ RAJobs'
  BY <1>1, <1>2, <1>4, <1>5, <1>6, <1>8, <1>9, RAGoesOn DEF j
<1>11. exact' \in [PA!Identity -> RAKeys \cup {None}]
  BY <1>1, <1>3 DEF RATyped
<1>12. RATyped'
  BY <1>1, <1>3, <1>10, <1>11 DEF RATyped
<1>13. \A x \in PA!Identity : exact'[x] # None => exact'[x] = exact[x] /\ ~RAUnbinds(j, x)
  BY <1>1, <1>3 DEF RATyped, RAUnbinds
<1>14. RAExact'
  <2> SUFFICES ASSUME NEW x \in PA!Identity, exact'[x] # None
               PROVE \/ exact'[x].id \in PA!Spoiled' \/ RAGood(row', x, exact'[x])
                     \/ \E q \in Posts : post'[q].id = exact'[x].id /\ RAUnbinds(post'[q], x)
    BY DEF RAExact
  <2> QED BY <1>1, <1>3, <1>7, <1>9, <1>13 DEF RAExact, j
<1>15. RABound'
  <2> SUFFICES ASSUME NEW a \in Mt5, PA!Binds(row[a])
               PROVE \/ a \in PA!Spoiled' \cup cut' \/ exact'[PA!KeyOf(row[a])] # None
                     \/ \E q \in Posts : post'[q].id = a /\ RABinds(post'[q])
    BY <1>1 DEF RABound
  <2>1. CASE a = j.id
    BY <1>6, <1>7, <2>1 DEF RABinds
  <2>2. CASE a # j.id /\ a \notin cut'
    <3>1. a \in PA!Spoiled \/ exact[PA!KeyOf(row[a])] # None
          \/ \E q \in Posts \ {p} : post[q].id = a /\ RABinds(post[q])
      BY <1>1, <1>3, <2>2 DEF RABound, j
    <3>2. exact[PA!KeyOf(row[a])] # None => exact'[PA!KeyOf(row[a])] # None
      <4>1. ~(old /\ PA!KeyOf(row[a]) = PA!KeyOf(j.was))
        BY <1>1, <2>2
      <4>2. row[a].login \in Logins /\ row[a].srv \in Servers
        BY <1>3 DEF RATyped, RALogs, RAMaybe, PA!Row, PA!Binds, PA!Accounts
      <4>3. PA!KeyOf(row[a]) \in PA!Identity
        BY <4>2 DEF PA!KeyOf, PA!Identity
      <4> QED BY <1>1, <1>3, <4>1, <4>3 DEF RATyped
    <3> QED BY <1>7, <1>9, <3>1, <3>2
  <2> QED BY <2>1, <2>2
<1>16. RAAlone'
  <2> SUFFICES ASSUME NEW l \in Logins PROVE RAFits(row, l, alone[l], PA!Spoiled \cup RAOut(l)')
    BY <1>1, <1>9 DEF RAAlone
  <2>1. \A q \in Posts : RARefreshes(post[q], l) => RARefreshes(post'[q], l) /\ post'[q].id = post[q].id
    BY <1>1, <1>6, <1>7 DEF RARefreshes, j
  <2>2. PA!Spoiled \cup RAOut(l) \subseteq PA!Spoiled \cup RAOut(l)'
    BY <2>1 DEF RAOut
  <2>3. RAFits(row, l, alone[l], PA!Spoiled \cup RAOut(l))
    BY <1>3 DEF RAAlone
  <2> HIDE DEF RAOut
  <2> QED BY <2>2, <2>3, RAFitsKept DEF RASame
<1>17. RADefault'
  <2>1. RADrops(j) => RADrops(k) /\ k.id = j.id
    BY <1>1, <1>6 DEF RADrops, RAMending
  <2> QED BY <1>1, <1>3, <1>7, <1>9, <2>1 DEF RADefault, j
<1> QED BY <1>10, <1>12, <1>14, <1>15, <1>16, <1>17 DEF RASound

LEMMA RABind == ASSUME RASound, NEW p \in Posts, PA!Bind(p) PROVE RASound'
<1> DEFINE j == post[p]
           now == j.puts[j.id]
           todo == PA!LoginsOf({j.was, now})
           k == [j EXCEPT !.pc = "look", !.todo = todo]
<1>1. /\ j.pc = "bind"
      /\ exact' = IF PA!Binds(now) THEN [exact EXCEPT ![PA!KeyOf(now)] = PA!Record(j.id, now)] ELSE exact
      /\ UNCHANGED <<row, alone, deft, PA!ghosts>>
      /\ post' = [post EXCEPT ![p].pc = "look", ![p].todo = todo]
  BY DEF PA!Bind
<1>2. j \in RAJob /\ RAHolds(j) /\ RAFresh(j, row, PA!Spoiled) /\ RARuns(j) /\ RAMending(j) /\ j.id \in Mt5
  BY <1>1, RAJobIn DEF RARuns, RAMending, RAHolds
<1>3. RATyped /\ RAMeet /\ RAExact /\ RABound /\ RAAlone /\ RADefault
  BY DEF RASound
<1>30. RAWrites(j) /\ j.puts \in RARows
  BY <1>1, <1>2 DEF RAHolds, RAJob, RAMending
<1>31. todo \subseteq j.logins /\ RALogs(now) /\ now \in RAMaybe
  BY <1>2, <1>30 DEF RAWrites, RARows
<1>32. j.id \in PA!Spoiled \/ row[j.id] = now
  BY <1>2 DEF RAFresh
<1>33. PA!Binds(now) => /\ PA!KeyOf(now) \in PA!Identity /\ PA!Record(j.id, now) \in RAKeys
                        /\ PA!Record(j.id, now) # None /\ PA!Record(j.id, now).id = j.id
  <2> SUFFICES ASSUME PA!Binds(now) PROVE /\ PA!KeyOf(now) \in PA!Identity /\ PA!Record(j.id, now) \in RAKeys
                                          /\ PA!Record(j.id, now).id = j.id
    BY AccountsAssumption DEF RAKeys
  <2>1. now.login \in Logins /\ now.srv \in Servers /\ now.prof \in Profiles
    BY <1>31 DEF RALogs, RAMaybe, PA!Row, PA!Binds
  <2> QED BY <1>2, <2>1 DEF PA!KeyOf, PA!Identity, PA!Record, RAKeys
<1> HIDE DEF todo
<1>4. post' = [post EXCEPT ![p] = k]
  BY <1>1, <1>3 DEF RATyped
<1>5. k \in RAJob
  BY <1>2, <1>31 DEF RAJob, RAStages
<1>6. /\ k.pc = "look" /\ k.kind = j.kind /\ k.id = j.id /\ k.about = j.about /\ k.logins = j.logins
      /\ k.was = j.was /\ k.puts = j.puts /\ k.list = j.list /\ k.rest = j.rest /\ k.drop = j.drop
      /\ k.todo = todo
  BY <1>2, <1>5 DEF RAJob
<1>7. post'[p] = k /\ \A q \in Posts \ {p} : post'[q] = post[q]
  BY <1>3, <1>4 DEF RATyped
<1> HIDE DEF k, j, now
<1>8. RAHolds(k) /\ RAFresh(k, row, PA!Spoiled)
  BY <1>2, <1>6, <1>31, RAMends
<1>9. PA!Spoiled' = PA!Spoiled /\ met \subseteq met' /\ cut' = cut /\ silent' = silent
  BY <1>1 DEF PA!Spoiled, PA!ghosts
<1>10. post' \in [Posts -> RAJob] /\ RAMeet' /\ RAJobs'
  BY <1>1, <1>2, <1>4, <1>5, <1>6, <1>8, <1>9, RAGoesOn DEF j
<1>11. exact' \in [PA!Identity -> RAKeys \cup {None}]
  BY <1>1, <1>3, <1>33 DEF RATyped
<1>12. RATyped'
  BY <1>1, <1>3, <1>10, <1>11 DEF RATyped
<1>13. \A x \in PA!Identity : \/ exact'[x] = exact[x]
                              \/ PA!Binds(now) /\ x = PA!KeyOf(now) /\ exact'[x] = PA!Record(j.id, now)
  BY <1>1, <1>3 DEF RATyped
<1>14. RAExact'
  <2> SUFFICES ASSUME NEW x \in PA!Identity, exact'[x] # None
               PROVE \/ exact'[x].id \in PA!Spoiled' \/ RAGood(row', x, exact'[x])
                     \/ \E q \in Posts : post'[q].id = exact'[x].id /\ RAUnbinds(post'[q], x)
    BY DEF RAExact
  <2>1. CASE PA!Binds(now) /\ x = PA!KeyOf(now) /\ exact'[x] = PA!Record(j.id, now)
    BY <1>1, <1>9, <1>32, <1>33, <2>1 DEF RAGood
  <2>2. CASE exact'[x] = exact[x]
    <3>1. ~RAUnbinds(j, x)
      BY <1>1 DEF RAUnbinds
    <3>2. CASE exact[x].id \in PA!Spoiled \/ RAGood(row, x, exact[x])
      BY <1>1, <1>9, <2>2, <3>2
    <3>3. CASE \E q \in Posts : post[q].id = exact[x].id /\ RAUnbinds(post[q], x)
      <4>1. PICK q \in Posts : post[q].id = exact[x].id /\ RAUnbinds(post[q], x)
        BY <3>3
      <4>2. q # p
        BY <3>1, <4>1 DEF j
      <4> QED BY <1>7, <2>2, <4>1, <4>2
    <3> QED BY <1>3, <2>2, <3>2, <3>3 DEF RAExact
  <2> QED BY <1>13, <2>1, <2>2
<1>15. RABound'
  <2> SUFFICES ASSUME NEW a \in Mt5, PA!Binds(row[a])
               PROVE \/ a \in PA!Spoiled' \cup cut' \/ exact'[PA!KeyOf(row[a])] # None
                     \/ \E q \in Posts : post'[q].id = a /\ RABinds(post'[q])
    BY ZenonT(60), <1>1 DEF RABound
  <2>0. PA!KeyOf(row[a]) \in PA!Identity
    <3>1. row[a].login \in Logins /\ row[a].srv \in Servers
      BY <1>3 DEF RATyped, RALogs, RAMaybe, PA!Row, PA!Binds, PA!Accounts
    <3> QED BY <3>1 DEF PA!KeyOf, PA!Identity
  <2>1. CASE a = j.id
    BY <1>1, <1>3, <1>9, <1>32, <1>33, <2>0, <2>1 DEF RATyped
  <2>2. CASE a # j.id
    <3>1. a \in PA!Spoiled \cup cut \/ exact[PA!KeyOf(row[a])] # None
          \/ \E q \in Posts \ {p} : post[q].id = a /\ RABinds(post[q])
      BY <1>1, <1>3, <2>2 DEF RABound, j
    <3>2. exact[PA!KeyOf(row[a])] # None => exact'[PA!KeyOf(row[a])] # None
      BY <1>13, <1>33, <2>0
    <3> QED BY <1>7, <1>9, <3>1, <3>2
  <2> QED BY <2>1, <2>2
<1>16. RAAlone'
  <2> SUFFICES ASSUME NEW l \in Logins PROVE RAFits(row, l, alone[l], PA!Spoiled \cup RAOut(l)')
    BY <1>1, <1>9 DEF RAAlone
  <2>1. \A q \in Posts : RARefreshes(post[q], l) => RARefreshes(post'[q], l) /\ post'[q].id = post[q].id
    BY ZenonT(60), <1>1, <1>6, <1>7 DEF RARefreshes, j, todo, now
  <2>2. PA!Spoiled \cup RAOut(l) \subseteq PA!Spoiled \cup RAOut(l)'
    BY <2>1 DEF RAOut
  <2>3. RAFits(row, l, alone[l], PA!Spoiled \cup RAOut(l))
    BY <1>3 DEF RAAlone
  <2> HIDE DEF RAOut
  <2> QED BY <2>2, <2>3, RAFitsKept DEF RASame
<1>17. RADefault'
  <2>1. RADrops(j) => RADrops(k) /\ k.id = j.id
    BY <1>1, <1>6 DEF RADrops, RAMending
  <2> QED BY <1>1, <1>3, <1>7, <1>9, <2>1 DEF RADefault, j
<1> QED BY <1>10, <1>12, <1>14, <1>15, <1>16, <1>17 DEF RASound

\* A row written into the list of a heartbeat's request leaves the list in order.
LEMMA RARelists ==
    ASSUME NEW j \in RAJob, RAHolds(j), RAMending(j), j.kind \in {"beat", "check"}, NEW list,
           list = IF j.kind = "beat" THEN PA!Written(j.puts, j.list) ELSE j.list,
           NEW r, NEW S, RAFresh(j, r, S), NEW k,
           k.kind = j.kind, k.about = j.about, k.logins = j.logins, k.rest = j.rest, k.list = list
    PROVE  /\ list \in RARows /\ RALists(k)
           /\ k.kind = "beat" => \A a \in k.about \ S : k.list[a] = r[a]
           /\ k.kind = "check" => \A a \in k.rest \ S : k.list[a] = r[a]
<1>1. RALists(j) /\ RAWrites(j) /\ j.id \in Mt5 /\ j.id \in j.about /\ j.pc # "next"
  BY DEF RAHolds, RAMending
<1>2. CASE j.kind = "check"
  <2>1. list = j.list /\ list \in RARows
    BY <1>2 DEF RAJob
  <2> QED BY <1>1, <1>2, <2>1 DEF RALists, RAFresh
<1>3. CASE j.kind = "beat"
  <2>1. list = [a \in PA!Accounts |-> IF a = j.id THEN j.puts[j.id] ELSE j.list[a]]
    BY <1>1, <1>3 DEF PA!Written, RAWrites
  <2>2. j.list \in [PA!Accounts -> RAMaybe] /\ j.puts[j.id] \in RAMaybe
    BY <1>1 DEF RALists, RAWrites, RAJob, RARows
  <2>3. list \in [PA!Accounts -> RAMaybe] /\ DOMAIN list = PA!Accounts
    BY <2>1, <2>2
  <2>4. list \in RARows
    BY <2>3, RARowsOf
  <2>5. /\ \A a \in PA!Accounts \ {j.id} : list[a] = j.list[a]
        /\ j.id \in PA!Accounts /\ list[j.id] = j.puts[j.id]
    BY <1>1, <2>1 DEF PA!Accounts
  <2>6. \A a \in Mt5 : RALogs(list[a])
    BY <1>1, <2>5 DEF RALists, RAWrites, PA!Accounts
  <2>7. ASSUME NEW a \in j.about PROVE PA!LoginsOf({list[a]}) \subseteq j.logins
    <3>1. CASE a = j.id
      <4>1. PA!LoginsOf({j.puts[j.id]}) \subseteq PA!LoginsOf({j.was, j.puts[j.id]})
        BY DEF PA!LoginsOf
      <4> QED BY <1>1, <2>5, <3>1, <4>1 DEF RAWrites
    <3>2. CASE a # j.id
      <4>1. a \in PA!Accounts
        BY DEF RAJob
      <4> QED BY <1>1, <2>5, <3>2, <4>1 DEF RALists
    <3> QED BY <3>1, <3>2
  <2>8. ASSUME NEW b \in j.rest PROVE PA!Matches(list, b) \subseteq j.about
    <3>1. PA!Matches(j.list, b) \subseteq j.about
      BY <1>1, <1>3 DEF RALists
    <3>2. ASSUME NEW a \in PA!Matches(list, b), a # j.id PROVE a \in PA!Matches(j.list, b)
      <4>1. a \in Mt5 /\ list[a] = j.list[a]
        BY <2>5, <3>2 DEF PA!Matches, PA!Accounts
      <4> QED BY <4>1 DEF PA!Matches, PA!Has
    <3> QED BY <1>1, <3>1, <3>2
  <2>9. RALists(k)
    BY <1>1, <1>3, <2>3, <2>6, <2>7, <2>8 DEF RALists
  <2>10. ASSUME NEW a \in k.about \ S PROVE k.list[a] = r[a]
    <3>1. CASE a = j.id
      BY <2>5, <2>10, <3>1 DEF RAFresh
    <3>2. CASE a # j.id
      <4>1. a \in PA!Accounts
        BY DEF RAJob
      <4> QED BY <1>3, <2>5, <3>2, <4>1 DEF RAFresh
    <3> QED BY <3>1, <3>2
  <2> QED BY <1>3, <2>4, <2>9, <2>10
<1> QED BY <1>2, <1>3

LEMMA RAAfterKeys ==
    ASSUME NEW j \in RAJob, RAHolds(j), RAMending(j)
    PROVE  /\ PA!AfterKeys(j) \in {"done", "next", "default", "choose"}
           /\ PA!AfterKeys(j) = "next" => j.kind \in {"beat", "check"}
           /\ PA!AfterKeys(j) \in {"default", "choose"} => j.kind \in {"edit", "delete"}
           /\ j.kind = "delete" \/ (j.kind = "edit" /\ j.drop) => PA!AfterKeys(j) = "default"
<1>1. j.kind \in {"edit", "create", "delete", "beat", "check"}
  BY DEF RAHolds, RAAsks
<1> QED BY <1>1, RAChoice DEF PA!AfterKeys

LEMMA RABindLogin == ASSUME RASound, NEW p \in Posts, PA!BindLogin(p) PROVE RASound'
<1> DEFINE j == post[p]
           l == j.sole[1]
           left == j.todo \ {l}
           list == IF j.kind = "beat" THEN PA!Written(j.puts, j.list) ELSE j.list
           m == [j EXCEPT !.todo = left, !.list = list]
           to == IF left # {} THEN "look" ELSE PA!AfterKeys(j)
           k == PA!At(m, to)
<1>1. /\ j.pc = "alone" /\ alone' = [alone EXCEPT ![l] = j.sole[2]]
      /\ post' = [post EXCEPT ![p] = k] /\ UNCHANGED <<row, exact, deft, PA!ghosts>>
  BY DEF PA!BindLogin
<1>2. /\ j \in RAJob /\ RAHolds(j) /\ RAFresh(j, row, PA!Spoiled) /\ RARuns(j) /\ RAMending(j)
      /\ j.id \in Mt5 /\ j.id \in j.about
  BY <1>1, RAJobIn DEF RARuns, RAMending, RAHolds
<1>3. RATyped /\ RAMeet /\ RAExact /\ RABound /\ RAAlone /\ RADefault
  BY DEF RASound
<1>4. /\ l \in Logins /\ l \in j.todo /\ j.sole[2] \in RAKeys \cup {None}
      /\ RAFits(row, l, j.sole[2], PA!Spoiled) /\ j.todo \subseteq j.logins
  BY <1>1, <1>2 DEF RAHolds, RAFresh
<1>5. list \in RARows
  <2>1. CASE j.kind \in {"beat", "check"}
    <3> DEFINE w == [kind |-> j.kind, about |-> j.about, logins |-> j.logins, rest |-> j.rest, list |-> list]
    <3>1. /\ w.kind = j.kind /\ w.about = j.about /\ w.logins = j.logins /\ w.rest = j.rest /\ w.list = list
      OBVIOUS
    <3> HIDE DEF w
    <3> QED BY <1>2, <2>1, <3>1, RARelists
  <2>2. CASE j.kind \notin {"beat", "check"}
    BY <1>2, <2>2 DEF RAJob
  <2> QED BY <2>1, <2>2
<1>51. list = IF j.kind = "beat" THEN PA!Written(j.puts, j.list) ELSE j.list
  OBVIOUS
<1>52. to = IF left # {} THEN "look" ELSE PA!AfterKeys(j)
  OBVIOUS
<1>53. left \subseteq j.todo /\ left \in SUBSET Logins /\ \A x \in j.todo : x # l => x \in left
  BY <1>2 DEF RAJob
<1> HIDE DEF list, left
<1>6. m \in RAJob
  BY <1>2, <1>5, <1>53 DEF RAJob
<1>7. /\ m.kind = j.kind /\ m.id = j.id /\ m.about = j.about /\ m.logins = j.logins /\ m.drop = j.drop
      /\ m.puts = j.puts /\ m.was = j.was /\ m.todo = left /\ m.list = list /\ m.rest = j.rest
  BY <1>2, <1>6 DEF RAJob
<1>8. /\ to \in {"look", "done", "next", "default", "choose"}
      /\ to = "next" => j.kind \in {"beat", "check"}
      /\ to \in {"default", "choose"} => j.kind \in {"edit", "delete"}
      /\ to # "look" /\ (j.kind = "delete" \/ (j.kind = "edit" /\ j.drop)) => to = "default"
      /\ to # "look" => left = {}
  BY <1>2, <1>52, RAAfterKeys
<1>9. to \in RAStages
  BY <1>8 DEF RAStages
<1> HIDE DEF m, to
<1>10. /\ k \in RAJob /\ k.pc = to
       /\ to # "done" =>
            /\ k.kind = j.kind /\ k.id = j.id /\ k.about = j.about /\ k.logins = j.logins /\ k.drop = j.drop
            /\ k.puts = j.puts /\ k.was = j.was /\ k.todo = left /\ k.list = list /\ k.rest = j.rest
  BY <1>6, <1>7, <1>9, RAAt
<1>11. post'[p] = k /\ \A q \in Posts \ {p} : post'[q] = post[q]
  BY <1>1, <1>3 DEF RATyped
<1>12. PA!Spoiled' = PA!Spoiled /\ met \subseteq met' /\ cut' = cut /\ silent' = silent
  BY <1>1 DEF PA!Spoiled, PA!ghosts
<1> HIDE DEF k, j, l
<1>13. ASSUME RARuns(k) PROVE RAHolds(k) /\ RAFresh(k, row, PA!Spoiled)
  <2>0. to # "done"
    BY <1>10, <1>13 DEF RARuns
  <2>1. CASE to \in {"default", "choose"}
    BY <1>1, <1>2, <1>8, <1>10, <2>0, <2>1, RAChooses
  <2>2. j.kind \in {"beat", "check"} =>
          /\ RALists(k)
          /\ k.kind = "beat" => \A a \in k.about \ PA!Spoiled : k.list[a] = row[a]
          /\ k.kind = "check" => \A a \in k.rest \ PA!Spoiled : k.list[a] = row[a]
    BY <1>2, <1>10, <1>51, <2>0, RARelists
  <2>3. RAWrites(j) /\ j.pc # "next" /\ j.kind \in RAAsks /\ j.kind \notin {"ctrader", "sync"}
    BY <1>1, <1>2 DEF RAHolds, RAMending
  <2>4. RAWrites(k)
    BY <1>10, <2>0, <2>3 DEF RAWrites
  <2>5. CASE to = "look"
    <3>1. RAHolds(k)
      BY <1>1, <1>2, <1>4, <1>53, <1>10, <2>2, <2>3, <2>4, <2>5 DEF RAHolds, RAMending, RAAsks
    <3>2. RAFresh(k, row, PA!Spoiled)
      BY <1>1, <1>2, <1>10, <2>2, <2>3, <2>5 DEF RAFresh, RAMending
    <3> QED BY <3>1, <3>2
  <2>6. CASE to = "next"
    <3>1. RAHolds(k)
      BY <1>8, <1>10, <2>2, <2>3, <2>6 DEF RAHolds, RAMending, RAAsks
    <3>2. RAFresh(k, row, PA!Spoiled)
      BY <1>8, <1>10, <2>2, <2>3, <2>6 DEF RAFresh, RAMending
    <3> QED BY <3>1, <3>2
  <2> QED BY <1>8, <2>0, <2>1, <2>5, <2>6
<1>14. post' \in [Posts -> RAJob] /\ RAMeet' /\ RAJobs'
  <2>1. RARuns(k) => k.about = post[p].about /\ k.logins = post[p].logins
    BY <1>10 DEF RARuns, j
  <2> QED BY <1>1, <1>2, <1>10, <1>12, <1>13, <2>1, RAGoesOn DEF j
<1>15. alone' \in [Logins -> RAKeys \cup {None}]
  BY <1>1, <1>3, <1>4 DEF RATyped
<1>16. RATyped'
  BY <1>1, <1>3, <1>14, <1>15 DEF RATyped
<1>17. RAExact'
  <2> SUFFICES ASSUME NEW x \in PA!Identity, exact[x] # None
               PROVE \/ exact[x].id \in PA!Spoiled' \/ RAGood(row, x, exact[x])
                     \/ \E q \in Posts : post'[q].id = exact[x].id /\ RAUnbinds(post'[q], x)
    BY <1>1 DEF RAExact
  <2>1. CASE exact[x].id \in PA!Spoiled \/ RAGood(row, x, exact[x])
    BY <1>12, <2>1
  <2>2. CASE \E q \in Posts : post[q].id = exact[x].id /\ RAUnbinds(post[q], x)
    <3>1. PICK q \in Posts : post[q].id = exact[x].id /\ RAUnbinds(post[q], x)
      BY <2>2
    <3>2. q # p
      BY <1>1, <3>1 DEF j, RAUnbinds
    <3> QED BY <1>11, <3>1, <3>2
  <2> QED BY <1>3, <2>1, <2>2 DEF RAExact
<1>18. RABound'
  <2> SUFFICES ASSUME NEW a \in Mt5, PA!Binds(row[a])
               PROVE \/ a \in PA!Spoiled' \cup cut' \/ exact[PA!KeyOf(row[a])] # None
                     \/ \E q \in Posts : post'[q].id = a /\ RABinds(post'[q])
    BY <1>1 DEF RABound
  <2>2. CASE \E q \in Posts : post[q].id = a /\ RABinds(post[q])
    <3>1. PICK q \in Posts : post[q].id = a /\ RABinds(post[q])
      BY <2>2
    <3>2. q # p
      BY <1>1, <3>1 DEF j, RABinds
    <3> QED BY <1>11, <3>1, <3>2
  <2> QED BY <1>3, <1>12, <2>2 DEF RABound
<1>19. RAAlone'
  <2> SUFFICES ASSUME NEW x \in Logins PROVE RAFits(row, x, alone'[x], PA!Spoiled \cup RAOut(x)')
    BY <1>1, <1>12 DEF RAAlone
  <2>1. CASE x = l
    <3>1. alone'[x] = j.sole[2]
      BY <1>1, <1>3, <2>1 DEF RATyped
    <3> QED BY <1>4, <2>1, <3>1, RAFitsKept DEF RASame
  <2>2. CASE x # l
    <3>1. \A q \in Posts : RARefreshes(post[q], x) => RARefreshes(post'[q], x) /\ post'[q].id = post[q].id
      <4>1. RARefreshes(j, x) => RARefreshes(k, x) /\ k.id = j.id
        BY <1>1, <1>8, <1>10, <1>53, <2>2 DEF RARefreshes
      <4> QED BY <1>11, <4>1 DEF j
    <3>2. PA!Spoiled \cup RAOut(x) \subseteq PA!Spoiled \cup RAOut(x)'
      BY <3>1 DEF RAOut
    <3>3. RAFits(row, x, alone[x], PA!Spoiled \cup RAOut(x))
      BY <1>3 DEF RAAlone
    <3>4. alone'[x] = alone[x]
      BY <1>1, <1>3, <2>2 DEF RATyped
    <3> HIDE DEF RAOut
    <3> QED BY <3>2, <3>3, <3>4, RAFitsKept DEF RASame
  <2> QED BY <2>1, <2>2
<1>20. RADefault'
  <2>1. RADrops(j) => RADrops(k) /\ k.id = j.id
    BY <1>1, <1>8, <1>10 DEF RADrops, RAMending
  <2> QED BY <1>1, <1>3, <1>11, <1>12, <2>1 DEF RADefault, j
<1> QED BY <1>14, <1>16, <1>17, <1>18, <1>19, <1>20 DEF RASound

\* What a request writes, and where.
LEMMA RAWrittenRows ==
    ASSUME RASound, NEW p \in Posts, post[p].pc = "put", row' = PA!Written(post[p].puts, row)
    PROVE  /\ row' \in [PA!Accounts -> RAMaybe] /\ \A a \in Mt5 : RALogs(row'[a])
           /\ DOMAIN post[p].puts \subseteq post[p].about
           /\ \A a \in PA!Accounts \ DOMAIN post[p].puts : row'[a] = row[a]
           /\ \A a \in DOMAIN post[p].puts : a \in PA!Accounts /\ row'[a] = post[p].puts[a]
           /\ \A a \in Mt5 \cap DOMAIN post[p].puts :
                post[p].kind \notin {"sync", "ctrader"} /\ a = post[p].id
           /\ post[p].kind # "sync" =>
                /\ DOMAIN post[p].puts = {post[p].id}
                /\ post[p].id \in PA!Spoiled \/ row[post[p].id] = post[p].was
<1> DEFINE j == post[p]
<1>1. j \in RAJob /\ RAHolds(j) /\ RAFresh(j, row, PA!Spoiled)
  BY RAJobIn DEF RARuns
<1>2. row \in [PA!Accounts -> RAMaybe] /\ \A a \in Mt5 : RALogs(row[a])
  BY DEF RASound, RATyped
<1>3. j.puts \in RARows /\ j.about \subseteq PA!Accounts
  BY <1>1 DEF RAJob
<1>4. /\ j.kind # "sync" => RAWrites(j) /\ j.id \in j.about
      /\ j.kind = "sync" => j.about \subseteq CTrader /\ DOMAIN j.puts = j.about
      /\ j.kind = "ctrader" => j.id \in CTrader
  BY <1>1 DEF RAHolds
<1>5. Mt5 \cap CTrader = {}
  BY AccountsAssumption
<1>6. DOMAIN j.puts \subseteq j.about
  BY <1>4 DEF RAWrites
<1>7. \A a \in PA!Accounts : row'[a] = IF a \in DOMAIN j.puts THEN j.puts[a] ELSE row[a]
  BY DEF PA!Written
<1>8. row' \in [PA!Accounts -> RAMaybe]
  <2>1. row' = [a \in PA!Accounts |-> IF a \in DOMAIN j.puts THEN j.puts[a] ELSE row[a]]
    BY DEF PA!Written
  <2>2. \A a \in DOMAIN j.puts : j.puts[a] \in RAMaybe
    BY <1>3 DEF RARows
  <2> QED BY <1>2, <2>1, <2>2
<1>9. \A a \in Mt5 \cap DOMAIN j.puts : j.kind \notin {"sync", "ctrader"} /\ a = j.id
  BY <1>4, <1>5 DEF RAWrites
<1>10. ASSUME NEW a \in Mt5 PROVE RALogs(row'[a])
  <2>1. CASE a \in DOMAIN j.puts
    BY <1>4, <1>7, <1>9, <2>1 DEF RAWrites, PA!Accounts
  <2>2. CASE a \notin DOMAIN j.puts
    BY <1>2, <1>7, <2>2 DEF PA!Accounts
  <2> QED BY <2>1, <2>2
<1>11. j.kind # "sync" => /\ DOMAIN j.puts = {j.id}
                          /\ j.id \in PA!Spoiled \/ row[j.id] = j.was
  BY <1>1, <1>4 DEF RAWrites, RAFresh
<1> HIDE DEF j
<1> QED BY <1>3, <1>6, <1>7, <1>8, <1>9, <1>10, <1>11 DEF j

\* Whose login the written row touches.
LEMMA RATouches ==
    ASSUME RASound, NEW p \in Posts, post[p].pc = "put", row' = PA!Written(post[p].puts, row),
           NEW a \in Mt5 \ PA!Spoiled, NEW l \in Logins, ~RASame(l, row[a], row'[a])
    PROVE  /\ a \in DOMAIN post[p].puts /\ a = post[p].id /\ a \in post[p].about
           /\ post[p].kind \notin {"sync", "ctrader"}
           /\ l \in PA!LoginsOf({post[p].was, post[p].puts[post[p].id]}) /\ l \in post[p].logins
<1> DEFINE j == post[p]
<1>1. a \in DOMAIN j.puts
  BY RAWrittenRows DEF RASame, PA!Accounts
<1>2. /\ a = j.id /\ a \in j.about /\ j.kind \notin {"sync", "ctrader"}
      /\ row[a] = j.was /\ row'[a] = j.puts[j.id]
  BY <1>1, RAWrittenRows
<1>3. row[a] \in RAMaybe /\ row'[a] \in RAMaybe
  BY RAWrittenRows DEF RASound, RATyped, PA!Accounts
<1>4. RAWrites(j)
  BY <1>2, RAJobIn DEF RARuns, RAHolds
<1>5. l # None
  BY AccountsAssumption
<1> HIDE DEF j
<1>6. l \in PA!LoginsOf({j.was, j.puts[j.id]})
  BY <1>2, <1>3, <1>5, RALoginsOf DEF RASame
<1> QED BY <1>1, <1>2, <1>4, <1>6 DEF j, RAWrites

\* A row written does not disturb what another request holds.
LEMMA RAPutOthers ==
    ASSUME RASound, NEW p \in Posts, NEW q \in Posts \ {p}, post[p].pc = "put",
           row' = PA!Written(post[p].puts, row), RARuns(post[q])
    PROVE  RAHolds(post[q]) /\ RAFresh(post[q], row', PA!Spoiled)
<1>1. post[q] \in RAJob /\ RAHolds(post[q]) /\ RAFresh(post[q], row, PA!Spoiled)
  BY RAJobIn
<1>2. RARuns(post[p]) /\ met \subseteq PA!Spoiled /\ RAMeet
  BY DEF RARuns, PA!Spoiled, RASound
<1>3. ASSUME NEW a \in post[q].about \ PA!Spoiled PROVE row'[a] = row[a]
  <2>1. a \in PA!Accounts
    BY <1>1 DEF RAJob
  <2>2. CASE a \notin DOMAIN post[p].puts
    BY <2>1, <2>2, RAWrittenRows
  <2>3. CASE a \in DOMAIN post[p].puts
    <3>1. a \in post[p].about
      BY <2>3, RAWrittenRows
    <3> QED BY <1>2, <3>1 DEF RAMeet
  <2> QED BY <2>2, <2>3
<1>4. ASSUME post[q].pc = "alone", NEW a \in Mt5 \ PA!Spoiled
      PROVE  RASame(post[q].sole[1], row[a], row'[a])
  <2>1. post[q].sole[1] \in Logins /\ post[q].sole[1] \in post[q].logins
    BY <1>1, <1>4 DEF RAHolds
  <2> SUFFICES ASSUME ~RASame(post[q].sole[1], row[a], row'[a]) PROVE FALSE
    OBVIOUS
  <2>2. post[q].sole[1] \in post[p].logins /\ a \in post[p].about
    BY <2>1, RATouches
  <2> QED BY <1>2, <2>1, <2>2 DEF RAMeet
<1> QED BY <1>1, <1>3, <1>4, RAFreshKept

\* Where a request goes after its row.
LEMMA RAAfterRow ==
    ASSUME NEW j \in RAJob, RAHolds(j), j.pc = "put"
    PROVE  /\ PA!AfterRow(j) \in {"done", "default", "choose", "unbind"}
           /\ PA!AfterRow(j) \in {"default", "choose"} => j.kind = "edit"
           /\ PA!AfterRow(j) = "unbind" => j.id \in Mt5 /\ j.kind \notin {"sync", "ctrader"}
           /\ j.kind \notin {"sync", "ctrader"} /\ j.id \in Mt5 => PA!AfterRow(j) = "unbind"
           /\ j.kind = "edit" /\ j.drop => PA!AfterRow(j) \in {"unbind", "default"}
<1>1. j.kind \in RAAsks /\ (j.kind # "sync" => j.id \in PA!Accounts)
      /\ (j.kind \in {"create", "delete", "beat", "check"} => j.id \in Mt5)
  BY DEF RAHolds, RAJob
<1>2. Mt5 \cap CTrader = {}
  BY AccountsAssumption
<1>3. PA!Choice(j) \in {"done", "choose", "default"}
  BY RAChoice
<1>4. CASE j.kind \in {"sync", "ctrader"}
  <2>1. PA!AfterRow(j) = "done"
    BY <1>4 DEF PA!AfterRow
  <2> QED BY <1>4, <2>1
<1>5. CASE j.kind \notin {"sync", "ctrader"} /\ j.id \in CTrader
  <2>1. j.kind = "edit" /\ j.id \notin Mt5
    BY <1>1, <1>2, <1>5 DEF RAAsks
  <2>2. PA!AfterRow(j) = IF j.drop THEN "default" ELSE PA!Choice(j)
    BY <1>5, <2>1 DEF PA!AfterRow
  <2> QED BY <1>3, <2>1, <2>2
<1>6. CASE j.kind \notin {"sync", "ctrader"} /\ j.id \notin CTrader
  <2>1. j.id \in Mt5
    BY <1>1, <1>6 DEF PA!Accounts
  <2>2. PA!AfterRow(j) = "unbind"
    BY <1>6, <2>1 DEF PA!AfterRow
  <2> QED BY <1>6, <2>1, <2>2
<1> QED BY <1>4, <1>5, <1>6

LEMMA RAPut == ASSUME RASound, NEW p \in Posts, PA!Put(p) PROVE RASound'
<1> DEFINE j == post[p]
           D == DOMAIN j.puts
           to == PA!AfterRow(j)
           k == PA!At(j, to)
<1>1. /\ j.pc = "put" /\ row' = PA!Written(j.puts, row) /\ post' = [post EXCEPT ![p] = k]
      /\ silent' = silent \cup {a \in D : j.kind \in {"beat", "ctrader"} /\ PA!On(row, a) /\ ~PA!On(row', a)}
      /\ UNCHANGED <<exact, alone, deft, met, cut, stopped>>
  BY DEF PA!Put
<1>2. j \in RAJob /\ RAHolds(j) /\ RAFresh(j, row, PA!Spoiled) /\ RARuns(j)
  BY <1>1, RAJobIn DEF RARuns
<1>3. RATyped /\ RAMeet /\ RAExact /\ RABound /\ RAAlone /\ RADefault
  BY DEF RASound
<1>4. /\ row' \in [PA!Accounts -> RAMaybe] /\ \A a \in Mt5 : RALogs(row'[a])
      /\ D \subseteq j.about
      /\ \A a \in PA!Accounts \ D : row'[a] = row[a]
      /\ \A a \in D : a \in PA!Accounts /\ row'[a] = j.puts[a]
      /\ \A a \in Mt5 \cap D : j.kind \notin {"sync", "ctrader"} /\ a = j.id
      /\ j.kind # "sync" => D = {j.id} /\ (j.id \in PA!Spoiled \/ row[j.id] = j.was)
  BY <1>1, RAWrittenRows
<1>5. /\ to \in {"done", "default", "choose", "unbind"}
      /\ to \in {"default", "choose"} => j.kind = "edit"
      /\ to = "unbind" => j.id \in Mt5 /\ j.kind \notin {"sync", "ctrader"}
      /\ j.kind \notin {"sync", "ctrader"} /\ j.id \in Mt5 => to = "unbind"
      /\ j.kind = "edit" /\ j.drop => to \in {"unbind", "default"}
  BY <1>1, <1>2, RAAfterRow
<1>6. to \in RAStages
  BY <1>5 DEF RAStages
<1> HIDE DEF to
<1>7. /\ k \in RAJob /\ k.pc = to
      /\ to # "done" =>
           /\ k.kind = j.kind /\ k.id = j.id /\ k.about = j.about /\ k.logins = j.logins /\ k.drop = j.drop
           /\ k.puts = j.puts /\ k.was = j.was /\ k.list = j.list /\ k.rest = j.rest
  BY <1>2, <1>6, RAAt
<1>8. post'[p] = k /\ \A q \in Posts \ {p} : post'[q] = post[q]
  BY <1>1, <1>3 DEF RATyped
<1>9. PA!Spoiled' = PA!Spoiled /\ silent \subseteq silent' /\ cut' = cut
  BY <1>1 DEF PA!Spoiled
<1>10. \A a \in Mt5 \ PA!Spoiled, l \in Logins : ~RASame(l, row[a], row'[a]) =>
          /\ a \in D /\ a = j.id /\ j.kind \notin {"sync", "ctrader"}
          /\ l \in PA!LoginsOf({j.was, j.puts[j.id]})
  BY <1>1, RATouches
<1> HIDE DEF k, j, D
<1>11. ASSUME RARuns(k) PROVE RAHolds(k) /\ RAFresh(k, row', PA!Spoiled)
  <2>0. to # "done"
    BY <1>7, <1>11 DEF RARuns
  <2>1. CASE to \in {"default", "choose"}
    BY <1>1, <1>2, <1>5, <1>7, <2>0, <2>1, RAChooses
  <2>2. CASE to = "unbind"
    <3>1. j.kind \notin {"sync", "ctrader"} /\ j.kind \in RAAsks /\ j.id \in Mt5 /\ RAWrites(j) /\ j.id \in j.about
      BY <1>1, <1>2, <1>5, <2>2 DEF RAHolds
    <3>2. RAWrites(k)
      BY <1>7, <2>0, <3>1 DEF RAWrites
    <3>3. j.kind \in {"beat", "check"} => RALists(j) /\ RALists(k)
      BY <1>2, <1>7, <2>0 DEF RAHolds, RALists
    <3>4. RAHolds(k)
      BY <1>1, <1>2, <1>7, <2>2, <3>1, <3>2, <3>3 DEF RAHolds, RAMending, RAAsks
    <3>5. row'[j.id] = j.puts[j.id] /\ \A a \in PA!Accounts \ {j.id} : row'[a] = row[a]
      BY <1>4, <3>1
    <3>6. j.about \subseteq PA!Accounts
      BY <1>2 DEF RAJob
    <3>7. j.kind = "check" => j.rest \subseteq j.about /\ j.id \notin j.rest
      BY <1>1, <1>2, <3>3 DEF RAHolds, RALists
    <3>8. RAFresh(k, row', PA!Spoiled)
      BY <1>1, <1>2, <1>7, <2>2, <3>1, <3>5, <3>6, <3>7 DEF RAFresh, RAMending
    <3> QED BY <3>4, <3>8
  <2> QED BY <1>5, <2>0, <2>1, <2>2
<1>12. RAJobs'
  <2> SUFFICES ASSUME NEW q \in Posts, RARuns(post'[q])
               PROVE  RAHolds(post'[q]) /\ RAFresh(post'[q], row', PA!Spoiled')
    BY DEF RAJobs
  <2>1. CASE q = p
    BY <1>8, <1>9, <1>11, <2>1
  <2>2. CASE q # p
    <3>1. q \in Posts \ {p} /\ RARuns(post[q]) /\ post'[q] = post[q]
      BY <1>8, <2>2
    <3>2. RAHolds(post[q]) /\ RAFresh(post[q], row', PA!Spoiled)
      BY <1>1, <3>1, RAPutOthers DEF j
    <3> QED BY <1>9, <3>1, <3>2
  <2> QED BY <2>1, <2>2
<1>13. RATyped'
  <2>1. post' \in [Posts -> RAJob]
    BY <1>1, <1>3, <1>7 DEF RATyped
  <2> QED BY <1>1, <1>3, <1>4, <2>1 DEF RATyped
<1>14. RAMeet'
  <2>1. RARuns(k) => RARuns(j) /\ k.about = j.about /\ k.logins = j.logins
    BY <1>2, <1>7 DEF RARuns
  <2> QED BY <1>1, <1>3, <1>8, <2>1 DEF RAMeet, j
<1>15. RAExact'
  <2> SUFFICES ASSUME NEW x \in PA!Identity, exact[x] # None
               PROVE \/ exact[x].id \in PA!Spoiled \/ RAGood(row', x, exact[x])
                     \/ \E q \in Posts : post'[q].id = exact[x].id /\ RAUnbinds(post'[q], x)
    BY <1>1, <1>9 DEF RAExact
  <2>0. exact[x] \in RAKeys /\ exact[x].id \in Mt5
    BY <1>3 DEF RATyped, RAKeys
  <2>1. CASE exact[x].id \in PA!Spoiled
    BY <2>1
  <2>2. CASE RAGood(row, x, exact[x]) /\ exact[x].id \notin PA!Spoiled
    <3>1. CASE exact[x].id \notin D
      BY <1>4, <2>0, <2>2, <3>1 DEF RAGood, PA!Accounts
    <3>2. CASE exact[x].id \in D
      <4>1. exact[x].id = j.id /\ to = "unbind" /\ row[j.id] = j.was
        BY <1>4, <1>5, <2>0, <2>2, <3>2
      <4>2. RAUnbinds(k, x) /\ k.id = exact[x].id
        BY <1>7, <2>2, <4>1 DEF RAUnbinds, RAGood, PA!Binds
      <4> QED BY <1>8, <4>2
    <3> QED BY <3>1, <3>2
  <2>3. CASE \E q \in Posts : post[q].id = exact[x].id /\ RAUnbinds(post[q], x)
    <3>1. PICK q \in Posts : post[q].id = exact[x].id /\ RAUnbinds(post[q], x)
      BY <2>3
    <3>2. q # p
      BY <1>1, <3>1 DEF j, RAUnbinds
    <3> QED BY <1>8, <3>1, <3>2
  <2> QED BY <1>3, <2>1, <2>2, <2>3 DEF RAExact
<1>16. RABound'
  <2> SUFFICES ASSUME NEW a \in Mt5, PA!Binds(row'[a])
               PROVE \/ a \in PA!Spoiled \cup cut \/ exact[PA!KeyOf(row'[a])] # None
                     \/ \E q \in Posts : post'[q].id = a /\ RABinds(post'[q])
    BY <1>1, <1>9 DEF RABound
  <2>1. CASE a \in D
    <3>1. a = j.id /\ to = "unbind"
      BY <1>4, <1>5, <2>1
    <3>2. k.id = a /\ RABinds(k)
      BY <1>7, <3>1 DEF RABinds
    <3> QED BY <1>8, <3>2
  <2>2. CASE a \notin D
    <3>1. row'[a] = row[a]
      BY <1>4, <2>2 DEF PA!Accounts
    <3>2. CASE \E q \in Posts : post[q].id = a /\ RABinds(post[q])
      <4>1. PICK q \in Posts : post[q].id = a /\ RABinds(post[q])
        BY <3>2
      <4>2. q # p
        BY <1>1, <4>1 DEF j, RABinds
      <4> QED BY <1>8, <4>1, <4>2
    <3> QED BY <1>3, <3>1, <3>2 DEF RABound
  <2> QED BY <2>1, <2>2
<1>17. RAAlone'
  <2> SUFFICES ASSUME NEW l \in Logins PROVE RAFits(row', l, alone[l], PA!Spoiled \cup RAOut(l)')
    BY <1>1, <1>9 DEF RAAlone
  <2>1. \A q \in Posts : RARefreshes(post[q], l) => post'[q] = post[q]
    BY <1>1, <1>8 DEF RARefreshes, j
  <2>2. PA!Spoiled \cup RAOut(l) \subseteq PA!Spoiled \cup RAOut(l)'
    BY <2>1 DEF RAOut
  <2>3. RAFits(row, l, alone[l], PA!Spoiled \cup RAOut(l))
    BY <1>3 DEF RAAlone
  <2>4. ASSUME NEW a \in Mt5 \ (PA!Spoiled \cup RAOut(l)'), ~RASame(l, row[a], row'[a]) PROVE FALSE
    <3>1. a = j.id /\ j.kind \notin {"sync", "ctrader"} /\ l \in PA!LoginsOf({j.was, j.puts[j.id]})
      BY <1>10, <2>4
    <3>2. to = "unbind"
      BY <1>5, <3>1
    <3>3. RARefreshes(k, l) /\ k.id = a
      BY <1>7, <3>1, <3>2 DEF RARefreshes
    <3>4. a \in RAOut(l)'
      BY <1>8, <3>3 DEF RAOut
    <3> QED BY <3>4
  <2> HIDE DEF RAOut
  <2> QED BY <2>2, <2>3, <2>4, RAFitsKept
<1>18. RADefault'
  <2> SUFFICES ASSUME deft # None, deft \notin PA!Spoiled, deft \notin silent', ~PA!On(row', deft)
               PROVE  \E q \in Posts : post'[q].id = deft /\ RADrops(post'[q])
    BY <1>1, <1>9 DEF RADefault
  <2>1. CASE \E q \in Posts : post[q].id = deft /\ RADrops(post[q])
    <3>1. PICK q \in Posts : post[q].id = deft /\ RADrops(post[q])
      BY <2>1
    <3>2. q # p
      BY <1>1, <3>1 DEF j, RADrops, RAMending
    <3> QED BY <1>8, <3>1, <3>2
  <2>2. CASE PA!On(row, deft)
    <3>0. deft \in PA!Accounts
      BY <1>3 DEF RATyped
    <3>1. deft \in D /\ row'[deft] = j.puts[deft] /\ deft \in j.about
      BY <1>4, <2>2, <3>0 DEF PA!On, PA!Has
    <3>2. j.kind \notin {"sync", "beat", "ctrader"}
      <4>1. j.kind \notin {"beat", "ctrader"}
        BY <1>1, <2>2, <3>1
      <4>2. j.kind # "sync"
        BY <1>2, <2>2, <3>1 DEF RAFresh, PA!On, PA!Has
      <4> QED BY <4>1, <4>2
    <3>3. deft = j.id /\ row[j.id] = j.was /\ row'[j.id] = j.puts[j.id]
      BY <1>4, <3>1, <3>2
    <3>4. CASE j.kind = "edit"
      <4>1. j.drop
        BY <1>1, <1>2, <2>2, <3>3, <3>4 DEF RAHolds, PA!On, PA!Has
      <4>2. to \in {"unbind", "default"}
        BY <1>5, <3>4, <4>1
      <4>3. RADrops(k) /\ k.id = deft
        BY <1>7, <3>3, <3>4, <4>1, <4>2 DEF RADrops, RAMending
      <4> QED BY <1>8, <4>3
    <3>5. CASE j.kind = "delete"
      <4>1. j.id \in Mt5
        BY <1>1, <1>2, <3>5 DEF RAHolds
      <4>2. to = "unbind"
        BY <1>5, <3>5, <4>1
      <4>3. RADrops(k) /\ k.id = deft
        BY <1>7, <3>3, <3>5, <4>2 DEF RADrops, RAMending
      <4> QED BY <1>8, <4>3
    <3>6. CASE j.kind \in {"create", "check"}
      BY <1>1, <1>2, <2>2, <3>3, <3>6 DEF RAHolds, PA!On, PA!Has
    <3>7. j.kind \in RAAsks
      BY <1>2 DEF RAHolds
    <3> QED BY <3>2, <3>4, <3>5, <3>6, <3>7 DEF RAAsks
  <2> QED BY <1>3, <1>9, <2>1, <2>2 DEF RADefault
<1> QED BY <1>12, <1>13, <1>14, <1>15, <1>16, <1>17, <1>18 DEF RASound

LEMMA RAStep == RASound /\ [PA!Next]_PA!vars => RASound'
<1> SUFFICES ASSUME RASound, [PA!Next]_PA!vars PROVE RASound'
  OBVIOUS
<1>1. CASE UNCHANGED PA!vars
  <2>1. /\ UNCHANGED <<row, exact, alone, deft, post, met, cut, silent, stopped>>
    BY <1>1 DEF PA!vars, PA!registry, PA!ghosts
  <2>2. PA!Spoiled' = PA!Spoiled /\ \A l : RAOut(l)' = RAOut(l)
    BY <2>1 DEF PA!Spoiled, RAOut
  <2>3. RATyped' /\ RAMeet' /\ RAJobs'
    BY <2>1, <2>2 DEF RASound, RATyped, RAMeet, RAJobs
  <2>4. RAExact' /\ RABound' /\ RADefault'
    BY <2>1, <2>2 DEF RASound, RAExact, RABound, RADefault
  <2>5. RAAlone'
    BY <2>1, <2>2 DEF RASound, RAAlone
  <2> QED BY <2>3, <2>4, <2>5 DEF RASound
<1>2. ASSUME NEW p \in Posts, PA!AccountsPage(p) PROVE RASound'
  <2>1. ASSUME NEW a \in Mt5, NEW q \in Patches, PA!EditMt5(p, a, q) PROVE RASound'
    BY <2>1, RAEditMt5
  <2>2. ASSUME NEW a \in Mt5, NEW f \in Forms, PA!CreateMt5(p, a, f) PROVE RASound'
    BY <2>2, RACreateMt5
  <2>3. ASSUME NEW a \in Mt5, PA!DeleteMt5(p, a) PROVE RASound'
    BY <2>3, RADeleteMt5
  <2>4. ASSUME NEW a \in CTrader, NEW q \in Patches, PA!EditCTrader(p, a, q, "edit") PROVE RASound'
    BY <2>4, RAEditCTrader
  <2>5. CASE PA!Reconcile(p)
    BY <2>5, RAReconcile
  <2> QED BY <1>2, <2>1, <2>2, <2>3, <2>4, <2>5 DEF PA!AccountsPage
<1>3. ASSUME NEW p \in Posts, PA!CTraderPage(p) PROVE RASound'
  <2>1. ASSUME NEW a \in CTrader, NEW q \in Patches, PA!EditCTrader(p, a, q, "ctrader") PROVE RASound'
    BY <2>1, RAEditCTrader
  <2>2. ASSUME NEW granted \in SUBSET CTrader \ {{}}, PA!SyncCTrader(p, granted) PROVE RASound'
    BY <2>2, RASyncCTrader
  <2> QED BY <1>3, <2>1, <2>2 DEF PA!CTraderPage
<1>4. ASSUME NEW p \in Posts, NEW bs \in SUBSET Beats \ {{}}, PA!Heartbeats(p, bs) PROVE RASound'
  BY <1>4, RAHeartbeats
<1>5. ASSUME NEW p \in Posts, NEW b \in Beats, PA!HeartbeatRow(p, b) PROVE RASound'
  BY <1>5, RAHeartbeatRow
<1>6. ASSUME NEW p \in Posts, NEW a \in Mt5, NEW s \in Servers \cup {None}, PA!ReconcileRow(p, a, s)
      PROVE  RASound'
  BY <1>6, RAReconcileRow
<1>7. ASSUME NEW p \in Posts, NEW l \in Logins, PA!LookAtLogin(p, l) PROVE RASound'
  BY <1>7, RALookAtLogin
<1>8. ASSUME NEW p \in Posts,
             \/ PA!LastRow(p) \/ PA!Put(p) \/ PA!Unbind(p) \/ PA!Bind(p) \/ PA!BindLogin(p) \/ PA!LookAtDefault(p)
             \/ PA!DropDefault(p) \/ PA!LookBeforeDefault(p) \/ PA!SetDefault(p) \/ PA!Stop(p)
      PROVE  RASound'
  BY <1>8, RALastRow, RAPut, RAUnbind, RABind, RABindLogin, RALookAtDefault, RADropDefault,
     RALookBeforeDefault, RASetDefault, RAStop
<1>9. CASE PA!Next
  BY <1>2, <1>3, <1>4, <1>5, <1>6, <1>7, <1>8, <1>9 DEF PA!Next
<1> QED BY <1>1, <1>9

LEMMA RAAtRest == RASound => PA!RegistryAgrees
<1> SUFFICES ASSUME RASound, PA!AtRest PROVE PA!RegistryAgrees
  BY DEF PA!RegistryAgrees
<1>1. \A p \in Posts : ~RARuns(post[p])
  BY DEF PA!AtRest, PA!Running, RARuns
<1>2. /\ RATyped /\ RAExact /\ RABound /\ RAAlone /\ RADefault
  BY DEF RASound
<1>3. \A p \in Posts : /\ ~RABinds(post[p]) /\ ~RADrops(post[p])
                       /\ \A k : ~RAUnbinds(post[p], k)
                       /\ \A l : ~RARefreshes(post[p], l)
  BY <1>1 DEF RARuns, RABinds, RADrops, RAMending, RAUnbinds, RARefreshes
<1>4. ASSUME NEW k \in PA!Identity, exact[k] # None, exact[k].id \notin PA!Spoiled
      PROVE  /\ PA!Binds(row[exact[k].id]) /\ PA!KeyOf(row[exact[k].id]) = k
             /\ exact[k] = PA!Record(exact[k].id, row[exact[k].id])
  BY <1>2, <1>3, <1>4 DEF RAExact, RAGood
<1>5. ASSUME NEW a \in Mt5, PA!Binds(row[a])
      PROVE  a \in PA!Spoiled \cup cut \/ exact[PA!KeyOf(row[a])] # None
  BY <1>2, <1>3, <1>5 DEF RABound
<1>6. ASSUME NEW l \in Logins, alone[l] # None
      PROVE  alone[l].id \in PA!Spoiled \/ alone[l] = PA!Sole(row, l)
                                        \/ \E a \in PA!Spoiled : PA!On(row, a) /\ row[a].login = l
  <2> DEFINE v == alone[l]
  <2>1. RAOut(l) = {}
    BY <1>3 DEF RAOut
  <2>2. RAFits(row, l, v, PA!Spoiled)
    BY <1>2, <2>1 DEF RAAlone
  <2>3. CASE v.id \in PA!Spoiled
    BY <2>3
  <2>4. CASE /\ v.id \in PA!Enabled(row, l) /\ v = PA!Record(v.id, row[v.id]) /\ row[v.id].srv = None
             /\ PA!Enabled(row, l) \ {v.id} \subseteq PA!Spoiled
    <3>1. CASE PA!Enabled(row, l) = {v.id}
      <4>1. (CHOOSE x \in PA!Enabled(row, l) : TRUE) = v.id
        BY <3>1
      <4>2. PA!Sole(row, l) = PA!Record(v.id, row[v.id])
        BY <2>4, <3>1, <4>1 DEF PA!Sole
      <4> QED BY <2>4, <4>2
    <3>2. CASE PA!Enabled(row, l) # {v.id}
      <4>1. PICK a \in PA!Enabled(row, l) : a # v.id
        BY <2>4, <3>2
      <4> QED BY <2>4, <4>1 DEF PA!Enabled
    <3> QED BY <3>1, <3>2
  <2> QED BY <1>6, <2>2, <2>3, <2>4 DEF RAFits
<1>7. deft = None \/ PA!On(row, deft) \/ deft \in PA!Spoiled \cup silent
  BY <1>2, <1>3 DEF RADefault
<1> QED BY <1>4, <1>5, <1>6, <1>7 DEF PA!RegistryAgrees

\* Once the requests are through, the auto-bind keys and the default account agree with the
\* accounts, up to what overlapping, stopped or careless requests are known to leave.
THEOREM RegistryAgreesHolds == PA!Spec => []RegistryAgrees
<1>1. RASound => RegistryAgrees
  BY RAAtRest DEF RegistryAgrees
<1> QED BY <1>1, RAInit, RAStep, PTL DEF PA!Spec
=============================================================================

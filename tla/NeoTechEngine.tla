---------------------------- MODULE NeoTechEngine ----------------------------
(***************************************************************************)
(* From a terminal's history to a NeoTech profile: what the connector EA   *)
(* sends of an account's deals (OAK_NeoTech_ReadOnly_Connector.mq5), and   *)
(* what the rule engine makes of it (neotech-public-engine.ts).            *)
(*                                                                         *)
(* The engine begins anew with every snapshot: it sorts the deals,         *)
(* folds them into episodes (one for each time a position was open) and    *)
(* judges the rules; the verdicts and the equity points are what is kept.  *)
(*                                                                         *)
(* Time is counted in quarters of an hour of UTC; prices, profits          *)
(* and volumes are small integers.  A stop or target is "far" when it lies *)
(* more than 30 pips away.  Rules whose verdict is fixed (E3, E4, C8) or   *)
(* only repeats the account's mode (E2) are left out.                      *)
(***************************************************************************)
EXTENDS Integers, Sequences, FiniteSets, SequencesExt

CONSTANTS
    Positions,      \* position ids; one is used once
    Symbols, Products,  \* symbols traded, and those that are forex or gold
    Prices, Profits,    \* of an opening, of a closing deal
    Expert, Far,    \* positions an EA opens; positions with a far stop
    Flows,          \* deposits, withdrawals and credits: [kind, amount]
    Losses,         \* floating losses a snapshot may find
    Capital,        \* balance at the beginning
    Start, BrokerFrom,  \* the first quarter; the one the broker's clock turns to UTC+3
    SummerFrom, SummerTo,   \* April to October by the broker's clock
    Delays,         \* what may pass between two events
    Window,         \* InpHistoryDays
    MaxSent,        \* OAK_MAX_TRADING_DEALS
    MaxPoints,      \* equity points the store keeps
    FirstTicket, MaxDeals, MaxFlows, MaxSyncs, MaxEvents, MaxClock

Day == 96
Week == 7 * Day
Month == 30 * Day
Hold == 1

VARIABLES
    netting,    \* the account keeps one position per symbol
    clock,      \* UTC
    held,       \* open positions
    log,        \* deals, in the broker's order
    cash,       \* cash flows
    points,     \* equity points in the store
    profile,    \* verdicts of the last snapshot
    syncs

account == <<netting, held, log, cash>>
vars == <<account, clock, points, profile, syncs>>

Flat == [sym |-> "none", dir |-> 0, vol |-> 0]
IsHeld(p) == held[p].vol > 0
Used == {log[i].pos : i \in DOMAIN log}

\* The sum of f over those of the numbers 0 to n that are in S.
SumOf(n, S, f) ==
    LET sum[k \in 0 .. n] == (IF k = 0 THEN 0 ELSE sum[k - 1]) + (IF k \in S THEN f[k] ELSE 0)
    IN  sum[n]

-----------------------------------------------------------------------------
(* What the connector sends *)

\* The broker's clock, by which it dates a deal.
Server == clock + (IF BrokerFrom <= clock THEN 12 ELSE 8)

\* UTC+3 in the summer months, UTC+2 else, for every broker.
Offset(t) == IF SummerFrom <= t /\ t < SummerTo THEN 12 ELSE 8
Utc(t) == t - Offset(t)

\* The newest MaxSent deals of the window, from the last one backwards.
SentDeals ==
    {i \in DOMAIN log : log[i].at >= Server - Window /\ i > Len(log) - MaxSent}
Truncated == \E i \in DOMAIN log : log[i].at >= Server - Window /\ i <= Len(log) - MaxSent
Later == MaxClock + Day
SentFlows == {i \in DOMAIN cash : cash[i].at >= Server - Window}

\* A ticket is sent as text.
TextBefore(a, b) ==
    LET Padded(n) == IF n < 10 THEN 10 * n ELSE n
    IN  Padded(a) < Padded(b) \/ (Padded(a) = Padded(b) /\ a < b)

-----------------------------------------------------------------------------
(* Deals into episodes *)

Before(i, j) ==
    \/ Utc(log[i].at) < Utc(log[j].at)
    \/ Utc(log[i].at) = Utc(log[j].at) /\ TextBefore(log[i].ticket, log[j].ticket)

SortedDeals ==
    LET sent == SentDeals
        Place(i) == Cardinality({j \in sent : Before(j, i)})
    IN  [n \in 1 .. Cardinality(sent) |-> log[CHOOSE i \in sent : Place(i) = n - 1]]

Episode(d, vol, profit) ==
    [pos |-> d.pos, sym |-> d.sym, dir |-> d.side, first |-> Utc(d.at), offset |-> Offset(d.at),
     close |-> 0, open |-> TRUE, ticket |-> d.ticket, order |-> d.order, vol |-> vol,
     price |-> d.price, cost |-> d.price, per |-> 1, profit |-> profit,
     adverse |-> FALSE]

\* The weighted price is cost / per; a second fill of the opening order is no new entry.
AddEntry(e, d) ==
    LET worse == IF e.dir > 0 THEN d.price * e.per < e.cost ELSE d.price * e.per > e.cost
    IN  [e EXCEPT !.cost = @ * e.vol + d.price * d.vol * e.per, !.per = @ * (e.vol + d.vol),
                  !.vol = @ + d.vol, !.profit = @ + d.profit,
                  !.adverse = @ \/ (worse /\ d.order # e.order)]

\* Mutant: the profit of a closing deal counts when the position is closed.
CloseEpisodeLate(e, d, vol) ==
    LET rest == IF e.vol > vol THEN e.vol - vol ELSE 0 IN
    [e EXCEPT !.vol = rest,
              !.profit = IF rest = 0 THEN @ + d.profit ELSE @,
              !.open = rest > 0, !.close = IF rest = 0 THEN Utc(d.at) ELSE @]

CloseEpisode(e, d, vol) ==
    LET rest == IF e.vol > vol THEN e.vol - vol ELSE 0 IN
    [e EXCEPT !.vol = rest, !.profit = @ + d.profit,
              !.open = rest > 0, !.close = IF rest = 0 THEN Utc(d.at) ELSE @]

\* The newest open episode of the deal's position, 0 if there is none.
Current(es, d) ==
    LET S == {k \in DOMAIN es : es[k].open /\ es[k].pos = d.pos /\ es[k].sym = d.sym}
    IN  IF S = {} THEN 0 ELSE CHOOSE k \in S : \A m \in S : m <= k

\* Mutant: what a reversal opens is as large as its deal.
ReverseWhole(es, d) ==
    LET k == Current(es, d)
        old == IF k = 0 THEN 0 ELSE es[k].vol
        ended == IF k = 0 THEN es ELSE [es EXCEPT ![k] = CloseEpisode(@, d, old)]
    IN  Append(ended, Episode(d, d.vol, 0))

\* INOUT: the old episode takes the whole profit, the rest of the volume opens anew.
TurnAround(es, d) ==
    LET k == Current(es, d)
        old == IF k = 0 THEN 0 ELSE es[k].vol
        ended == IF k = 0 THEN es ELSE [es EXCEPT ![k] = CloseEpisode(@, d, old)]
    IN  IF d.vol > old THEN Append(ended, Episode(d, d.vol - old, 0)) ELSE ended

TakeDeal(es, d) ==
    LET k == Current(es, d) IN
    CASE d.entry = "IN" /\ k = 0 -> Append(es, Episode(d, d.vol, d.profit))
      [] d.entry = "IN" /\ k > 0 -> [es EXCEPT ![k] = AddEntry(@, d)]
      [] d.entry = "INOUT"       -> TurnAround(es, d)
      [] OTHER -> IF k = 0 THEN es ELSE [es EXCEPT ![k] = CloseEpisode(@, d, d.vol)]

\* One deal after the other.
EpisodesOf(deals) ==
    LET es[n \in 0 .. Len(deals)] == IF n = 0 THEN <<>> ELSE TakeDeal(es[n - 1], deals[n])
    IN  es[Len(deals)]
NormalizeEpisodes == EpisodesOf(SortedDeals)

-----------------------------------------------------------------------------
(* Months, weeks and sessions *)

Now == clock
ProgramStart(es) == CHOOSE t \in {e.first : e \in ToSet(es)} : \A e \in ToSet(es) : t <= e.first
CompletedMonths(start) == IF Now <= start THEN 0 ELSE (Now - start) \div Month
Horizon(start) == Now - start >= 365 * Day /\ CompletedMonths(start) >= 12

ClosedIn(es, from, to) == {k \in DOMAIN es : ~es[k].open /\ from <= es[k].close /\ es[k].close < to}
FlowsIn(from, to) == {i \in SentFlows : from <= Utc(cash[i].at) /\ Utc(cash[i].at) < to}
ProfitOf(es) == [k \in DOMAIN es |-> es[k].profit]
Amounts == [i \in DOMAIN cash |-> cash[i].amount]
ProfitIn(es, from, to) == SumOf(Len(es), ClosedIn(es, from, to), ProfitOf(es))
CashIn(from, to) == SumOf(Len(cash), FlowsIn(from, to), Amounts)

\* ACCOUNT_BALANCE: credits are not part of it.
Balance ==
    Capital + SumOf(Len(log), DOMAIN log, ProfitOf(log))
            + SumOf(Len(cash), {i \in DOMAIN cash : cash[i].kind # "CREDIT"}, Amounts)

\* reconstructOpeningBalance: the balance less everything since the first entry.
Opening(es, start) ==
    LET rest == Balance - ProfitIn(es, start, Later) - CashIn(start, Later)
    IN  IF rest > 1 THEN rest ELSE 1

\* buildMonths, for the n-th window of 30 days.
MonthAt(es, start, n) ==
    LET from == start + n * Month
        balance == Opening(es, start) + ProfitIn(es, start, from) + CashIn(start, from)
        profit == ProfitIn(es, from, from + Month)
    IN  [balance |-> balance, profit |-> profit,
         status |-> IF Now < from + Month THEN "IN_PROGRESS"
                    ELSE IF balance > 0 /\ 100 * profit >= balance THEN "PASS" ELSE "FAIL"]
Months(es, start) == [n \in 0 .. CompletedMonths(start) |-> MonthAt(es, start, n)]

\* The first Monday at or after the day of the first entry; quarter 0 is a Monday.
WeeksFrom(e) ==
    LET day == (e.first + e.offset) \div Day
        wait == (7 - (day % 7)) % 7
    IN  (day + wait) * Day - e.offset

FailedWeeks(es) ==
    LET first == CHOOSE e \in ToSet(es) : \A o \in ToSet(es) : e.first <= o.first
        from == WeeksFrom(first)
        Signals(n) == {k \in DOMAIN es : from + n * Week <= es[k].first
                                         /\ es[k].first < from + (n + 1) * Week}
    IN  {n \in 0 .. ((Now - from) \div Week) - 1 : Cardinality(Signals(n)) < 3}

\* neoTechSession: Asia first, Europe and the US an hour earlier in summer.
Session(e) ==
    LET t == e.first + e.offset
        at == t % Day
        summer == SummerFrom <= t /\ t < SummerTo
        Between(from, to) == 4 * from <= at /\ at < 4 * to
        shift == IF summer THEN 0 ELSE 1
    IN  CASE Between(2, 11) -> "ASIA"
          [] ~Between(2, 11) /\ Between(9 + shift, 18 + shift) -> "EUROPE"
          [] at >= 4 * (18 + shift) /\ at < 4 * (23 + shift) -> "US"
          [] OTHER -> "OUTSIDE_SESSION"
SessionDay(e) == (e.first + e.offset) \div Day

-----------------------------------------------------------------------------
(* The rules *)

\* c5Occurrences, over the whole history.
Occurrences(es) ==
    Cardinality({k \in DOMAIN es :
        /\ Session(es[k]) # "OUTSIDE_SESSION"
        /\ \E m \in DOMAIN es \ {k} :
              /\ es[m].sym = es[k].sym
              /\ \/ es[m].first < es[k].first
                 \/ es[m].first = es[k].first /\ TextBefore(es[m].ticket, es[k].ticket)
              /\ Session(es[m]) = Session(es[k]) /\ SessionDay(es[m]) = SessionDay(es[k])})

End(e) == IF e.open THEN Now ELSE e.close

\* c6EpisodeStatus; the connector never has the whole timeline of a stop.
Held15(e) ==
    CASE e.open -> IF Now - e.first >= Hold THEN "PASS" ELSE "IN_PROGRESS"
      [] ~e.open /\ (e.close - e.first >= Hold \/ e.pos \in Far) -> "PASS"
      [] OTHER -> "NOT_VERIFIABLE"

ActiveAt(e, t) == e.first <= t /\ (e.open \/ e.close > t)

Dca(es) ==
    \/ \E k \in DOMAIN es : es[k].adverse
    \/ \E k, m \in DOMAIN es :
          /\ es[k].sym = es[m].sym /\ es[k].dir = es[m].dir /\ es[k].pos # es[m].pos
          /\ es[k].first < es[m].first \/ (es[k].first = es[m].first /\ k < m)
          /\ ActiveAt(es[k], es[m].first)
          /\ es[k].dir * es[m].price < es[k].dir * es[k].price

Hedge(es) ==
    \E k, m \in DOMAIN es :
        /\ es[k].sym = es[m].sym /\ es[k].dir # es[m].dir /\ es[k].pos # es[m].pos
        /\ es[k].first < End(es[m]) /\ es[m].first < End(es[k])

FloatingLoss(pts) == \E n \in DOMAIN pts : 100 * pts[n].loss >= 2 * pts[n].balance

\* A verdict: the first line that applies.
Verdict(fail, none, unverifiable, incomplete, done) ==
    IF fail THEN "FAIL" ELSE IF none THEN "IN_PROGRESS"
    ELSE IF unverifiable THEN "NOT_VERIFIABLE" ELSE IF incomplete THEN "INSUFFICIENT_DATA"
    ELSE IF done THEN "PASS" ELSE "IN_PROGRESS"

RuleCodes == {"E1", "E5", "C1", "C2", "C3", "C4", "C5", "C6", "C7", "C9"}

BuildRules(es, pts) ==
    LET none == es = <<>>
        start == IF none THEN 0 ELSE ProgramStart(es)
        done == ~none /\ Horizon(start)
        months == IF none THEN <<>> ELSE Months(es, start)
        states == {Held15(es[k]) : k \in DOMAIN es}
        Month2(s) == {n \in DOMAIN months : months[n].status = s}
        funded == ~none /\ \E i \in SentFlows :
                      Utc(cash[i].at) >= start /\ cash[i].kind \in {"DEPOSIT", "WITHDRAWAL"}
    IN [E1 |-> Verdict(\E k \in DOMAIN es : es[k].pos \in Expert, none, FALSE, FALSE, TRUE),
        E5 |-> Verdict(\E k \in DOMAIN es : es[k].sym \notin Products, none, FALSE, FALSE, TRUE),
        C1 |-> Verdict(FALSE, none, FALSE, Truncated, done),
        C2 |-> IF Truncated THEN "INSUFFICIENT_DATA"
               ELSE Verdict(Month2("FAIL") # {}, none, FALSE, FALSE,
                            Cardinality(Month2("PASS")) >= 12),
        C3 |-> Verdict(FloatingLoss(pts), FALSE, FALSE, Len(pts) < 2,
                       pts[Len(pts)].at - pts[1].at >= 365 * Day),
        C4 |-> Verdict(~none /\ FailedWeeks(es) # {}, FALSE, FALSE, Truncated, done),
        C5 |-> Verdict(Occurrences(es) > 0, none,
                       \E k \in DOMAIN es : Session(es[k]) = "OUTSIDE_SESSION", Truncated, done),
        C6 |-> Verdict("FAIL" \in states, none, "NOT_VERIFIABLE" \in states, FALSE,
                       "IN_PROGRESS" \notin states /\ done),
        C7 |-> Verdict(Hedge(es) \/ Dca(es), none, FALSE, Truncated, done),
        C9 |-> Verdict(funded, none, FALSE, Truncated, done)]

-----------------------------------------------------------------------------
(* The account *)

Init ==
    /\ netting \in BOOLEAN /\ clock = Start
    /\ held = [p \in Positions |-> Flat]
    /\ log = <<>> /\ cash = <<>> /\ points = <<>>
    /\ profile = [r \in RuleCodes |-> "IN_PROGRESS"] /\ syncs = 0

\* No deal falls in the moment of a snapshot that has been taken.
Unseen ==
    /\ Len(log) + Len(cash) + syncs < MaxEvents
    /\ \A n \in DOMAIN points : points[n].at # Now

Free(p, s) == Used = {q \in Positions : q < p} /\ (netting => \A q \in Positions : IsHeld(q) => held[q].sym # s)

OpenPosition(p, s, side, price) ==
    /\ Unseen /\ Len(log) < MaxDeals /\ Free(p, s)
    /\ held' = [held EXCEPT ![p] = [sym |-> s, dir |-> side, vol |-> 2]]
    /\ log' = Append(log, [pos |-> p, sym |-> s, side |-> side, entry |-> "IN", vol |-> 2,
                           price |-> price, profit |-> 0, order |-> Len(log) + 1,
                           ticket |-> FirstTicket + Len(log) + 1, at |-> Server])
    /\ UNCHANGED <<netting, clock, cash, points, profile, syncs>>

Fill(p, entry, side, vol, price, profit, order) ==
    [pos |-> p, sym |-> held[p].sym, side |-> side, entry |-> entry, vol |-> vol, price |-> price,
     profit |-> profit, order |-> order, ticket |-> FirstTicket + Len(log) + 1, at |-> Server]

\* A further fill of the opening order, or (netting) another order.
Increase(p, price, same) ==
    /\ Unseen /\ Len(log) < MaxDeals /\ IsHeld(p) /\ (same \/ netting)
    /\ same => log[Len(log)].pos = p /\ log[Len(log)].at = Server /\ log[Len(log)].entry = "IN"
    /\ held' = [held EXCEPT ![p].vol = @ + 1]
    /\ log' = Append(log, Fill(p, "IN", held[p].dir, 1, price, 0,
                               IF same THEN log[Len(log)].order ELSE Len(log) + 1))
    /\ UNCHANGED <<netting, clock, cash, points, profile, syncs>>

Reduce(p, vol, profit) ==
    /\ Unseen /\ Len(log) < MaxDeals /\ IsHeld(p) /\ vol <= held[p].vol
    /\ held' = IF vol = held[p].vol THEN [held EXCEPT ![p] = Flat]
               ELSE [held EXCEPT ![p].vol = @ - vol]
    /\ log' = Append(log, Fill(p, "OUT", -held[p].dir, vol, 1, profit, Len(log) + 1))
    /\ UNCHANGED <<netting, clock, cash, points, profile, syncs>>

ReversePosition(p, profit) ==
    /\ Unseen /\ netting /\ Len(log) < MaxDeals /\ IsHeld(p)
    /\ held' = [held EXCEPT ![p].dir = -@, ![p].vol = 1]
    /\ log' = Append(log, Fill(p, "INOUT", -held[p].dir, held[p].vol + 1, 1, profit, Len(log) + 1))
    /\ UNCHANGED <<netting, clock, cash, points, profile, syncs>>

\* Two opposite positions of a hedging account close each other.
CloseBy(p, q, profit) ==
    /\ Unseen /\ ~netting /\ Len(log) + 2 <= MaxDeals /\ p # q /\ IsHeld(p) /\ IsHeld(q)
    /\ held[p].sym = held[q].sym /\ held[p].dir # held[q].dir /\ held[p].vol = held[q].vol
    /\ held' = [held EXCEPT ![p] = Flat, ![q] = Flat]
    /\ log' = log \o <<Fill(p, "OUT_BY", -held[p].dir, held[p].vol, 1, profit, Len(log) + 1),
                       [Fill(q, "OUT_BY", -held[q].dir, held[q].vol, 1, 0, Len(log) + 1)
                           EXCEPT !.ticket = @ + 1]>>
    /\ UNCHANGED <<netting, clock, cash, points, profile, syncs>>

MoveCash(f) ==
    /\ Unseen /\ Len(cash) < MaxFlows
    /\ cash' = Append(cash, [kind |-> f.kind, amount |-> f.amount, at |-> Server])
    /\ UNCHANGED <<netting, clock, held, log, points, profile, syncs>>

\* A snapshot adds an equity point, of which the store keeps the newest, and is judged.
Sync(loss) ==
    /\ Unseen /\ syncs < MaxSyncs /\ syncs' = syncs + 1
    /\ loss > 0 => \E p \in Positions : IsHeld(p)
    /\ LET all == Append(points, [at |-> Now, balance |-> Balance, loss |-> loss])
       IN  points' = SubSeq(all, IF Len(all) > MaxPoints THEN 2 ELSE 1, Len(all))
    /\ \E es \in {NormalizeEpisodes} : profile' = BuildRules(es, points')
    /\ UNCHANGED <<account, clock>>

\* Time passes in one piece between two events.
Wait(d) ==
    /\ \/ clock = Start
       \/ \E i \in DOMAIN log : log[i].at = Server
       \/ \E i \in DOMAIN cash : cash[i].at = Server
       \/ \E n \in DOMAIN points : points[n].at = Now
    /\ clock + d <= MaxClock /\ clock' = clock + d
    /\ UNCHANGED <<account, points, profile, syncs>>

Next ==
    \/ \E p \in Positions :
          \/ \E s \in Symbols, side \in {1, -1}, price \in Prices :
                 OpenPosition(p, s, side, price)
          \/ \E price \in Prices, same \in BOOLEAN : Increase(p, price, same)
          \/ \E vol \in {1, held[p].vol}, profit \in Profits : Reduce(p, vol, profit)
          \/ \E profit \in Profits : ReversePosition(p, profit)
          \/ \E q \in Positions, profit \in Profits : CloseBy(p, q, profit)
    \/ \E f \in Flows : MoveCash(f)
    \/ \E loss \in Losses : Sync(loss)
    \/ \E d \in Delays : Wait(d)

Spec == Init /\ [][Next]_vars

-----------------------------------------------------------------------------
\* The history reaches the engine whole, and its sort keeps the broker's order.  It does
\* not when deals are older than the window or too many; when the hour repeats at the
\* beginning of summer; or when two deals of one moment have tickets of different length.
Whole == SentDeals = DOMAIN log /\ SentFlows = DOMAIN cash
InOrder == \A i, j \in SentDeals : i < j => Before(i, j)

\* The open episodes are the broker's open positions: direction and volume.
EpisodesMatchBroker ==
    Whole /\ InOrder =>
        \E es \in {NormalizeEpisodes} : \A p \in Positions :
            {[sym |-> es[k].sym, dir |-> es[k].dir, vol |-> es[k].vol] :
                 k \in {m \in DOMAIN es : es[m].open /\ es[m].pos = p}}
            = IF IsHeld(p) THEN {held[p]} ELSE {}

\* Nothing is dated after the window that is open.  A deal can be, by an hour: in
\* March the broker's clock changes before the formula does.
NoneAhead(end) ==
    (\A i \in DOMAIN log : Utc(log[i].at) < end) /\ (\A i \in DOMAIN cash : Utc(cash[i].at) < end)

\* Once no position is open, the months begin with the balance the account had before its
\* first deal and end with the one it has now, every profit in exactly one of them.
MonthsAddUp ==
    log # <<>> /\ Whole /\ InOrder /\ (\A p \in Positions : ~IsHeld(p))
    /\ (\A i \in DOMAIN cash : cash[i].kind # "CREDIT") =>
        \E es \in {NormalizeEpisodes} :
        LET start == ProgramStart(es)
            rows == Months(es, start)
            last == CompletedMonths(start)
            end == start + (last + 1) * Month
            profits == [n \in 0 .. last |-> rows[n].profit]
            before == Capital + SumOf(Len(cash), {i \in DOMAIN cash : Utc(cash[i].at) < start}, Amounts)
        IN  NoneAhead(end) /\ before >= 1 =>
            /\ rows[0].balance = before
            /\ SumOf(last, 0 .. last, profits) = SumOf(Len(log), DOMAIN log, ProfitOf(log))
            /\ rows[last].balance + rows[last].profit + CashIn(start + last * Month, end) = Balance

=============================================================================

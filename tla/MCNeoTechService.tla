-------------------------- MODULE MCNeoTechService --------------------------
\* Four parts that share no state: an initial state picks the one of them that moves,
\* the others rest.  NeoTechService: one pairing request, two operations of the
\* owner, two snapshots.  C5Reminder: two accounts, two positions, two deals.
\* H1Timekeeper: four calls in three hours.  C5Look: a small account for NeoTechEngine,
\* beginning a quarter before summer time.
EXTENDS NeoTechService, Integers, TLC

CONSTANTS r1, w1, w2
MCRequests == {r1}
MCOps == {w1, w2}
Alike == Permutations(MCOps)

-----------------------------------------------------------------------------
CONSTANTS AccountLogins, Positions, Deals, MaxSeen, Nothing
VARIABLES login, position, report, helper
reminder == <<login, position, report, helper>>
CR == INSTANCE C5Reminder

ASSUME ReminderAssumption ==
    /\ IsFiniteSet(Deals) /\ Deals \subseteq Nat /\ Positions \subseteq Nat
    /\ MaxSeen \in Nat \ {0} /\ Nothing \notin Deals \cup AccountLogins \cup CR!Position

CONSTANTS Handlers, LastHour, MaxMisses, NoHour
VARIABLES hour, alarm, success, handler, again, begun, looked, spanned, ended, misses
timekeeper == <<hour, alarm, success, handler, again, begun, looked, spanned, ended, misses>>
TK == INSTANCE H1Timekeeper

ASSUME ClockAssumption ==
    LastHour \in Nat /\ MaxMisses \in Nat /\ NoHour \notin Nat

-----------------------------------------------------------------------------
CONSTANTS Symbols, Products, Prices, Profits, Expert, Far, Flows, Losses, Capital, Start,
    BrokerFrom, SummerFrom, SummerTo, Delays, Window, MaxSent, MaxPoints, FirstTicket,
    MaxDeals, MaxFlows, MaxSyncs, MaxEvents, MaxClock
VARIABLES netting, clock, held, log, cash, points, profile, syncs
engine == <<netting, clock, held, log, cash, points, profile, syncs>>
CE == INSTANCE C5Look

Gains == {3}
OneFlow == {[kind |-> "DEPOSIT", amount |-> 5]}
Jumps == {12, 2880}

ASSUME EngineAssumption ==
    /\ Products \subseteq Symbols /\ Expert \subseteq Positions /\ Far \subseteq Positions
    /\ Positions \subseteq Nat /\ Prices \subseteq Int /\ Profits \subseteq Int
    /\ Capital \in Nat \ {0} /\ FirstTicket \in 1 .. 99 /\ MaxDeals \in Nat
    /\ FirstTicket + MaxDeals < 100
    /\ {Start, BrokerFrom, SummerFrom} \subseteq Nat /\ SummerTo \in Nat
    /\ Delays \subseteq Nat

\* A month begins at midnight.
ASSUME CalendarAssumption ==
    /\ SummerFrom % CE!Day = 0 /\ SummerTo % CE!Day = 0
    /\ MaxClock \in Nat /\ Start <= MaxClock

ASSUME CashAssumption ==
    Flows \subseteq [kind : {"DEPOSIT", "WITHDRAWAL", "CREDIT"}, amount : Int]

-----------------------------------------------------------------------------
CONSTANT Parts      \* those a run checks
VARIABLE part       \* the part that moves

\* The parts that rest are in one of their initial states.
MCInit ==
    /\ part \in Parts
    /\ Init /\ CR!Init /\ TK!Init /\ CE!Init
    /\ login = 1 /\ (part # "engine" => netting)

ServiceStep == part = "service" /\ Next /\ UNCHANGED <<part, reminder, timekeeper, engine>>
ReminderStep == part = "reminder" /\ CR!Next /\ UNCHANGED <<part, vars, timekeeper, engine>>
ClockStep == part = "clock" /\ TK!Next /\ UNCHANGED <<part, vars, reminder, engine>>
EngineStep == part = "engine" /\ CE!Next /\ UNCHANGED <<part, vars, reminder, timekeeper>>

MCNext == ServiceStep \/ ReminderStep \/ ClockStep \/ EngineStep

MCSpec == MCInit /\ [][MCNext]_<<part, vars, reminder, timekeeper, engine>>

-----------------------------------------------------------------------------
\* C5Reminder: every opening is told, once, and under its own account.
RemindersAreRight == CR!RemindersAreRight

\* H1Timekeeper: no hour the watchdog has looked at is skipped, and an alarm is armed.
HourIsNotSkipped == TK!HourIsNotSkipped

\* NeoTechEngine: the open episodes are the open positions, and the months add up.
EpisodesMatchBroker == CE!EpisodesMatchBroker
MonthsAddUp == CE!MonthsAddUp

\* C5Look: an entry that counts against rule C5 was warned of.
AdviceIsSafe == CE!AdviceIsSafe
=============================================================================

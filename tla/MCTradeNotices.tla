--------------------------- MODULE MCTradeNotices ---------------------------
\* Two parts that share no state, in one run: an initial state picks the part that
\* moves, the other rests.  TradeNotices: one stop-loss deal, one break-even that is
\* emitted again, the outcome of one intent.  EntryNetting: two charts, an entry, a
\* preparation of the other side and a close, on a book of two positions.
EXTENDS TradeNotices, TLC

CONSTANTS sl, be, i1
MCDeals == {sl}
MCMoves == {be}
MCIntents == {i1}

-----------------------------------------------------------------------------
CONSTANTS Charts, Tasks, TaskOf, Books, Orders, MinVol, MaxVol, Inputs, MaxTicket, MaxMishaps
VARIABLES inp, pos, last, orders, resting, job, at, todo, deed, bad, req, result, reported,
          acted, unsure, opened, late, mishaps
netting == <<inp, pos, last, orders, resting, job, at, todo, deed, bad, req, result, reported,
             acted, unsure, opened, late, mishaps>>
EN == INSTANCE EntryNetting WITH told <- reported, MaxFaults <- MaxMishaps, faults <- mishaps

ASSUME NettingIsRight == EN!NettingConstants

Entry(buy)   == [kind |-> "entry", buy |-> buy, half |-> 3]
Prepare(buy) == [kind |-> "prepare", buy |-> buy, half |-> 3]
CloseAll     == [kind |-> "close", buy |-> FALSE, half |-> 0]

Three == ("long" :> Entry(TRUE)) @@ ("short" :> Prepare(FALSE)) @@ ("flat" :> CloseAll)

Short(n) == [buy |-> FALSE, lots |-> n]
SomeBooks == {(1 :> Short(1)) @@ (2 :> Short(2))}
Defaults == [maxLot |-> 2, cap |-> 3, skip |-> TRUE, close |-> TRUE, remove |-> TRUE]
Adding   == [maxLot |-> 0, cap |-> 3, skip |-> FALSE, close |-> TRUE, remove |-> FALSE]
TwoInputs == {Defaults, Adding}
SomeOrders == {{Short(1)}}

-----------------------------------------------------------------------------
VARIABLE part       \* the part that moves

\* The part that rests is in one of its initial states.
MCInit ==
    /\ part \in {"notices", "netting"}
    /\ Init /\ EN!Init
    /\ part # "netting" => inp = Defaults

Notices(A) == part = "notices" /\ A /\ UNCHANGED <<part, netting>>
Netting(A) == part = "netting" /\ A /\ UNCHANGED <<part, vars>>

NoticesStep == part = "notices" /\ Next /\ UNCHANGED <<part, netting>>
NettingStep == part = "netting" /\ EN!Next /\ UNCHANGED <<part, vars>>

MCNext == NoticesStep \/ NettingStep
all == <<part, vars, netting>>

\* Each part under the fairness of its own FairSpec, while it moves.
MCFairSpec ==
    /\ MCInit /\ [][MCNext]_all
    /\ WF_all(Notices(Controller)) /\ WF_all(Notices(HeartbeatFresh))
    /\ \A c \in Charts : WF_all(Netting(EN!Chart(c))) /\ WF_all(Netting(EN!Answer(c)))

-----------------------------------------------------------------------------
\* EntryNetting: half of a reversal is told.
HalfReversalIsTold == EN!HalfReversalIsTold

\* EntryNetting: an entry finds the other side empty and the exposure within the cap.
EntryStandsAlone == EN!EntryStandsAlone

\* EntryNetting: every task that was taken is answered.
TaskIsAnswered == EN!TaskIsAnswered
=============================================================================

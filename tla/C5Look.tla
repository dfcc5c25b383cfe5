------------------------------- MODULE C5Look -------------------------------
(***************************************************************************)
(* What the C5 helper tells a trader before an entry                       *)
(* (neotech/NeoTechC5Reminder.mqh, OAK_NeoTech_Compliance_EA.mq5), set     *)
(* against what the rule engine will say of the entry afterwards.  The two *)
(* are written twice, in MQL5 and in TypeScript: the helper reads the      *)
(* terminal's history by the broker's clock, the engine the episodes it    *)
(* makes of the deals it is sent.                                          *)
(***************************************************************************)
EXTENDS NeoTechEngine

Sessions == {"ASIA", "EUROPE", "US"}

NC5AssignSession(t) ==
    LET at == t % Day
        shift == IF SummerFrom <= t /\ t < SummerTo THEN 0 ELSE 4
    IN  IF 8 <= at /\ at < 44 THEN "ASIA"
        ELSE IF 36 + shift <= at /\ at < 72 + shift THEN "EUROPE"
        ELSE IF 56 + shift <= at /\ at < 92 + shift THEN "US"
        ELSE "OUTSIDE_SESSION"

\* The quarters around t that lie in its session without a gap: the walk backwards stops
\* after a day.
SessionStart(t) ==
    CHOOSE s \in t - Day .. t :
        /\ \A q \in s .. t : NC5AssignSession(q) = NC5AssignSession(t)
        /\ s = t - Day \/ NC5AssignSession(s - 1) # NC5AssignSession(t)
SessionEnd(t) ==
    CHOOSE s \in t + 1 .. t + Day + 1 :
        /\ \A q \in t .. s - 1 : NC5AssignSession(q) = NC5AssignSession(t)
        /\ s = t + Day + 1 \/ NC5AssignSession(s) # NC5AssignSession(t)

\* When another session begins; 0 if the opening lies outside of all sessions.
NC5NextReentry(t) ==
    LET Another(s) == NC5AssignSession(s) \in Sessions \ {NC5AssignSession(t)}
    IN  IF NC5AssignSession(t) \notin Sessions THEN 0
        ELSE CHOOSE s \in t + 1 .. t + 2 * Day :
            Another(s) /\ \A q \in t + 1 .. s - 1 : ~Another(q)

\* What the reminder of an opening at t says, in the event and on the screen: its session
\* and the time of re-entry, or that there is none to rely on.
NC5ReminderText(t) == [session |-> NC5AssignSession(t), reentry |-> NC5NextReentry(t)]

\* The helper reads the first n deals of the history.  The deal that opened what position
\* p is by then: its last reversal, or its first entry.
EpisodeOpening(p, n) ==
    LET Of(kind) == {i \in 1 .. n : log[i].pos = p /\ log[i].entry = kind}
        turns == Of("INOUT")
        ins == Of("IN")
    IN  IF turns # {} THEN CHOOSE i \in turns : \A j \in turns : j <= i
        ELSE CHOOSE i \in ins : \A j \in ins : i <= j

\* Mutant: the look lists what is still open.
OpenSymbols(n, from, to) ==
    {log[i].sym : i \in {j \in 1 .. n :
        /\ from <= log[j].at /\ log[j].at < to /\ log[j].entry \in {"IN", "INOUT"}
        /\ \A m \in j .. n : log[m].pos = log[j].pos => log[m].entry = "IN"}}
    \cap Products

\* Forex and gold opened in the session, closed since or not.
CollectCurrentSessionSymbols(n, from, to) ==
    {log[i].sym : i \in {j \in 1 .. n :
        /\ from <= log[j].at /\ log[j].at < to /\ log[j].entry \in {"IN", "INOUT"}
        /\ j = EpisodeOpening(log[j].pos, n)}}
    \cap Products

\* The look on the chart and in Telegram, at time t.
Look(n, t) ==
    IF NC5AssignSession(t) \in Sessions
    THEN CollectCurrentSessionSymbols(n, SessionStart(t), SessionEnd(t)) ELSE {}

-----------------------------------------------------------------------------
\* An entry the engine counts against rule C5 was one the helper had warned of: its
\* product stood in the look of that moment, and the re-entry time of every opening it
\* repeats was still to come.
AdviceIsSafe ==
    Whole /\ InOrder =>
        \E es \in {NormalizeEpisodes} : \A k \in DOMAIN es :
        LET i == es[k].ticket - FirstTicket
            t == log[i].at
            repeats == {m \in DOMAIN es \ {k} :
                /\ es[m].sym = es[k].sym /\ Before(es[m].ticket - FirstTicket, i)
                /\ Session(es[m]) = Session(es[k]) /\ SessionDay(es[m]) = SessionDay(es[k])}
        IN  (repeats # {} /\ Session(es[k]) # "OUTSIDE_SESSION" /\ es[k].sym \in Products) =>
            /\ es[k].sym \in Look(i - 1, t)
            /\ \A m \in repeats : NC5ReminderText(log[es[m].ticket - FirstTicket].at).reentry > t
=============================================================================

---------------------------- MODULE EntryNetting ----------------------------
(***************************************************************************)
(* The entry and close tasks of mt5/OAK_Cloud_Manager_EA.mq5 on the book   *)
(* of one symbol: an entry first closes what stands on the other side,     *)
(* removes the other side's pending orders, waits until the terminal shows *)
(* that side empty, and only then opens.  Half of such a reversal must     *)
(* never go unreported.                                                    *)
(*                                                                         *)
(* Charts run the EA in threads of their own on one account (which chart   *)
(* gets a task is LocalExecution's matter: each is taken once).  The       *)
(* broker's book and the terminal's list of it differ for a while after    *)
(* every request: a position is open, listed, or both.  Every OrderSend    *)
(* blocks its chart while broker, market and operator go on.  Volumes are  *)
(* broker steps; a request is made in half steps.                          *)
(***************************************************************************)
EXTENDS Integers, FiniteSets, FiniteSetsExt

CONSTANTS
    Charts,         \* charts the EA is attached to
    Tasks,          \* names of the tasks that arrive
    TaskOf,         \* task -> [kind, buy, half]: half steps asked for
    Books,          \* initial books: functions from tickets to [buy, lots]
    Orders,         \* initial pending orders: sets of [buy, lots]
    MinVol, MaxVol, \* the broker's volume limits
    Inputs,         \* settings of the EA: [maxLot, cap, skip, close, remove]
    MaxTicket,      \* bound on positions ever opened
    MaxFaults       \* bound on what broker, market and operator do unasked

Kinds == {"entry", "prepare", "close"}
NoTask == "no task"

\* What the constants are; the module that gives them values assumes it.
NettingConstants ==
    /\ NoTask \notin Tasks
    /\ TaskOf \in [Tasks -> [kind : Kinds, buy : BOOLEAN, half : Nat]]
    /\ \A b \in Books : /\ DOMAIN b \subseteq 1..MaxTicket
                        /\ b \in [DOMAIN b -> [buy : BOOLEAN, lots : Nat \ {0}]]
    /\ \A o \in Orders : o \subseteq [buy : BOOLEAN, lots : Nat \ {0}]
    /\ MinVol \in Nat \ {0} /\ MaxVol \in Nat /\ MinVol <= MaxVol
    /\ Inputs \subseteq [maxLot : Nat, cap : Nat, skip : BOOLEAN,
                          close : BOOLEAN, remove : BOOLEAN]
    /\ MaxTicket \in Nat /\ MaxFaults \in Nat

VARIABLES
    inp,      \* the settings the EA was attached with
    pos,      \* ticket -> [buy, lots, open, listed], at broker or in the list
    last,     \* the last ticket given
    orders,   \* pending orders
    resting,  \* requests answered PLACED: not executed yet
    job,      \* the task a chart is in, or NoTask
    at,       \* where a chart is in it
    todo,     \* tickets its loop has yet to visit
    deed,     \* closes and removals it counts (EntryNetMutationSummary)
    bad,      \* a close task's failures
    req,      \* the request a chart is blocked on
    result,   \* task -> its result, "none" until it ends
    told,     \* tasks whose reversal was reported incomplete
    acted,    \* tasks with an executed close or removal (never read)
    unsure,   \* tasks with nothing counted and no answer (never read)
    opened,   \* tasks whose entry the broker executed (never read)
    late,     \* tasks a position came to after their checks (never read)
    faults

broker == <<pos, last, orders, resting>>
charts == <<job, at, todo, deed, bad, req>>
ghosts == <<acted, unsure, opened, late>>
vars   == <<inp, broker, charts, result, told, ghosts, faults>>

-----------------------------------------------------------------------------
NoReq == [kind |-> "none", ticket |-> 0, buy |-> FALSE, lots |-> 0]

Stages == {"idle", "roll", "tick", "net", "orders", "wait", "price", "closing"}
Results == {"none", "failed", "incomplete", "ok", "rolled", "prepared"}

Position == [buy : BOOLEAN, lots : Nat, open : BOOLEAN, listed : BOOLEAN]
Requests == [kind : {"none", "close", "remove", "roll", "entry"},
             ticket : 0..MaxTicket, buy : BOOLEAN, lots : Nat]

TypeOK ==
    /\ inp \in Inputs
    /\ DOMAIN pos \subseteq 1..MaxTicket /\ pos \in [DOMAIN pos -> Position]
    /\ \A t \in DOMAIN pos : t <= last /\ (pos[t].open \/ pos[t].listed)
    /\ last \in 0..MaxTicket
    /\ orders \subseteq [buy : BOOLEAN, lots : Nat]
    /\ \A r \in resting : r.task \in Tasks /\ r.req \in Requests
    /\ job \in [Charts -> Tasks \cup {NoTask}] /\ at \in [Charts -> Stages]
    /\ todo \in [Charts -> SUBSET (1..MaxTicket)]
    /\ deed \in [Charts -> Nat] /\ bad \in [Charts -> Nat]
    /\ req \in [Charts -> Requests]
    /\ \A c \in Charts : (at[c] = "idle") = (job[c] = NoTask)
    /\ result \in [Tasks -> Results]
    /\ told \subseteq Tasks /\ acted \subseteq Tasks /\ unsure \subseteq Tasks
    /\ opened \subseteq Tasks
    /\ late \subseteq Tasks
    /\ faults \in 0..MaxFaults

Init ==
    /\ inp \in Inputs
    /\ \E b \in Books :
          /\ pos = [t \in DOMAIN b |-> [buy |-> b[t].buy, lots |-> b[t].lots,
                                        open |-> TRUE, listed |-> TRUE]]
          /\ last = Max(DOMAIN b \cup {0})
    /\ orders \in Orders /\ resting = {}
    /\ job = [c \in Charts |-> NoTask] /\ at = [c \in Charts |-> "idle"]
    /\ todo = [c \in Charts |-> {}] /\ deed = [c \in Charts |-> 0]
    /\ bad = [c \in Charts |-> 0] /\ req = [c \in Charts |-> NoReq]
    /\ result = [t \in Tasks |-> "none"] /\ told = {}
    /\ acted = {} /\ unsure = {} /\ opened = {} /\ late = {}
    /\ faults = 0

Fault == faults < MaxFaults /\ faults' = faults + 1

-----------------------------------------------------------------------------
(* What the EA reads: the terminal's list *)

Listed     == {t \in DOMAIN pos : pos[t].listed}
Side(buy)  == {t \in Listed : pos[t].buy = buy}

\* Sums over the tickets.
LotsIn(book, S) ==
    LET sum[n \in 0..MaxTicket] ==
            IF n = 0 THEN 0 ELSE sum[n - 1] + IF n \in S THEN book[n].lots ELSE 0
    IN  sum[MaxTicket]
LotsOf(S) == LotsIn(pos, S)

\* NormalizeVolume: nearest step, kept within the broker's limits.
Volume(half) == Max({MinVol, Min({MaxVol, (half + 1) \div 2})})

\* ProjectedExposureAfterNet: both sides, less what the netting will close.
Projected(buy) ==
    LotsOf(IF inp.close THEN Side(buy) ELSE Listed)

TooMuch(exposure, lots) == inp.cap > 0 /\ exposure + lots > inp.cap

Asked(c)   == TaskOf[job[c]]
IsEntry(c) == Asked(c).kind \in {"entry", "prepare"}

\* The task's result is written; an incomplete reversal is an event besides.
Ends(c, how) ==
    /\ result' = [result EXCEPT ![job[c]] = how]
    /\ told' = IF how = "incomplete" THEN told \cup {job[c]} ELSE told
    /\ job' = [job EXCEPT ![c] = NoTask] /\ at' = [at EXCEPT ![c] = "idle"]
    /\ todo' = [todo EXCEPT ![c] = {}] /\ deed' = [deed EXCEPT ![c] = 0]
    /\ bad' = [bad EXCEPT ![c] = 0] /\ req' = [req EXCEPT ![c] = NoReq]

\* FailReversalIncomplete, with this many closes and removals behind it.
Fails(c, behind) == Ends(c, IF behind > 0 THEN "incomplete" ELSE "failed")

TurnsTo(c, stage, left) ==
    /\ at' = [at EXCEPT ![c] = stage] /\ todo' = [todo EXCEPT ![c] = left]
    /\ UNCHANGED <<job, deed, bad, req, result, told>>

Sends(c, kind, ticket, lots) ==
    /\ req' = [req EXCEPT ![c] = [kind |-> kind, ticket |-> ticket,
                                  buy |-> Asked(c).buy, lots |-> lots]]
    /\ UNCHANGED <<job, at, todo, deed, bad, result, told>>

Runs(c, stage) == at[c] = stage /\ req[c] = NoReq

-----------------------------------------------------------------------------
(* Steps of a chart *)

\* PrepareEntrySymbol: the symbol is unknown or cannot be traded that way.
Unready(c, t) ==
    /\ at[c] = "idle" /\ result[t] = "none" /\ \A d \in Charts : job[d] # t
    /\ TaskOf[t].kind # "close" /\ Fault
    /\ result' = [result EXCEPT ![t] = "failed"]
    /\ UNCHANGED <<inp, broker, charts, told, ghosts>>

\* WaitForUsableTick gives up: no price of the symbol for 2.5 seconds.
NoTick == Fault

\* ExecuteTask: the lot guard of an entry is the first thing it meets; a
\* close lists its tickets before it closes any.
Take(c, t) ==
    /\ at[c] = "idle" /\ result[t] = "none" /\ \A d \in Charts : job[d] # t
    /\ job' = [job EXCEPT ![c] = t]
    /\ LET kind == TaskOf[t].kind IN
       /\ at' = [at EXCEPT ![c] = CASE kind = "close"   -> "closing"
                                    [] kind = "prepare" -> "roll"
                                    [] kind = "entry"   -> "tick"]
       /\ todo' = [todo EXCEPT ![c] = IF kind = "close" THEN Listed ELSE {}]
    /\ UNCHANGED <<inp, broker, deed, bad, req, result, told, ghosts, faults>>

\* RollSameDirectionTakeProfit: one position on the entry's side keeps the
\* place, and its target moves on instead; with several it is ambiguous.
Roll(c) ==
    /\ Runs(c, "roll")
    /\ LET same == Side(Asked(c).buy) IN
       \/ same = {} /\ TurnsTo(c, "tick", {})
       \/ Cardinality(same) > 1 /\ Ends(c, "failed")
       \/ \E t \in same : Cardinality(same) = 1 /\ Sends(c, "roll", t, 0)
    /\ UNCHANGED <<inp, broker, ghosts, faults>>

\* The checks before anything is touched: lot, exposure, and the side's own
\* positions.
Preflight(c) ==
    /\ Runs(c, "tick")
    /\ LET buy  == Asked(c).buy
           lots == Volume(Asked(c).half)
           no   == \/ Asked(c).half = 0
                   \/ inp.maxLot > 0 /\ Asked(c).half > 2 * inp.maxLot
                   \/ TooMuch(Projected(buy), lots)
                   \/ inp.skip /\ Side(buy) # {}
       IN  \/ no /\ Ends(c, "failed") /\ UNCHANGED faults
           \/ ~no /\ TurnsTo(c, "net", IF inp.close THEN Side(~buy) ELSE {})
                  /\ UNCHANGED faults
           \/ ~no /\ NoTick /\ Ends(c, "failed")
    /\ UNCHANGED <<inp, broker, ghosts>>

\* PreEntryNet, the positions: newest first, whatever is still listed.
Net(c) ==
    /\ Runs(c, "net")
    /\ LET left == todo[c] \cap Listed IN
       \/ left = {} /\ TurnsTo(c, "orders", {})
       \/ left # {} /\ Sends(c, "close", Max(left), pos[Max(left)].lots)
    /\ UNCHANGED <<inp, broker, ghosts, faults>>

Against(c) == {o \in orders : o.buy # Asked(c).buy}

\* PreEntryNet, the other side's pending orders.
NetOrders(c) ==
    /\ Runs(c, "orders")
    /\ \/ (~inp.remove \/ Against(c) = {}) /\ TurnsTo(c, "wait", {})
       \/ \E o \in Against(c) : inp.remove /\ Sends(c, "remove", 0, o.lots)
    /\ UNCHANGED <<inp, broker, ghosts, faults>>

\* The exposure is read again once the other side is empty.
AfterSettling(c) ==
    IF TooMuch(LotsOf(Listed), Volume(Asked(c).half))
    THEN Fails(c, deed[c])
    ELSE TurnsTo(c, "price", {})

\* Mutant: the wait looks only at what the loop has asked to close.
SettlesAtOnce(c) ==
    /\ Runs(c, "wait")
    /\ LET buy == Asked(c).buy IN
       \/ inp.skip /\ Side(buy) # {} /\ Fails(c, deed[c])
       \/ ~(inp.skip /\ Side(buy) # {}) /\ AfterSettling(c)
    /\ late' = IF Listed = DOMAIN pos THEN late ELSE late \cup {job[c]}
    /\ UNCHANGED <<inp, broker, acted, unsure, opened, faults>>

\* Mutant: a wait without a deadline.
WaitsForEver(c) ==
    /\ Runs(c, "wait")
    /\ LET buy == Asked(c).buy IN
       \/ inp.skip /\ Side(buy) # {} /\ Fails(c, deed[c])
       \/ ~(inp.skip /\ Side(buy) # {}) /\ Side(~buy) = {} /\ AfterSettling(c)
    /\ late' = IF Listed = DOMAIN pos THEN late ELSE late \cup {job[c]}
    /\ UNCHANGED <<inp, broker, acted, unsure, opened, faults>>

\* WaitForEntryNetSettled: it polls until the other side is empty, its own
\* side is not, or the deadline has passed.
Wait(c) ==
    /\ Runs(c, "wait")
    /\ LET buy == Asked(c).buy IN
       \/ inp.skip /\ Side(buy) # {} /\ Fails(c, deed[c])
       \/ ~(inp.skip /\ Side(buy) # {}) /\ Side(~buy) = {} /\ AfterSettling(c)
       \/ ~(inp.skip /\ Side(buy) # {}) /\ Side(~buy) # {} /\ Fails(c, deed[c])
    /\ late' = IF Listed = DOMAIN pos THEN late ELSE late \cup {job[c]}
    /\ UNCHANGED <<inp, broker, acted, unsure, opened, faults>>

\* The price after the netting: an entry is sent, a preparation ends.
Price(c) ==
    /\ Runs(c, "price")
    /\ \/ /\ Asked(c).kind = "entry"
          /\ Sends(c, "entry", 0, Volume(Asked(c).half)) /\ UNCHANGED faults
       \/ Asked(c).kind = "prepare" /\ Ends(c, "prepared") /\ UNCHANGED faults
       \/ NoTick /\ Fails(c, deed[c])
    /\ UNCHANGED <<inp, broker, ghosts>>

\* ExecuteCloseTask: what is no longer there counts as closed.
Close(c) ==
    /\ Runs(c, "closing")
    /\ LET left == todo[c] \cap Listed IN
       \/ left = {} /\ Ends(c, IF bad[c] = 0 THEN "ok" ELSE "failed")
       \/ left # {} /\ Sends(c, "close", Min(left), pos[Min(left)].lots)
    /\ UNCHANGED <<inp, broker, ghosts, faults>>

-----------------------------------------------------------------------------
(* The broker *)

\* The book without what is neither open nor listed any more.
Kept(book) == [t \in {u \in DOMAIN book : book[u].open \/ book[u].listed} |-> book[t]]
Without(t) == Kept([pos EXCEPT ![t].open = FALSE])

\* A position that comes while a task is past its checks.
Comers == {job[c] : c \in {d \in Charts : at[d] = "price"}}

Opens(buy, lots) ==
    /\ last < MaxTicket /\ last' = last + 1
    /\ pos' = [t \in DOMAIN pos \cup {last + 1} |->
                 IF t \in DOMAIN pos THEN pos[t]
                 ELSE [buy |-> buy, lots |-> lots, open |-> TRUE, listed |-> FALSE]]

\* What a request does when it is executed; by: the task, less: part of it.
Executes(by, r, less) ==
    CASE r.kind = "close"  ->
           /\ r.ticket \in DOMAIN pos /\ pos[r.ticket].open
           /\ IF less THEN /\ pos[r.ticket].lots > 1
                           /\ pos' = [pos EXCEPT ![r.ticket].lots = @ - 1]
                      ELSE pos' = Without(r.ticket)
           /\ acted' = acted \cup {by} /\ UNCHANGED <<last, orders, opened, late>>
      [] r.kind = "remove" ->
           /\ ~less /\ [buy |-> ~r.buy, lots |-> r.lots] \in orders
           /\ orders' = orders \ {[buy |-> ~r.buy, lots |-> r.lots]}
           /\ acted' = acted \cup {by} /\ UNCHANGED <<pos, last, opened, late>>
      [] r.kind = "roll"   ->
           /\ ~less /\ r.ticket \in DOMAIN pos /\ pos[r.ticket].open
           /\ UNCHANGED <<pos, last, orders, acted, opened, late>>
      [] r.kind = "entry"  ->
           /\ less => r.lots > 1
           /\ Opens(r.buy, IF less THEN r.lots - 1 ELSE r.lots)
           /\ opened' = opened \cup {by} /\ late' = late \cup (Comers \ {by})
           /\ UNCHANGED <<orders, acted>>

\* Can the broker execute it at all?
Valid(r) ==
    CASE r.kind \in {"close", "roll"} -> r.ticket \in DOMAIN pos /\ pos[r.ticket].open
      [] r.kind = "remove" -> [buy |-> ~r.buy, lots |-> r.lots] \in orders
      [] r.kind = "entry"  -> last < MaxTicket

\* Mutant: a confirmed removal of a pending order is not counted.
CountsPositionsOnly(c) ==
    /\ req' = [req EXCEPT ![c] = NoReq]
    /\ LET r == req[c] IN
       CASE r.kind = "entry" -> Ends(c, "ok")
         [] r.kind = "roll"  -> Ends(c, "rolled")
         [] OTHER -> /\ deed' = [deed EXCEPT ![c] = IF IsEntry(c) /\ r.kind = "close" THEN @ + 1 ELSE @]
                     /\ todo' = [todo EXCEPT ![c] = @ \ {r.ticket}]
                     /\ UNCHANGED <<job, at, bad, result, told>>

\* The chart goes on after DONE, DONE_PARTIAL or PLACED.
Confirmed(c) ==
    /\ req' = [req EXCEPT ![c] = NoReq]
    /\ LET r == req[c] IN
       CASE r.kind = "entry" -> Ends(c, "ok")
         [] r.kind = "roll"  -> Ends(c, "rolled")
         [] OTHER -> /\ deed' = [deed EXCEPT ![c] = IF IsEntry(c) THEN @ + 1 ELSE @]
                     /\ todo' = [todo EXCEPT ![c] = @ \ {r.ticket}]
                     /\ UNCHANGED <<job, at, bad, result, told>>

\* The chart goes on after any other return code, or none.
Denied(c) ==
    IF IsEntry(c) THEN Fails(c, deed[c])
    ELSE /\ req' = [req EXCEPT ![c] = NoReq]
         /\ todo' = [todo EXCEPT ![c] = @ \ {req[c].ticket}]
         /\ bad' = [bad EXCEPT ![c] = @ + 1]
         /\ UNCHANGED <<job, at, deed, result, told>>

Done(c) ==
    /\ req[c] # NoReq /\ Executes(job[c], req[c], FALSE) /\ Confirmed(c)
    /\ UNCHANGED <<inp, resting, unsure, faults>>

\* DONE_PARTIAL.
DoneInPart(c) ==
    /\ req[c] # NoReq /\ Fault /\ Executes(job[c], req[c], TRUE) /\ Confirmed(c)
    /\ UNCHANGED <<inp, resting, unsure>>

\* PLACED: the broker has the request and will see.
Placed(c) ==
    /\ req[c].kind \in {"close", "entry"} /\ Fault /\ Valid(req[c])
    /\ resting' = resting \cup {[task |-> job[c], req |-> req[c]]} /\ Confirmed(c)
    /\ unsure' = IF req[c].kind = "entry" THEN unsure \cup {job[c]} ELSE unsure
    /\ UNCHANGED <<inp, pos, last, orders, acted, opened, late>>

\* Refused: because it no longer can be, or for the broker's own reasons.
Refused(c) ==
    /\ req[c] # NoReq /\ Denied(c)
    /\ IF Valid(req[c]) THEN Fault ELSE UNCHANGED faults
    /\ UNCHANGED <<inp, broker, ghosts>>

\* A transport error: executed, and the EA never learns of it.
Lost(c) ==
    /\ req[c] # NoReq /\ Fault /\ Executes(job[c], req[c], FALSE) /\ Denied(c)
    /\ unsure' = IF deed[c] = 0 THEN unsure \cup {job[c]} ELSE unsure
    /\ UNCHANGED <<inp, resting>>

\* A resting request is filled, or dropped.
Fill(r) ==
    /\ Executes(r.task, r.req, FALSE) /\ resting' = resting \ {r}
    /\ UNCHANGED <<inp, charts, result, told, unsure, faults>>
Drop(r) ==
    /\ resting' = resting \ {r}
    /\ UNCHANGED <<inp, pos, last, orders, charts, result, told, ghosts, faults>>

\* The terminal's list catches up with the broker.
Lists(t) ==
    /\ pos[t].open # pos[t].listed
    /\ pos' = Kept([pos EXCEPT ![t].listed = pos[t].open])
    /\ UNCHANGED <<inp, last, orders, resting, charts, result, told, ghosts, faults>>

\* The market reaches a pending order, or the operator opens by hand.
Arrives(buy, lots, rest) ==
    /\ Fault /\ Opens(buy, lots) /\ orders' = rest /\ late' = late \cup Comers
    /\ UNCHANGED <<inp, resting, charts, result, told, acted, unsure, opened>>

\* A stop, a target or the operator closes a position.
Stopped(t) ==
    /\ Fault /\ pos[t].open /\ pos' = Without(t)
    /\ UNCHANGED <<inp, last, orders, resting, charts, result, told, ghosts>>

Chart(c) == \/ \E t \in Tasks : Take(c, t) \/ Unready(c, t)
            \/ Roll(c) \/ Preflight(c) \/ Net(c) \/ NetOrders(c)
            \/ Wait(c) \/ Price(c) \/ Close(c)
Answer(c) == Done(c) \/ DoneInPart(c) \/ Placed(c) \/ Refused(c) \/ Lost(c)
Market == \/ \E r \in resting : Fill(r) \/ Drop(r)
          \/ \E t \in DOMAIN pos : Lists(t) \/ Stopped(t)
          \/ \E o \in orders : Arrives(o.buy, o.lots, orders \ {o})
          \/ \E buy \in BOOLEAN : Arrives(buy, MinVol, orders)

Next == (\E c \in Charts : Chart(c) \/ Answer(c)) \/ Market

Spec == Init /\ [][Next]_vars

\* The EA's timer runs, and OrderSend returns.
FairSpec == Spec /\ \A c \in Charts : WF_vars(Chart(c)) /\ WF_vars(Answer(c))

-----------------------------------------------------------------------------
(* Properties *)

\* A task that closed or removed something and did not open its position says
\* so: it ends "incomplete", with an event.  Only where the broker's first
\* word was lost, or it promised an entry it then dropped, can the EA not know.
HalfReversalIsTold ==
    \A t \in Tasks :
        (/\ TaskOf[t].kind # "close" /\ result[t] \notin {"none", "prepared"}
         /\ t \in acted /\ t \notin opened)
        => t \in told \cup unsure

\* An entry executed on request finds the other side (and its own, if so set)
\* empty and the exposure within the cap, whatever the netting closed, partly
\* closed or missed: unless a position came after its last look at the list.
EntryStandsAlone ==
    [][\A t \in opened' \ opened :
          (resting' = resting /\ t \notin late) =>
              LET there == {p \in DOMAIN pos : pos[p].open} IN
              /\ \A p \in there : pos[p].buy = TaskOf[t].buy /\ ~inp.skip
              /\ ~TooMuch(LotsOf(there), pos'[last'].lots)]_vars

\* Every task taken is answered, however long the broker's book and the
\* terminal's list disagree.
TaskIsAnswered ==
    \A t \in Tasks : (\E c \in Charts : job[c] = t) ~> result[t] # "none"

=============================================================================

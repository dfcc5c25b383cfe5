----------------------------- MODULE C5Reminder -----------------------------
(***************************************************************************)
(* The C5 helper's reminders: an opening deal of forex or gold is put in a *)
(* queue when the terminal reports it, and once more from the positions    *)
(* that are open when the helper starts or finds the terminal on another   *)
(* account; a timer tells the queue, as event files for the PC controller  *)
(* while the manager EA has a fresh status file of this account, and on    *)
(* the screen otherwise.                                                   *)
(*                                                                         *)
(* The queue and the list of the deals seen are in memory.  The terminal   *)
(* reports a deal more than once, in any order and late, the operator      *)
(* changes accounts between two calls of the timer, a file may not be      *)
(* written.  Reversals of one position open a new episode, additions none. *)
(* What the reminder says is C5Look's.                                     *)
(***************************************************************************)
EXTENDS Naturals, Sequences, FiniteSets, SequencesExt

CONSTANTS
    AccountLogins,
    Positions, Deals,   \* numbered as they come
    MaxSeen,        \* NC5_MAX_SEEN_DEALS (256)
    Nothing

VARIABLES
    login,      \* ACCOUNT_LOGIN
    position,   \* account, first deal, last reversal, all deals, open, opened recently
    report,     \* transactions about each deal that are still to come
    helper      \* account, queue and deals seen, Nothing while it is not running

vars == <<login, position, report, helper>>

Position == [own : AccountLogins, first : Deals, turn : Deals \cup {Nothing}, more : SUBSET Deals,
             open : BOOLEAN, recent : BOOLEAN]
\* Ghosts, since it was bound: what was told to which profile, the deals that are no
\* longer seen, and those reported while the terminal was on another account.
Helper == [bound : AccountLogins, queue : Seq(Deals), seen : Seq(Deals),
           told : SUBSET (Deals \X (AccountLogins \cup {Nothing})),
           forgot : SUBSET Deals, astray : SUBSET Deals]

TypeOK ==
    /\ login \in AccountLogins /\ position \in [Positions -> Position \cup {Nothing}]
    /\ report \in [Deals -> 0 .. 2]
    /\ helper \in Helper \cup {Nothing} /\ helper # Nothing => Len(helper.seen) <= MaxSeen

Init ==
    /\ login \in AccountLogins /\ position = [p \in Positions |-> Nothing]
    /\ report = [d \in Deals |-> 0] /\ helper = Nothing

There == {p \in Positions : position[p] # Nothing}

\* NC5PositionEpisodeOpening
Opening(p) == IF position[p].turn # Nothing THEN position[p].turn ELSE position[p].first

NC5RememberDeal(h, d) ==
    [h EXCEPT !.seen = Append(IF Len(@) < MaxSeen THEN @ ELSE Tail(@), d),
              !.forgot = IF Len(h.seen) < MaxSeen THEN @ ELSE @ \cup {Head(h.seen)}]

NC5QueueReminder(h, d) ==
    IF Contains(h.seen, d) THEN h
    ELSE [NC5RememberDeal(h, d) EXCEPT !.queue = Append(@, d)]

NC5QueueOpeningDeal(h, d) ==
    IF \E p \in There : position[p].own = login /\ Opening(p) = d
    THEN NC5QueueReminder(h, d) ELSE h

\* The deals of s are queued one after the other.
Queued(h, s) ==
    LET q[n \in 0 .. Len(s)] == IF n = 0 THEN h ELSE NC5QueueReminder(q[n - 1], s[n])
    IN  q[Len(s)]

\* The open positions of the account, in the order in which the terminal lists them.
NC5QueueRecentOpenPositions(h) ==
    LET recent == {p \in There : position[p].own = login /\ position[p].recent}
    IN  {Queued(h, s) : s \in SetToSeqs({Opening(p) : p \in recent})}

Bound(l, seen) == [bound |-> l, queue |-> <<>>, seen |-> seen, told |-> {},
                   forgot |-> {}, astray |-> {}]

\* Mutant: the deals seen are kept when the account changes.
RefreshKeepsSeen(h, force) ==
    IF ~force /\ h.bound = login THEN {h}
    ELSE NC5QueueRecentOpenPositions(Bound(login, IF force THEN <<>> ELSE h.seen))

NC5RefreshAccountIdentity(h, force) ==
    IF ~force /\ h.bound = login THEN {h}
    ELSE NC5QueueRecentOpenPositions(Bound(login, <<>>))

\* The profile an event goes to, by the status file of this login and server; fresh are
\* the accounts whose file is at most two minutes old.
NC5LocalForwardIdentity(fresh) == IF login \in fresh THEN login ELSE Nothing

\* How much of the queue gets out: files are written up to one that fails, the screen
\* takes everything.
Written(h, to) == IF to = Nothing THEN {Len(h.queue)} ELSE 0 .. Len(h.queue)

NC5EmitReminder(h, k, to) ==
    [h EXCEPT !.queue = SubSeq(@, k + 1, Len(@)),
              !.told = @ \cup (ToSet(SubSeq(h.queue, 1, k)) \X {to})]

NC5FlushReminders(h, fresh) ==
    LET to == NC5LocalForwardIdentity(fresh)
    IN  {NC5EmitReminder(h, k, to) : k \in Written(h, to)}

-----------------------------------------------------------------------------
(* The terminal and the broker (external)                                  *)

NewDeal(d) ==
    /\ {e \in Deals : e < d} = UNION {position[p].more : p \in There}
    /\ report' \in {[report EXCEPT ![d] = n] : n \in 1 .. 2}

Open(p, d) ==
    /\ There = {q \in Positions : q < p} /\ NewDeal(d)
    /\ position' = [position EXCEPT ![p] = [own |-> login, first |-> d, turn |-> Nothing,
                                            more |-> {d}, open |-> TRUE, recent |-> TRUE]]
    /\ UNCHANGED <<login, helper>>

\* A deal of the same side, or one that turns the position around.
Extend(p, d, turns) ==
    /\ p \in There /\ position[p].open /\ position[p].own = login /\ NewDeal(d)
    /\ position' = [position EXCEPT
          ![p].more = @ \cup {d}, ![p].turn = IF turns THEN d ELSE @,
          ![p].recent = @ \/ turns]
    /\ UNCHANGED <<login, helper>>

Close(p) ==
    /\ p \in There /\ position[p].open
    /\ position' = [position EXCEPT ![p].open = FALSE, ![p].recent = FALSE]
    /\ UNCHANGED <<login, report, helper>>

\* Its opening is more than InpStartupCatchupMinutes ago.
Age(p) ==
    /\ p \in There /\ position[p].recent /\ position' = [position EXCEPT ![p].recent = FALSE]
    /\ UNCHANGED <<login, report, helper>>

SwitchAccount(l) ==
    /\ l # login /\ login' = l
    /\ UNCHANGED <<position, report, helper>>

-----------------------------------------------------------------------------
(* The helper                                                              *)

OnInit ==
    /\ helper = Nothing
    /\ helper' \in NC5RefreshAccountIdentity(Nothing, TRUE)
    /\ UNCHANGED <<login, position, report>>

\* What the terminal reports while the helper is not running is not reported again.
OnDeinit ==
    /\ helper # Nothing /\ helper' = Nothing
    /\ report' \in {report, [d \in Deals |-> 0]}
    /\ UNCHANGED <<login, position>>

OnTradeTransaction(d) ==
    /\ report[d] > 0 /\ report' = [report EXCEPT ![d] = @ - 1]
    /\ helper' = IF helper = Nothing THEN Nothing
                 ELSE LET h == NC5QueueOpeningDeal(helper, d)
                      IN  IF h.bound = login THEN h ELSE [h EXCEPT !.astray = @ \cup {d}]
    /\ UNCHANGED <<login, position>>

OnTimer ==
    /\ helper # Nothing
    /\ \E h \in NC5RefreshAccountIdentity(helper, FALSE), fresh \in SUBSET AccountLogins :
          helper' \in NC5FlushReminders(h, fresh)
    /\ UNCHANGED <<login, position, report>>

Next ==
    \/ \E p \in Positions : \/ Close(p) \/ Age(p)
                            \/ \E d \in Deals : \/ Open(p, d)
                                                \/ \E turns \in BOOLEAN : Extend(p, d, turns)
    \/ \E l \in AccountLogins : SwitchAccount(l)
    \/ OnInit \/ OnDeinit \/ OnTimer
    \/ \E d \in Deals : OnTradeTransaction(d)

Spec == Init /\ [][Next]_vars

-----------------------------------------------------------------------------
(* Properties                                                              *)

Own(d) == CHOOSE l \in AccountLogins : \E p \in There : position[p].own = l /\ d \in position[p].more

\* A reminder goes to no profile but that of the account the deal was made on.  While
\* the helper is on the account of a position that is open and recent, and the terminal
\* has reported the deal that opened it, that deal was told or waits in the queue.  Both
\* but for deals reported while the terminal was for a moment on another account.  And
\* no deal is told twice while the helper stays on the account, unless so many others
\* followed that it was no longer in the list of those seen.
RemindersAreRight == helper # Nothing =>
    LET Told(d) == \E l \in AccountLogins \cup {Nothing} : <<d, l>> \in helper.told
        Waits(d) == Contains(helper.queue, d)
    IN  /\ \A t \in helper.told : t[2] \in {Own(t[1]), Nothing} \/ t[1] \in helper.astray
        /\ \A p \in There :
              (/\ position[p].recent /\ report[Opening(p)] = 0
               /\ position[p].own = login /\ login = helper.bound
               /\ Opening(p) \notin helper.astray)
                  => Told(Opening(p)) \/ Waits(Opening(p))
        /\ \A d \in Deals \ helper.forgot : Waits(d) => ~Told(d)
        /\ IsInjective(helper.queue) \/ ToSet(helper.queue) \cap helper.forgot # {}
=============================================================================

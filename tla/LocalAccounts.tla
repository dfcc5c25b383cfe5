---------------------------- MODULE LocalAccounts ----------------------------
(***************************************************************************)
(* Which account a command reaches.  An EA (mt5/OAK_Cloud_Manager_EA.mq5)  *)
(* names itself after the account its terminal is logged in to and writes  *)
(* that into a status file; the PC controller                              *)
(* (local-failover/oak-local-telegram-failover.mjs) rebuilds its table of  *)
(* accounts from the fresh status files, chooses the account a command     *)
(* means from table and files, and posts the task into the mailbox of that *)
(* profile and login.  The operator may log a terminal in to another       *)
(* account at any moment.                                                  *)
(*                                                                         *)
(* One chart per terminal and one attempt per task: what several charts    *)
(* and crashes do to a task is LocalExecution's matter.  A login stands    *)
(* for login and server.                                                   *)
(***************************************************************************)
EXTENDS Integers, Sequences, SequencesExt, FiniteSets

CONSTANTS
    Terminals,    \* MT5 terminals of the PC
    Logins,       \* trading accounts
    None,         \* no name, no status
    DefaultName,  \* login -> the profile "local_<login>"
    Inputs,       \* inputs of the charts: [name, fixed], the InpLocalProfile of a
                  \* terminal (None when blank) and the terminals with
                  \* InpLocalProviderAccountId set
    FirstLogin,   \* terminal -> the account it is first logged in to
    FileOrder,    \* the profiles, in the order readdir lists their files
    Tables,       \* account tables the configuration may start with
    CommandOf,    \* command -> [kind, to]: the account named, or None
    MaxMoves      \* bound on what operator and terminals do

Profiles == Range(FileOrder)
Commands == DOMAIN CommandOf

ASSUME AccountsAssumption ==
    /\ Inputs \subseteq [name : [Terminals -> Profiles \cup {None}],
                          fixed : SUBSET Terminals]
    /\ DefaultName \in [Logins -> Profiles]
    /\ FirstLogin \in [Terminals -> Logins]
    /\ None \notin Profiles \cup Logins /\ Terminals \cap Logins = {}
    /\ CommandOf \in [Commands -> [kind : {"entry", "close"},
                                   to : Profiles \cup {None}]]
    /\ MaxMoves \in Nat

VARIABLES
    inp,      \* the inputs the charts were attached with
    at,       \* terminal -> the account it is logged in to
    ea,       \* terminal -> [on, login, step] of its EA
    file,     \* profile -> its status file [login, term, fresh], or None
    table,    \* the controller's rows [label, profile, login, term, pid]
    seen,     \* the fresh statuses of the last reading
    stage,    \* where the controller's iteration is
    taken,    \* commands the controller has taken
    intents,  \* the intents made of them
    claims,   \* the claims in the mailboxes
    moves

terminal == <<inp, at, ea, file>>
control  == <<table, seen, stage, taken, intents>>
vars     == <<terminal, control, claims, moves>>

-----------------------------------------------------------------------------
(* The names an EA goes by.                                                *)

Profile(t, a) == IF inp.name[t] # None THEN inp.name[t] ELSE DefaultName[a]
Pid(t, a)     == IF t \in inp.fixed THEN t ELSE a

StatusFile(t, a) == [login |-> a, term |-> t, fresh |-> TRUE]
Written(f, t, a) == [f EXCEPT ![Profile(t, a)] = StatusFile(t, a)]
Own(t) == Profile(t, ea[t].login)

Statuses ==
    LET names == SelectSeq(FileOrder, LAMBDA p : file[p] # None /\ file[p].fresh)
        Row(p) == [profile |-> p, login |-> file[p].login, term |-> file[p].term,
                   pid |-> Pid(file[p].term, file[p].login)]
    IN  [k \in DOMAIN names |-> Row(names[k])]

Rows == [label : Profiles, profile : Profiles, login : Logins, term : Terminals,
         pid : Terminals \cup Logins]

TypeOK ==
    /\ inp \in Inputs /\ at \in [Terminals -> Logins]
    /\ ea \in [Terminals -> [on : BOOLEAN, login : Logins, step : {"idle", "poll"}]]
    /\ file \in [Profiles -> [login : Logins, term : Terminals, fresh : BOOLEAN]
                               \cup {None}]
    /\ Range(table) \subseteq Rows
    /\ stage \in {"work", "reload", "wait"}
    /\ taken \subseteq Commands
    /\ moves \in 0..MaxMoves

Init ==
    /\ inp \in Inputs
    /\ at = FirstLogin
    /\ ea = [t \in Terminals |-> [on |-> FALSE, login |-> at[t], step |-> "idle"]]
    /\ file = [p \in Profiles |-> None]
    /\ table \in Tables
    /\ seen = <<>> /\ stage = "work"
    /\ taken = {} /\ intents = {} /\ claims = {}
    /\ moves = 0

-----------------------------------------------------------------------------
(* Terminals, their operator and their EAs.                                *)

Move == moves < MaxMoves /\ moves' = moves + 1

Switch(t, a) ==
    /\ a # at[t] /\ Move
    /\ at' = [at EXCEPT ![t] = a]
    /\ UNCHANGED <<inp, ea, file, control, claims>>

Start(t) ==
    /\ ~ea[t].on
    /\ ea' = [ea EXCEPT ![t] = [on |-> TRUE, login |-> at[t], step |-> "idle"]]
    /\ file' = Written(file, t, at[t])
    /\ UNCHANGED <<inp, at, control, claims, moves>>

\* OnDeinit deletes the status of its profile, whoever wrote it last.
Stop(t) ==
    /\ ea[t].on /\ ea[t].step = "idle" /\ Move
    /\ ea' = [ea EXCEPT ![t].on = FALSE]
    /\ file' = [file EXCEPT ![Own(t)] = None]
    /\ UNCHANGED <<inp, at, control, claims>>

Kill(t) ==
    /\ ea[t].on /\ Move
    /\ ea' = [ea EXCEPT ![t].on = FALSE, ![t].step = "idle"]
    /\ UNCHANGED <<inp, at, file, control, claims>>

\* A status nobody rewrites is older than STATUS_FRESH_MS after a minute.
Stale(p) ==
    /\ file[p] # None /\ file[p].fresh
    /\ \A t \in Terminals : ea[t].on => Own(t) # p
    /\ file' = [file EXCEPT ![p].fresh = FALSE]
    /\ UNCHANGED <<inp, at, ea, control, claims, moves>>

Refresh(t) ==
    /\ ea[t].on /\ ea[t].step = "idle"
    /\ ea' = [ea EXCEPT ![t].login = at[t], ![t].step = "poll"]
    /\ file' = IF at[t] = ea[t].login THEN file
               ELSE Written([file EXCEPT ![Own(t)] = None], t, at[t])
    /\ UNCHANGED <<inp, at, control, claims, moves>>

Path(i) == <<i.profile, i.login, i.cmd, i.pid>>
Update(i, j) == intents' = (intents \ {i}) \cup {j}

\* Mutant: the mailbox is named by the profile alone.
MailboxOfProfile(t, i) == i.profile = Own(t)

\* The EA lists the tasks of its own profile and login.
Mailbox(t, i) == i.profile = Own(t) /\ i.login = ea[t].login

\* It refuses a task of another provider account, and acts on the account its
\* terminal is logged in to by then.
Execute(t, i) ==
    /\ stage' = "work"
    /\ IF i.pid = Pid(t, ea[t].login)
         THEN /\ claims' = claims \cup {Path(i)}
              /\ Update(i, [i EXCEPT !.status = "done", !.ran = at[t],
                                     !.torn = at[t] # ea[t].login])
         ELSE /\ Update(i, [i EXCEPT !.status = "failed"])
              /\ UNCHANGED claims

Poll(t, due) ==
    /\ ea[t].on /\ ea[t].step = "poll"
    /\ ea' = [ea EXCEPT ![t].step = "idle"]
    /\ file' = IF due THEN Written(file, t, ea[t].login) ELSE file
    /\ LET mine == {i \in intents : i.status = "executing" /\ Mailbox(t, i)}
       IN  \/ \E i \in mine : Execute(t, i)
           \/ mine = {} /\ UNCHANGED <<stage, intents, claims>>
    /\ UNCHANGED <<inp, at, table, seen, taken, moves>>

-----------------------------------------------------------------------------
(* The controller's table.                                                 *)

\* Mutant: the rows are matched by their label and their profile first.
RowByName(rows, s) ==
    LET hits == << SelectInSeq(rows, LAMBDA r : r.label = s.profile),
                   SelectInSeq(rows, LAMBDA r : r.profile = s.profile),
                   SelectInSeq(rows, LAMBDA r : r.term = s.term) >>
        rule == SelectInSeq(hits, LAMBDA h : h > 0)
    IN  IF rule = 0 THEN 0 ELSE hits[rule]

\* The row a status is about: the first match of the first rule that has one.
RowOf(rows, s) ==
    LET hits == << SelectInSeq(rows, LAMBDA r : r.term = s.term),
                   SelectInSeq(rows, LAMBDA r : r.pid = s.pid),
                   SelectInSeq(rows, LAMBDA r : r.label = s.profile),
                   SelectInSeq(rows, LAMBDA r : r.profile = s.profile),
                   SelectInSeq(rows, LAMBDA r : r.login = s.login) >>
        rule == SelectInSeq(hits, LAMBDA h : h > 0)
    IN  IF rule = 0 THEN 0 ELSE hits[rule]

Bind(rows, s) ==
    LET i == RowOf(rows, s)
        j == IF i = 0 THEN Len(rows) + 1 ELSE i
        row == [label |-> IF i = 0 THEN s.profile ELSE rows[i].label,
                profile |-> s.profile, login |-> s.login, term |-> s.term, pid |-> s.pid]
        placed == [k \in 1..(IF i = 0 THEN j ELSE Len(rows)) |->
                       IF k = j THEN row ELSE rows[k]]
        kept == SelectSeq([k \in DOMAIN placed |-> k],
                          LAMBDA k : k = j \/ placed[k].label # row.label)
    IN  [k \in DOMAIN kept |-> placed[kept[k]]]

Reconciled(rows, found) == FoldLeft(Bind, rows, found)

Iterate ==
    /\ stage = "work"
    /\ table' = Reconciled(table, Statuses)
    /\ seen' = Statuses /\ stage' = "reload"
    /\ UNCHANGED <<terminal, taken, intents, claims, moves>>

Reload ==
    /\ stage = "reload"
    /\ seen' = Statuses /\ stage' = "work"
    /\ UNCHANGED <<terminal, table, taken, intents, claims, moves>>

-----------------------------------------------------------------------------
(* The controller's commands.                                              *)

\* The account a name means: exactly one row, and a fresh status of its login,
\* which lends it profile and identity.
Means(row, name) == name = None \/ name \in {row.label, row.profile, row.pid}
Named(name) == SelectSeq(table, LAMBDA r : Means(r, name))
Beat(a)     == SelectInSeq(seen, LAMBDA s : s.login = a)

\* Mutant: the row's own profile and identity are used.
SelectedAsListed(name) ==
    LET row == Named(name)[1]
    IN  IF Len(Named(name)) # 1 THEN {}
        ELSE IF Beat(row.login) = 0 THEN {} ELSE {row}

Selected(name) ==
    LET row == Named(name)[1]
        s == seen[Beat(row.login)]
    IN  IF Len(Named(name)) # 1 THEN {}
        ELSE IF Beat(row.login) = 0 THEN {}
        ELSE {[label |-> row.label, login |-> row.login,
               profile |-> s.profile, term |-> s.term, pid |-> s.pid]}

Intents(c, n, row) ==
    [cmd |-> c, n |-> n, kind |-> CommandOf[c].kind, label |-> row.label,
     profile |-> row.profile, login |-> row.login, pid |-> row.pid,
     status |-> "saved", ran |-> None, torn |-> FALSE]

\* A close that names no account is for every row the controller can reach.
Targets(c) ==
    IF CommandOf[c].kind = "close" /\ CommandOf[c].to = None
    THEN UNION {{Intents(c, n, row) : row \in Selected(table[n].label)} : n \in DOMAIN table}
    ELSE {Intents(c, 1, row) : row \in Selected(CommandOf[c].to)}

\* An account has one scheduled entry at a time.
Busy(i) == \E j \in intents : /\ i.kind = "entry" /\ j.kind = "entry" /\ j.pid = i.pid
                              /\ j.status \in {"saved", "executing"}

Create(c) ==
    /\ stage = "work" /\ c \notin taken /\ Move
    /\ taken' = taken \cup {c}
    /\ intents' = intents \cup {i \in Targets(c) : ~Busy(i)}
    /\ UNCHANGED <<terminal, table, seen, stage, claims>>

\* The intent goes where it was meant to go, or nowhere.
Dispatch(i) ==
    /\ stage = "work" /\ i.status = "saved"
    /\ LET same == \E row \in Selected(i.label) : row.pid = i.pid /\ row.login = i.login
       IN  IF ~same THEN Update(i, [i EXCEPT !.status = "failed"]) /\ UNCHANGED stage
           ELSE IF Path(i) \in claims
           THEN Update(i, [i EXCEPT !.status = "uncertain"]) /\ UNCHANGED stage
           ELSE Update(i, [i EXCEPT !.status = "executing"]) /\ stage' = "wait"
    /\ UNCHANGED <<terminal, table, seen, taken, claims, moves>>

\* No EA took it: the task is withdrawn.
GiveUp(i) ==
    /\ stage = "wait" /\ i.status = "executing"
    /\ Update(i, [i EXCEPT !.status = "failed"])
    /\ stage' = "work"
    /\ UNCHANGED <<terminal, table, seen, taken, claims, moves>>

Terminal(t) ==
    \/ \E a \in Logins : Switch(t, a)
    \/ Start(t) \/ Stop(t) \/ Kill(t) \/ Refresh(t)
    \/ \E due \in BOOLEAN : Poll(t, due)

Controller ==
    \/ Iterate \/ Reload
    \/ \E c \in Commands : Create(c)
    \/ \E i \in intents : Dispatch(i) \/ GiveUp(i)

Next == (\E t \in Terminals : Terminal(t)) \/ (\E p \in Profiles : Stale(p)) \/ Controller

\* Timers fire, a minute passes, the controller's loop goes on.
Fairness ==
    /\ \A t \in Terminals : /\ []<>(ea[t].on => ea[t].step = "poll")
                            /\ []<>(ea[t].step = "idle")
                            /\ []<>(ea[t].on => file[Own(t)] = StatusFile(t, ea[t].login))
    /\ \A p \in Profiles :
           []<>(file[p] # None /\ file[p].fresh => \E t \in Terminals : ea[t].on /\ Own(t) = p)
    /\ []<>(stage = "work") /\ []<>(stage = "reload")

Spec == Init /\ [][Next]_vars
FairSpec == Spec /\ Fairness

-----------------------------------------------------------------------------
(* Properties.                                                             *)

\* A command acts on the account it was made for, unless the terminal was
\* switched between the EA's look at its identity and the order.
ActsOnItsAccount == \A i \in intents : i.ran # None => i.ran = i.login \/ i.torn

\* However many rows and terminals show an account, one command acts on it
\* once.
ActsOncePerAccount ==
    \A i, j \in intents :
        (i.cmd = j.cmd /\ i.login = j.login /\ i.ran # None /\ j.ran # None) => i = j

\* Once the operator is done, and as long as no account is shown by two
\* terminals, the table comes to rest with every running terminal in one row.
Running == {t \in Terminals : ea[t].on}
Apart == \A t, u \in Running : t # u => at[t] # at[u]
Shown(t) == Cardinality({k \in DOMAIN table : table[k].term = t}) = 1
            /\ \E k \in DOMAIN table : table[k].term = t /\ table[k].login = at[t]
TableSettles == <>[][Apart => table' = table]_table /\ <>[](Apart => \A t \in Running : Shown(t))
=============================================================================

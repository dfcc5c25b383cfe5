-------------------------- MODULE ProviderAccounts --------------------------
(***************************************************************************)
(* The accounts the operator manages in the cloud: MT5 accounts, which he  *)
(* registers or which the PC controller's heartbeats bring, the cTrader    *)
(* accounts a grant discovers, the default account, and the keys by which  *)
(* an MT5 terminal finds its account (auto-bind).                          *)
(*                                                                         *)
(* Every request is a handler that lists the accounts, writes rows back    *)
(* whole and then mends the auto-bind keys and the default, one Redis call *)
(* after the other, with no lock and no transaction.  A handler may be     *)
(* stopped between two calls (a failing call, the platform's time limit).  *)
(*                                                                         *)
(* Labels, points and manager settings are left out: the property tells    *)
(* none apart, and a request they make the code refuse writes nothing.     *)
(***************************************************************************)
EXTENDS Naturals, FiniteSets

CONSTANTS
    Mt5, CTrader,       \* accounts
    BrokerOf,           \* broker of an MT5 account
    Legacy,             \* the cTrader account of OAK_CTRADER_ACCOUNT_ID
    Logins, Profiles, Servers,
    Patches,            \* bodies of the pages: [on, prof, srv, deft], or Keep
    Forms,              \* registration forms of an MT5 account: [login, prof, srv]
    Beats,              \* heartbeats of the controller: [id, login, prof, srv, on]
    Starts,             \* registries at rest a run begins with
    Posts,              \* requests, numbered as they begin
    MaxStops,
    None, Keep

Accounts == Mt5 \cup CTrader

VARIABLES
    row,        \* the two hashes of accounts, None for no row
    exact,      \* auto-bind record of a login and a server
    alone,      \* auto-bind record of a login
    deft,       \* the default account
    post,       \* position of each request and what it holds
    met,        \* ghost: accounts two overlapping requests were about
    cut,        \* ghost: accounts whose key a request for another one removed
    silent,     \* ghost: disabled by a request that does not look at the default
    stopped     \* ghost: accounts of the requests that were stopped

registry == <<row, exact, alone, deft>>
ghosts == <<met, cut, silent, stopped>>
vars == <<registry, post, ghosts>>

Row == [on : BOOLEAN, login : Logins \cup {None},
        prof : Profiles \cup {None}, srv : Servers \cup {None}]
Identity == Logins \X Servers
Idle == [pc |-> "idle", kind |-> None, about |-> {}, logins |-> {}, want |-> Keep,
         drop |-> FALSE, id |-> None, was |-> None, puts |-> <<>>, todo |-> {}, sole |-> None,
         list |-> <<>>, rest |-> {}]

TypeOK ==
    /\ row \in [Accounts -> Row \cup {None}] /\ deft \in Accounts \cup {None}
    /\ exact \in [Identity -> [id : Mt5, prof : Profiles] \cup {None}]
    /\ alone \in [Logins -> [id : Mt5, prof : Profiles] \cup {None}]
    /\ \A p \in Posts : post[p].about \subseteq Accounts
    /\ met \cup cut \cup silent \cup stopped \subseteq Accounts

\* A request goes on to pc, or is over and holds nothing.
At(j, pc) == IF pc = "done" THEN [Idle EXCEPT !.pc = "done"] ELSE [j EXCEPT !.pc = pc]

Has(rows, a) == rows[a] # None
On(rows, a) == Has(rows, a) /\ rows[a].on
Record(a, r) == [id |-> a, prof |-> r.prof]
KeyOf(r) == <<r.login, r.srv>>

\* What writeMt5ExactAutoBind binds.
Binds(r) == r # None /\ r.on /\ r.prof # None /\ r.srv # None

\* syncMt5LoginAutoBind: the only enabled account of the login, if it names no server.
Enabled(rows, l) == {a \in Mt5 : On(rows, a) /\ rows[a].prof # None /\ rows[a].login = l}
Sole(rows, l) ==
    LET E == Enabled(rows, l)
    IN  IF \E a \in E : E = {a} /\ rows[a].srv = None
        THEN LET a == CHOOSE x \in E : TRUE IN Record(a, rows[a])
        ELSE None

Init ==
    /\ row \in Starts
    /\ exact = [k \in Identity |->
                  LET E == {a \in Mt5 : Binds(row[a]) /\ KeyOf(row[a]) = k}
                  IN  IF E = {} THEN None ELSE LET a == CHOOSE x \in E : TRUE
                                               IN  Record(a, row[a])]
    /\ alone = [l \in Logins |-> Sole(row, l)]
    /\ deft \in {a \in Accounts : On(row, a)} \cup {None}
    /\ post = [p \in Posts |-> Idle]
    /\ met = {} /\ cut = {} /\ silent = {} /\ stopped = {}

-----------------------------------------------------------------------------
(* The first read of a request, and what it will write                     *)

Running(p) == post[p].pc \notin {"idle", "done"}

\* Two requests meet when they run at once about one account or one login.
Enter(p, j) ==
    /\ post[p].pc = "idle" /\ \A q \in Posts : q < p => post[q].pc # "idle"
    /\ post' = [post EXCEPT ![p] = j]
    /\ met' = met \cup UNION {j.about \cup post[q].about : q \in {q \in Posts \ {p} :
            Running(q) /\ (j.about \cap post[q].about # {} \/ j.logins \cap post[q].logins # {})}}
    /\ UNCHANGED <<registry, cut, silent, stopped>>

LoginsOf(rs) == {r.login : r \in rs \ {None}} \ {None}

\* A request that will write `now' over the row `was' of account a.
Job(kind, a, was, now) ==
    [Idle EXCEPT !.pc = "put", !.kind = kind, !.about = {a}, !.logins = LoginsOf({was, now}),
                 !.id = a, !.was = was, !.puts = [x \in {a} |-> now]]

Or(new, old) == IF new = Keep THEN old ELSE new

\* updateManagedMt5Account: an enabled account has a profile, and shares
\* neither it nor its login and server with another enabled account.
Admissible(a, r) ==
    r.on => /\ r.prof # None
            /\ \A b \in Mt5 \ {a} : On(row, b) => /\ row[b].prof # r.prof
                                                  /\ r.srv = None \/ KeyOf(row[b]) # KeyOf(r)

EditMt5(p, a, q) ==
    LET was == row[a]
        now == [was EXCEPT !.on = Or(q.on, @), !.prof = Or(q.prof, @), !.srv = Or(q.srv, @)]
    IN  /\ Has(row, a) /\ Admissible(a, now)
        /\ Enter(p, [Job("edit", a, was, now) EXCEPT
                        !.want = q.deft, !.drop = ~now.on])

CreateMt5(p, a, f) ==
    /\ ~Has(row, a)
    /\ \A b \in Mt5 : Has(row, b) => row[b].login # f.login \/ BrokerOf[b] # BrokerOf[a]
    /\ Enter(p, Job("create", a, None, [on |-> FALSE, login |-> f.login, prof |-> f.prof,
                                      srv |-> f.srv]))

DeleteMt5(p, a) == Has(row, a) /\ Enter(p, Job("delete", a, row[a], None))

\* PATCH of the accounts page; PATCH of the cTrader page ends with the row.
EditCTrader(p, a, q, kind) ==
    /\ Has(row, a)
    /\ Enter(p, [Job(kind, a, row[a], [row[a] EXCEPT !.on = Or(q.on, @)]) EXCEPT
                    !.want = q.deft, !.drop = q.on = FALSE])

\* A cTrader account nobody has edited yet.
Discovered(a) == [on |-> a = Legacy, login |-> None, prof |-> None, srv |-> None]

\* syncManagedCTraderAccounts: the rows of all granted accounts, in one call.
SyncCTrader(p, granted) ==
    Enter(p, [Idle EXCEPT !.pc = "put", !.kind = "sync", !.about = granted,
                 !.puts = [a \in granted |->
                             IF Has(row, a) THEN row[a] ELSE Discovered(a)]])

\* The account a heartbeat is taken for: by id, by profile, or by login and server.
Matches(rows, b) ==
    {a \in Mt5 : Has(rows, a) /\ (a = b.id \/ rows[a].prof = b.prof \/ KeyOf(rows[a]) = KeyOf(b))}

\* syncManagedMt5AccountsFromLocalHeartbeats takes the list once for all rows.
Heartbeats(p, bs) ==
    LET A == UNION {Matches(row, b) \cup {b.id} : b \in bs}
    IN  Enter(p, [Idle EXCEPT !.pc = "next", !.kind = "beat", !.about = A, !.list = row, !.rest = bs,
                     !.logins = LoginsOf(bs \cup {row[a] : a \in A})])

HeartbeatRow(p, b) ==
    LET j == post[p]
        M == Matches(j.list, b)
        new == [on |-> b.on, login |-> b.login, prof |-> b.prof, srv |-> b.srv]
        Write(a, was) == [j EXCEPT !.pc = "put", !.id = a, !.was = was, !.puts = [x \in {a} |-> new],
                                   !.rest = @ \ {b}]
    IN  /\ j.pc = "next" /\ j.kind = "beat" /\ b \in j.rest
        /\ \/ M = {} /\ post' = [post EXCEPT ![p] = Write(b.id, None)]
           \/ \E a \in M :     \* the first in the list, whose order is left open
                post' = [post EXCEPT ![p] = IF j.list[a] = new THEN [j EXCEPT !.rest = @ \ {b}]
                                               ELSE Write(a, j.list[a])]
        /\ UNCHANGED <<registry, ghosts>>

\* reconcileManagedMt5AutoBind: the enabled accounts, one after the other.
Reconcile(p) ==
    LET A == {a \in Mt5 : On(row, a) /\ row[a].prof # None}
    IN  Enter(p, [Idle EXCEPT !.pc = "next", !.kind = "check", !.about = A, !.rest = A,
                     !.list = row, !.logins = LoginsOf({row[a] : a \in A})])

\* The bridge's heartbeat says s, says nothing, or contradicts the account.
ReconcileRow(p, a, s) ==
    LET j == post[p]
        now == [j.list[a] EXCEPT !.srv = s]
        on == [j EXCEPT !.id = a, !.was = None, !.puts = [x \in {a} |-> now],
                        !.rest = @ \ {a}]
    IN  /\ j.pc = "next" /\ j.kind = "check" /\ a \in j.rest
        /\ post' = [post EXCEPT ![p] =
              IF s = None \/ j.list[a].srv \notin {None, s} THEN [j EXCEPT !.rest = @ \ {a}]
              ELSE IF j.list[a].srv = None THEN [on EXCEPT !.pc = "put", !.was = j.list[a]]
              ELSE [on EXCEPT !.pc = "bind"]]
        /\ UNCHANGED <<registry, ghosts>>

LastRow(p) ==
    /\ post[p].pc = "next" /\ post[p].rest = {}
    /\ post' = [post EXCEPT ![p] = At(@, "done")]
    /\ UNCHANGED <<registry, ghosts>>

-----------------------------------------------------------------------------
(* The writes, and what follows them                                       *)

Written(puts, rows) == [a \in Accounts |-> IF a \in DOMAIN puts THEN puts[a] ELSE rows[a]]

\* PATCH's makeDefault, after the update is through.
Choice(j) == IF j.want = Keep THEN "done" ELSE IF j.want THEN "choose" ELSE "default"

AfterRow(j) ==
    IF j.kind \in {"sync", "ctrader"} THEN "done"
    ELSE IF j.id \in Mt5 THEN "unbind"
    ELSE IF j.drop THEN "default" ELSE Choice(j)

AfterKeys(j) ==
    CASE j.kind = "create" -> "done"
      [] j.kind \in {"beat", "check"} -> "next"
      [] j.kind = "delete" -> "default"
      [] OTHER -> IF j.drop THEN "default" ELSE Choice(j)

Put(p) ==
    LET j == post[p]
    IN  /\ j.pc = "put"
        /\ row' = Written(j.puts, row)
        /\ post' = [post EXCEPT ![p] = At(j, AfterRow(j))]
        /\ silent' = silent \cup {a \in DOMAIN j.puts : /\ j.kind \in {"beat", "ctrader"}
                                                        /\ On(row, a) /\ ~On(row', a)}
        /\ UNCHANGED <<exact, alone, deft, met, cut, stopped>>

\* Mutant: only the key of the new row is mended, the old one stays.
UnbindDeleted(p) ==
    LET j == post[p]
        old == j.was # None /\ j.was.srv # None /\ j.puts[j.id] = None
    IN  /\ j.pc = "unbind"
        /\ exact' = IF old THEN [exact EXCEPT ![KeyOf(j.was)] = None] ELSE exact
        /\ post' = [post EXCEPT ![p].pc = "bind"]
        /\ UNCHANGED <<row, alone, deft, ghosts>>

Unbind(p) ==    \* deleteMt5ExactAutoBind
    LET j == post[p]
        old == j.was # None /\ j.was.srv # None
    IN  /\ j.pc = "unbind"
        /\ exact' = IF old THEN [exact EXCEPT ![KeyOf(j.was)] = None] ELSE exact
        /\ cut' = IF old THEN cut \cup {a \in Mt5 \ {j.id} : Binds(row[a]) /\ KeyOf(row[a]) = KeyOf(j.was)}
                  ELSE cut
        /\ post' = [post EXCEPT ![p].pc = "bind"]
        /\ UNCHANGED <<row, alone, deft, met, silent, stopped>>

Bind(p) ==      \* writeMt5ExactAutoBind
    LET j == post[p]
        now == j.puts[j.id]
    IN  /\ j.pc = "bind"
        /\ exact' = IF Binds(now) THEN [exact EXCEPT ![KeyOf(now)] = Record(j.id, now)] ELSE exact
        /\ post' = [post EXCEPT ![p].pc = "look", ![p].todo = LoginsOf({j.was, now})]
        /\ UNCHANGED <<row, alone, deft, ghosts>>

LookAtLogin(p, l) ==
    /\ post[p].pc = "look" /\ l \in post[p].todo
    /\ post' = [post EXCEPT ![p].pc = "alone", ![p].sole = <<l, Sole(row, l)>>]
    /\ UNCHANGED <<registry, ghosts>>

BindLogin(p) ==
    LET j == post[p]
        l == j.sole[1]
        left == j.todo \ {l}
    IN  /\ j.pc = "alone"
        /\ alone' = [alone EXCEPT ![l] = j.sole[2]]
        /\ post' = [post EXCEPT ![p] =
              At([j EXCEPT !.todo = left, !.list = IF j.kind = "beat" THEN Written(j.puts, @) ELSE @],
                 IF left # {} THEN "look" ELSE AfterKeys(j))]
        /\ UNCHANGED <<row, exact, deft, ghosts>>

\* Drop the default if it is this account; once more for makeDefault: false.
AfterDefault(j) == IF j.drop THEN Choice(j) ELSE "done"

LookAtDefault(p) ==
    LET j == post[p]
    IN  /\ j.pc = "default"
        /\ post' = [post EXCEPT ![p] = IF deft = j.id THEN At(j, "drop")
                                       ELSE At([j EXCEPT !.drop = FALSE], AfterDefault(j))]
        /\ UNCHANGED <<registry, ghosts>>

DropDefault(p) ==
    LET j == post[p]
    IN  /\ j.pc = "drop" /\ deft' = None
        /\ post' = [post EXCEPT ![p] = At([j EXCEPT !.drop = FALSE], AfterDefault(j))]
        /\ UNCHANGED <<row, exact, alone, ghosts>>

\* setDefaultProviderAccount, called when the updated account is enabled.
LookBeforeDefault(p) ==
    /\ post[p].pc = "choose"
    /\ post' = [post EXCEPT ![p] = At(@, IF On(row, post[p].id) THEN "chosen" ELSE "done")]
    /\ UNCHANGED <<registry, ghosts>>

SetDefault(p) ==
    /\ post[p].pc = "chosen" /\ deft' = post[p].id
    /\ post' = [post EXCEPT ![p] = At(@, "done")]
    /\ UNCHANGED <<row, exact, alone, ghosts>>

\* A failing call or the time limit: what is written stays written.
Stop(p) ==
    /\ Running(p) /\ Cardinality({q \in Posts : post[q].kind = "stopped"}) < MaxStops
    /\ post' = [post EXCEPT ![p] = [Idle EXCEPT !.pc = "done", !.kind = "stopped"]]
    /\ stopped' = stopped \cup post[p].about
    /\ UNCHANGED <<registry, met, cut, silent>>

\* What the page of the accounts asks for, and that of the cTrader accounts.
AccountsPage(p) ==
    \/ \E a \in Mt5, q \in Patches : EditMt5(p, a, q)
    \/ \E a \in Mt5, f \in Forms : CreateMt5(p, a, f)
    \/ \E a \in Mt5 : DeleteMt5(p, a)
    \/ \E a \in CTrader, q \in Patches : EditCTrader(p, a, q, "edit")
    \/ Reconcile(p)

CTraderPage(p) ==
    \/ \E a \in CTrader, q \in Patches : EditCTrader(p, a, q, "ctrader")
    \/ \E granted \in SUBSET CTrader \ {{}} : SyncCTrader(p, granted)

Next == \E p \in Posts :
    \/ AccountsPage(p) \/ CTraderPage(p)
    \/ \E bs \in SUBSET Beats \ {{}} : Heartbeats(p, bs)
    \/ \E b \in Beats : HeartbeatRow(p, b)
    \/ \E a \in Mt5, s \in Servers \cup {None} : ReconcileRow(p, a, s)
    \/ LastRow(p) \/ Put(p) \/ Unbind(p) \/ Bind(p)
    \/ \E l \in Logins : LookAtLogin(p, l)
    \/ BindLogin(p) \/ LookAtDefault(p) \/ DropDefault(p)
    \/ LookBeforeDefault(p) \/ SetDefault(p) \/ Stop(p)

Spec == Init /\ [][Next]_vars

-----------------------------------------------------------------------------
(* Properties                                                              *)

AtRest == \A p \in Posts : ~Running(p)
Spoiled == met \cup stopped

\* Once the requests are through: an auto-bind key names an enabled account of that
\* login and server and its present profile, no account that can be bound is without a
\* key, and the default account is there and enabled.  Each of it unless requests about
\* the account overlapped or one was stopped; the key may have gone with a request for
\* another account of the same login and server, and the default may have been disabled
\* by a request that never looks at the default (a heartbeat, the cTrader page).
RegistryAgrees == AtRest =>
    /\ \A k \in Identity : exact[k] # None =>
          LET a == exact[k].id
          IN  a \notin Spoiled => Binds(row[a]) /\ KeyOf(row[a]) = k /\ exact[k] = Record(a, row[a])
    /\ \A a \in Mt5 : Binds(row[a]) => a \in Spoiled \cup cut \/ exact[KeyOf(row[a])] # None
    /\ \A l \in Logins : alone[l] # None =>
          alone[l].id \in Spoiled \/ alone[l] = Sole(row, l)
                                  \/ \E a \in Spoiled : On(row, a) /\ row[a].login = l
    /\ deft = None \/ On(row, deft) \/ deft \in Spoiled \cup silent
=============================================================================

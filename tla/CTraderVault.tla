---------------------------- MODULE CTraderVault ----------------------------
(***************************************************************************)
(* The vault of the cTrader grant: one encrypted record in Redis, which    *)
(* every caller loads, refreshes at the broker when it is about to expire  *)
(* and saves again, with no lock; and the authorization that fills it, in  *)
(* four requests of the operator's browser, each of which spends the key   *)
(* the one before it left: ticket, intent, pending code, grant.            *)
(*                                                                         *)
(* The broker gives a new refresh token with every answer and refuses the  *)
(* used one, but may for a while still honour it.  Requests come twice (a  *)
(* reloaded page, a double click), a handler may be stopped between two    *)
(* calls, and the answer of a broker that has acted may be lost.           *)
(*                                                                         *)
(* Encryption is left out but for the key a record was written with: the   *)
(* old one of the API, until the first caller that reads it, or its own.   *)
(***************************************************************************)
EXTENDS Naturals, FiniteSets

CONSTANTS
    Flows,          \* authorizations the operator starts, 1, 2, ...
    Visits,         \* requests, numbered as they begin
    MaxTokens,      \* refresh tokens the broker gives out
    MaxStops, Nobody

VARIABLES
    vault,      \* the record, Nobody for none
    ticket, intent, pending,    \* flows whose key is there
    browser,    \* how far the operator's browser is with each flow
    visit,      \* position of each request and what it holds
    honoured,   \* external: the refresh token the broker honours for each grant
    given,      \* external: refresh tokens given out
    spent,      \* ghost: how often each flow's code was presented
    crossed,    \* ghost: a record was saved over one its writer had not read
    lost        \* ghost: a new token did not reach the vault

keys == <<ticket, intent, pending>>
broker == <<honoured, given>>
ghosts == <<spent, crossed, lost>>
vars == <<vault, keys, browser, visit, broker, ghosts>>

\* The first record, a grant 0 of before the authorizations, has token 1.
Records == [grant : Flows \cup {0}, token : 1 .. MaxTokens, fresh : BOOLEAN, old : BOOLEAN]
Pcs == {"idle", "loaded", "ticketed", "intended", "coded", "answered", "stopped", "done"}
Idle == [pc |-> "idle", flow |-> 0, read |-> Nobody, new |-> Nobody]
Over == [Idle EXCEPT !.pc = "done"]

TypeOK ==
    /\ vault \in Records \cup {Nobody}
    /\ ticket \cup intent \cup pending \subseteq Flows
    /\ browser \in [Flows -> {"away", "ticket", "broker", "code", "pending"}]
    /\ visit \in [Visits -> [pc : Pcs, flow : Flows \cup {0}, read : Records \cup {Nobody},
                             new : Records \cup {Nobody}]]
    /\ honoured \in [Flows \cup {0} -> 0 .. MaxTokens] /\ given \in 0 .. MaxTokens
    /\ spent \in [Flows -> Nat]
    /\ {crossed, lost} \subseteq BOOLEAN

Init ==
    /\ \/ vault = Nobody /\ given = 0
       \/ \E fresh, old \in BOOLEAN :
             vault = [grant |-> 0, token |-> 1, fresh |-> fresh, old |-> old] /\ given = 1
    /\ ticket = {} /\ intent = {} /\ pending = {}
    /\ browser = [f \in Flows |-> "away"]
    /\ visit = [v \in Visits |-> Idle]
    /\ honoured = [g \in Flows \cup {0} |-> IF g = 0 THEN given ELSE 0]
    /\ spent = [f \in Flows |-> 0]
    /\ crossed = FALSE /\ lost = FALSE

Goes(v, j) == visit' = [visit EXCEPT ![v] = j]
New(v) == visit[v].pc = "idle" /\ \A u \in Visits : u < v => visit[u].pc # "idle"

-----------------------------------------------------------------------------
(* A caller that wants a fresh token                                       *)

\* The record is within five minutes of its end.
Expires ==
    /\ vault # Nobody /\ vault.fresh
    /\ vault' = [vault EXCEPT !.fresh = FALSE]
    /\ UNCHANGED <<keys, browser, visit, broker, ghosts>>

\* loadCTraderTokens; a record under the old key is not returned before it is
\* written under the new one.
Load(v) ==
    /\ New(v) /\ vault # Nobody
    /\ Goes(v, IF vault.fresh /\ ~vault.old THEN Over
               ELSE [Idle EXCEPT !.pc = "loaded", !.read = vault])
    /\ UNCHANGED <<vault, keys, browser, broker, ghosts>>

Migrate(v) ==
    LET r == visit[v].read
    IN  /\ visit[v].pc = "loaded" /\ r.old
        /\ vault' = [r EXCEPT !.old = FALSE]
        /\ crossed' = (crossed \/ vault # r)
        /\ Goes(v, IF r.fresh THEN Over ELSE [visit[v] EXCEPT !.read = vault'])
        /\ UNCHANGED <<keys, browser, broker, spent, lost>>

\* The broker refuses a used token, honours it once more, or takes a good one.
Token(g) == [grant |-> g, token |-> given + 1, fresh |-> TRUE, old |-> FALSE]

Answered(v, g) ==
    /\ given < MaxTokens /\ given' = given + 1
    /\ honoured' = [honoured EXCEPT ![g] = given + 1]
    /\ Goes(v, [visit[v] EXCEPT !.pc = "answered", !.new = Token(g)])

Refresh(v) ==
    LET r == visit[v].read
    IN  /\ visit[v].pc = "loaded" /\ ~r.old
        /\ \/ Answered(v, r.grant)
           \/ r.token # honoured[r.grant] /\ Goes(v, Over) /\ UNCHANGED broker
        /\ UNCHANGED <<vault, keys, browser, ghosts>>

\* Mutant: the record is refreshed but for its refresh token.
SaveKeepsToken(v) ==
    LET j == visit[v]
    IN  /\ j.pc = "answered"
        /\ vault' = IF j.flow = 0 THEN [j.new EXCEPT !.token = j.read.token] ELSE j.new
        /\ Goes(v, Over)
        /\ UNCHANGED <<keys, browser, broker, ghosts>>

Save(v) ==
    LET j == visit[v]
        blind == IF j.flow = 0 THEN vault # j.read
                 ELSE vault # Nobody /\ vault.token > j.new.token
    IN  /\ j.pc = "answered"
        /\ vault' = j.new /\ crossed' = (crossed \/ blind)
        /\ Goes(v, Over)
        /\ UNCHANGED <<keys, browser, broker, spent, lost>>

-----------------------------------------------------------------------------
(* The authorization                                                       *)

Create(f) ==        \* POST oauth
    /\ browser[f] = "away"
    /\ ticket' = ticket \cup {f} /\ browser' = [browser EXCEPT ![f] = "ticket"]
    /\ UNCHANGED <<vault, intent, pending, visit, broker, ghosts>>

\* Each of the three requests that follow takes the key of the step before, in
\* one call, and is refused without it.
TakeTicket(v, f) ==
    /\ New(v) /\ browser[f] = "ticket" /\ f \in ticket
    /\ ticket' = ticket \ {f}
    /\ Goes(v, [Idle EXCEPT !.pc = "ticketed", !.flow = f])
    /\ UNCHANGED <<vault, intent, pending, browser, broker, ghosts>>

PutIntent(v) ==
    LET f == visit[v].flow
    IN  /\ visit[v].pc = "ticketed"
        /\ intent' = intent \cup {f} /\ browser' = [browser EXCEPT ![f] = "broker"]
        /\ Goes(v, Over)
        /\ UNCHANGED <<vault, ticket, pending, broker, ghosts>>

Grant(f) ==         \* external: the operator agrees, and is sent back with a code
    /\ browser[f] = "broker" /\ browser' = [browser EXCEPT ![f] = "code"]
    /\ UNCHANGED <<vault, keys, visit, broker, ghosts>>

TakeIntent(v, f) ==
    /\ New(v) /\ browser[f] = "code" /\ f \in intent
    /\ intent' = intent \ {f}
    /\ Goes(v, [Idle EXCEPT !.pc = "intended", !.flow = f])
    /\ UNCHANGED <<vault, ticket, pending, browser, broker, ghosts>>

PutPending(v) ==
    LET f == visit[v].flow
    IN  /\ visit[v].pc = "intended"
        /\ pending' = pending \cup {f} /\ browser' = [browser EXCEPT ![f] = "pending"]
        /\ Goes(v, Over)
        /\ UNCHANGED <<vault, ticket, intent, broker, ghosts>>

TakePending(v, f) ==
    /\ New(v) /\ browser[f] = "pending" /\ f \in pending
    /\ pending' = pending \ {f}
    /\ Goes(v, [Idle EXCEPT !.pc = "coded", !.flow = f])
    /\ UNCHANGED <<vault, ticket, intent, browser, broker, ghosts>>

\* The broker takes a code once, or refuses it.
Exchange(v) ==
    LET f == visit[v].flow
    IN  /\ visit[v].pc = "coded"
        /\ spent' = [spent EXCEPT ![f] = @ + 1]
        /\ \/ spent[f] = 0 /\ Answered(v, f)
           \/ Goes(v, Over) /\ UNCHANGED broker
        /\ UNCHANGED <<vault, keys, browser, crossed, lost>>

\* Ten minutes for a ticket and an intent, five for a pending code.
KeyExpires(f) ==
    /\ f \in ticket \cup intent \cup pending
    /\ ticket' = ticket \ {f} /\ intent' = intent \ {f} /\ pending' = pending \ {f}
    /\ UNCHANGED <<vault, browser, visit, broker, ghosts>>

\* A failing call, a lost answer or the time limit.
Stop(v) ==
    /\ visit[v].pc \notin {"idle", "stopped", "done"}
    /\ Cardinality({u \in Visits : visit[u].pc = "stopped"}) < MaxStops
    /\ lost' = (lost \/ visit[v].pc = "answered")
    /\ Goes(v, [Idle EXCEPT !.pc = "stopped"])
    /\ UNCHANGED <<vault, keys, browser, broker, spent, crossed>>

Next ==
    \/ Expires
    \/ \E v \in Visits : \/ Load(v) \/ Migrate(v) \/ Refresh(v) \/ Save(v)
                         \/ PutIntent(v) \/ PutPending(v) \/ Exchange(v) \/ Stop(v)
    \/ \E f \in Flows : \/ Create(f) \/ Grant(f) \/ KeyExpires(f)
                        \/ \E v \in Visits : TakeTicket(v, f) \/ TakeIntent(v, f) \/ TakePending(v, f)

Spec == Init /\ [][Next]_vars

-----------------------------------------------------------------------------
(* Properties                                                              *)

\* However often its requests come, one authorization presents its code to the
\* broker at most once.  And once the requests are through, the vault holds the newest
\* token the broker gave out and it is the one the broker honours, any number of callers
\* having refreshed at once and the broker having honoured a used token or not, unless a
\* new token did not reach the vault or a record was saved over one its writer had not
\* read (a refresh that overlapped another one, a new grant or the change of keys).
VaultIsCurrent ==
    /\ \A f \in Flows : spent[f] <= 1
    /\ (vault # Nobody /\ \A v \in Visits : visit[v].pc \in {"idle", "stopped", "done"})
          => \/ vault.token = given /\ honoured[vault.grant] = vault.token
             \/ crossed \/ lost
=============================================================================

--------------------------- MODULE MCCTraderManager ---------------------------
\* Three parts that share no state, in one run: an initial state picks the part that
\* moves, the others rest.  CTraderManager: two passes over one position.
\* ProviderAccounts: two requests over two MT5 accounts, one of them disabled, and a
\* cTrader account.  CTraderVault: one authorization, four requests.
EXTENDS CTraderManager, TLC

CONSTANTS t1, t2
OneLevel == <<1>>
Quarter == <<25>>
MCTicks == {t1, t2}
Alike == Permutations(MCTicks)

-----------------------------------------------------------------------------
CONSTANTS Mt5, CTrader, BrokerOf, Legacy, Logins, Profiles, Servers, Patches, Forms,
          Beats, Starts, Posts, MaxStops, None, Keep
VARIABLES row, exact, alone, deft, post, met, cut, silent, stopped
accounts == <<row, exact, alone, deft, post, met, cut, silent, stopped>>
PA == INSTANCE ProviderAccounts

CONSTANTS m1, m2, c1
MCBrokerOf == (m1 :> 1) @@ (m2 :> 2)
Mt5Row(o, l, f, s) == [on |-> o, login |-> l, prof |-> f, srv |-> s]
MCStarts == {(m1 :> Mt5Row(TRUE, 1, "p", "s")) @@ (m2 :> Mt5Row(FALSE, 1, "q", "s"))
                @@ (c1 :> Mt5Row(TRUE, None, None, None))}
Patch(o, f, s, d) == [on |-> o, prof |-> f, srv |-> s, deft |-> d]
MCPatches == {Patch(TRUE, Keep, Keep, TRUE), Patch(FALSE, Keep, Keep, FALSE),
              Patch(TRUE, "q", None, Keep)}
MCForms == {[login |-> 1, prof |-> "p", srv |-> "s"]}
Beat(i, l, f, s, o) == [id |-> i, login |-> l, prof |-> f, srv |-> s, on |-> o]
MCBeats == {Beat(m1, 2, "p", "s", TRUE), Beat(m2, 1, "p", "s", FALSE)}

ASSUME AccountsAssumption ==
    /\ Mt5 \cap CTrader = {} /\ Legacy \in CTrader \cup {None} /\ None # Keep
    /\ BrokerOf \in [Mt5 -> Nat] /\ Posts \subseteq Nat /\ MaxStops \in Nat
    /\ None \notin Logins /\ None \notin Profiles /\ None \notin Servers
    /\ None \notin Mt5 \cup CTrader
    /\ None \notin Beats /\ None \notin PA!Row /\ None \notin [id : Mt5, prof : Profiles]
    /\ Starts \subseteq [PA!Accounts -> PA!Row \cup {None}]
    /\ \A s \in Starts, a \in Mt5 : s[a] # None => s[a].login \in Logins
    /\ Patches \subseteq [on : BOOLEAN \cup {Keep}, prof : Profiles \cup {None, Keep},
                          srv : Servers \cup {None, Keep}, deft : BOOLEAN \cup {Keep}]
    /\ Forms \subseteq [login : Logins, prof : Profiles \cup {None}, srv : Servers \cup {None}]
    /\ Beats \subseteq [id : Mt5, login : Logins, prof : Profiles \cup {None},
                        srv : Servers \cup {None}, on : BOOLEAN]

CONSTANTS Flows, Visits, MaxTokens, Nobody
VARIABLES vault, ticket, intent, pending, browser, visit, honoured, given,
          spent, crossed, lost
grants == <<vault, ticket, intent, pending, browser, visit, honoured, given,
          spent, crossed, lost>>
CV == INSTANCE CTraderVault

ASSUME VaultAssumption ==
    /\ Flows \subseteq Nat \ {0} /\ Visits \subseteq Nat /\ MaxTokens \in Nat \ {0}
    /\ Nobody \notin CV!Records

-----------------------------------------------------------------------------
VARIABLE part       \* the part that moves

\* The parts that rest are in one of their initial states.
MCInit ==
    /\ part \in {"manager", "accounts", "vault"}
    /\ Init /\ PA!Init /\ CV!Init
    /\ part # "accounts" => deft = None
    /\ part # "vault" => vault = Nobody

ManagerStep == part = "manager" /\ Next /\ UNCHANGED <<part, accounts, grants>>
AccountsStep == part = "accounts" /\ PA!Next /\ UNCHANGED <<part, vars, grants>>
VaultStep == part = "vault" /\ CV!Next /\ UNCHANGED <<part, vars, accounts>>

MCNext == ManagerStep \/ AccountsStep \/ VaultStep

MCSpec == MCInit /\ [][MCNext]_<<part, vars, accounts, grants>>

-----------------------------------------------------------------------------
\* ProviderAccounts: the keys and the default agree with the accounts.
RegistryAgrees == PA!RegistryAgrees

\* CTraderVault: a code is spent once, and the vault holds the token the broker honours.
VaultIsCurrent == CV!VaultIsCurrent
=============================================================================

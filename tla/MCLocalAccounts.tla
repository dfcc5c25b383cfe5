---- MODULE MCLocalAccounts ----
EXTENDS LocalAccounts, TLC
Default == ("A" :> "local_A") @@ ("B" :> "local_B")
Blank == [t \in Terminals |-> None]
Ins == { [name |-> Blank, fixed |-> {}], [name |-> ("t1" :> "gold") @@ ("t2" :> None), fixed |-> {"t1"}] }
First == ("t1" :> "A") @@ ("t2" :> "B")
Order == <<"local_A","gold", "local_B">>
NoTable == {<<>>}
Cmds == ("all" :> [kind |-> "close", to |-> None]) @@ ("entry" :> [kind |-> "entry", to |-> "local_A"])
====
